----------------------------- MODULE SoundProofs -----------------------------
(***************************************************************************)
(* Proofs about the sound, for every value of the constants: the queue of  *)
(* register writes is a first-in first-out queue, every write takes effect *)
(* in its turn and in time, a channel runs by its registers for as long as *)
(* they say, and the samples are heard once and whole, whatever the two    *)
(* processors do.                                                          *)
(***************************************************************************)
EXTENDS SndQueue, SoundMix, SoundChannel, SoundOutput,
        SequenceTheorems, WellFoundedInduction, TLAPS

(* The queue of register writes.                                           *)

\* The index after a slot is one.
LEMMA AfterIsSlot ==
  ASSUME NEW x \in Slots
  PROVE  After(x) \in Slots
BY SizeAssumption DEF After, Slots

\* The ring's types hold at the beginning ...
LEMMA QueueBegins == QueueInit => QueueTypeOK
<1>. SUFFICES ASSUME QueueInit PROVE QueueTypeOK
  OBVIOUS
<1>1. 0 \in Slots
  BY SizeAssumption DEF Slots
<1>. QED
  BY <1>1 DEF QueueInit, QueueTypeOK

\* ... and after every step.
LEMMA QueueSteps == QueueTypeOK /\ [QueueNext]_queueVars => QueueTypeOK'
<1>. SUFFICES ASSUME QueueTypeOK, [QueueNext]_queueVars PROVE QueueTypeOK'
  OBVIOUS
<1>0. 0 \in Slots
  BY SizeAssumption DEF Slots
<1>1. ASSUME NEW d \in Writes, snd_enqueue(d) PROVE QueueTypeOK'
  BY <1>1, AfterIsSlot DEF QueueTypeOK, snd_enqueue, queueVars
<1>2. CASE snd_dequeue
  BY <1>2, AfterIsSlot DEF QueueTypeOK, snd_dequeue
<1>3. CASE snd_clearqueue
  BY <1>0, <1>3 DEF QueueTypeOK, snd_clearqueue
<1>4. CASE UNCHANGED queueVars
  BY <1>4 DEF QueueTypeOK, queueVars
<1>. QED
  BY <1>1, <1>2, <1>3, <1>4 DEF QueueNext

\* The indices stay in the ring and the slots hold writes.
THEOREM QueueInRange == QueueSpec => []QueueTypeOK
BY QueueBegins, QueueSteps, PTL DEF QueueSpec
-----------------------------------------------------------------------------
(* The queue as a sequence.                                                *)

\* The queued writes, oldest first, are a sequence.
LEMMA QueuedInRange ==
  ASSUME QueueTypeOK
  PROVE  /\ Queued \in 0 .. Size - 1
         /\ \A i \in 1 .. Queued : Slot(i) \in Slots
         /\ Contents \in Seq(Writes)
         /\ Len(Contents) = Queued
         /\ \A i \in 1 .. Queued : Contents[i] = q[Slot(i)]
<1>1. /\ Queued \in 0 .. Size - 1
      /\ \A i \in 1 .. Queued : Slot(i) \in Slots
  BY SizeAssumption DEF QueueTypeOK, Queued, Slot, Slots
<1>2. \A i \in 1 .. Queued : q[Slot(i)] \in Writes
  BY <1>1 DEF QueueTypeOK
<1>3. Queued \in Nat
  BY <1>1, SizeAssumption
<1>. QED
  BY <1>1, <1>2, <1>3 DEF Contents

\* Two sequences of writes are the same if they are as long and agree everywhere.
LEMMA SameWrites ==
  ASSUME NEW n \in Nat, NEW e, NEW s \in Seq(Writes),
         e = [i \in 1 .. n |-> e[i]], Len(s) = n,
         \A i \in 1 .. n : e[i] = s[i]
  PROVE  e = s
<1>1. \A i \in 1 .. n : e[i] \in Writes
  BY ElementOfSeq
<1>2. e \in Seq(Writes) /\ Len(e) = n
  BY <1>1
<1>. QED
  BY <1>2, SeqEqual

\* A write that is taken in comes last.
LEMMA EnqueueAppends ==
  ASSUME QueueTypeOK, NEW d \in Writes, snd_enqueue(d), After(head) # tail
  PROVE  Len(Contents) < Size - 1 /\ Contents' = Append(Contents, d)
<1>. DEFINE n == Queued
<1>1. /\ q' = [q EXCEPT ![head] = d] /\ head' = After(head) /\ tail' = tail
      /\ head \in Slots /\ tail \in Slots /\ q \in [Slots -> Writes]
  BY DEF snd_enqueue, QueueTypeOK
<1>2. n < Size - 1 /\ Queued' = n + 1
  BY <1>1, SizeAssumption DEF Queued, After, Slots
<1>3. \A i \in 1 .. n : Slot(i)' = Slot(i) /\ Slot(i) # head /\ Slot(i) \in Slots
  BY <1>1, SizeAssumption DEF Queued, Slot, Slots
<1>4. \A i : i = n + 1 => Slot(i)' = head
  <2>1. \A i : Slot(i)' = Slot(i)
    BY <1>1 DEF Slot
  <2>2. Slot(n + 1) = head
    BY <1>1, SizeAssumption DEF Queued, Slot, Slots
  <2>. QED
    BY <2>1, <2>2
<1>5. Contents' = [i \in 1 .. n + 1 |-> q'[Slot(i)']]
  BY <1>2 DEF Contents
<1>6. \A i \in 1 .. n : q'[Slot(i)'] = Contents[i]
  BY <1>1, <1>3, QueuedInRange
<1>7. \A i : i = n + 1 => q'[Slot(i)'] = d
  BY <1>1, <1>4
<1>8. Contents \in Seq(Writes) /\ Len(Contents) = n /\ n \in Nat
  BY QueuedInRange, SizeAssumption
<1>. HIDE DEF n
<1>9. /\ Append(Contents, d) \in Seq(Writes) /\ Len(Append(Contents, d)) = n + 1
      /\ \A i \in 1 .. n : Append(Contents, d)[i] = Contents[i]
      /\ Append(Contents, d)[n + 1] = d
  BY <1>8, AppendProperties
<1>10. \A i \in 1 .. n + 1 : Contents'[i] = Append(Contents, d)[i]
  <2>. SUFFICES ASSUME NEW i \in 1 .. n + 1 PROVE Contents'[i] = Append(Contents, d)[i]
    OBVIOUS
  <2>1. CASE i \in 1 .. n
    BY <1>5, <1>6, <1>9, <2>1
  <2>2. CASE i = n + 1
    <3>1. Contents'[i] = q'[Slot(i)']
      BY <1>5
    <3>. QED
      BY <1>7, <1>9, <2>2, <3>1
  <2>. QED
    BY <1>8, <2>1, <2>2
<1>11. n + 1 \in Nat /\ Contents' = [i \in 1 .. n + 1 |-> Contents'[i]]
  BY <1>5, <1>8
<1>12. Contents' = Append(Contents, d)
  BY <1>9, <1>10, <1>11, SameWrites
<1>. QED
  BY <1>2, <1>8, <1>12

\* The first write is the one that is handed out.
LEMMA DequeueTakesFirst ==
  ASSUME QueueTypeOK, snd_dequeue
  PROVE  Contents # <<>> /\ Contents' = Tail(Contents)
<1>. DEFINE n == Queued
<1>1. /\ q' = q /\ head' = head /\ tail' = After(tail) /\ head # tail
      /\ head \in Slots /\ tail \in Slots /\ q \in [Slots -> Writes]
  BY DEF snd_dequeue, snd_queue_empty, QueueTypeOK
<1>2. n > 0 /\ Queued' = n - 1
  BY <1>1, SizeAssumption DEF Queued, After, Slots
<1>3. \A i \in 1 .. n - 1 : Slot(i)' = Slot(i + 1)
  BY <1>1, SizeAssumption DEF Queued, Slot, After, Slots
<1>4. Contents' = [i \in 1 .. n - 1 |-> q[Slot(i)']]
  BY <1>1, <1>2 DEF Contents
<1>5. /\ Contents \in Seq(Writes) /\ Len(Contents) = n /\ n \in Nat
      /\ \A i \in 1 .. n : Contents[i] = q[Slot(i)]
  BY QueuedInRange, SizeAssumption
<1>. HIDE DEF n
<1>6. Contents # <<>>
  BY <1>2, <1>5
<1>7. /\ Tail(Contents) \in Seq(Writes) /\ Len(Tail(Contents)) = n - 1
      /\ \A i \in 1 .. n - 1 : Tail(Contents)[i] = Contents[i + 1]
  BY <1>5, <1>6, HeadTailProperties
<1>8. \A i \in 1 .. n - 1 : Contents'[i] = Tail(Contents)[i]
  <2>. SUFFICES ASSUME NEW i \in 1 .. n - 1 PROVE Contents'[i] = Tail(Contents)[i]
    OBVIOUS
  <2>1. Contents'[i] = q[Slot(i + 1)]
    BY <1>3, <1>4
  <2>2. i + 1 \in 1 .. n
    BY <1>5
  <2>. QED
    BY <1>5, <1>7, <2>1, <2>2
<1>9. n - 1 \in Nat /\ Contents' = [i \in 1 .. n - 1 |-> Contents'[i]]
  BY <1>2, <1>4, <1>5
<1>. QED
  BY <1>6, <1>7, <1>8, <1>9, SameWrites
-----------------------------------------------------------------------------
(* The refinement.                                                         *)

\* Nothing is queued when the indices meet.
LEMMA EmptyContents == head = tail /\ tail \in Slots => Contents = <<>>
<1>. SUFFICES ASSUME head = tail, tail \in Slots PROVE Contents = <<>>
  OBVIOUS
<1>1. Queued = 0
  BY SizeAssumption DEF Queued, Slots
<1>. QED
  BY <1>1 DEF Contents

\* The ring begins as an empty queue ...
LEMMA FifoBegins == QueueInit => Fifo!Init
BY EmptyContents, SizeAssumption DEF QueueInit, Fifo!Init, Slots

\* ... and every step of it is a step of the queue, or none.
LEMMA FifoSteps == QueueTypeOK /\ QueueTypeOK' /\ [QueueNext]_queueVars => [Fifo!Next]_<<Contents, era>>
<1>. SUFFICES ASSUME QueueTypeOK, QueueTypeOK', [QueueNext]_queueVars
              PROVE  [Fifo!Next]_<<Contents, era>>
  OBVIOUS
<1>1. ASSUME NEW d \in Writes, snd_enqueue(d), After(head) # tail PROVE Fifo!Put(d)
  BY <1>1, EnqueueAppends DEF Fifo!Put, snd_enqueue
<1>2. ASSUME UNCHANGED queueVars PROVE UNCHANGED <<Contents, era>>
  BY <1>2 DEF queueVars, Contents, Queued, Slot
<1>3. ASSUME NEW d \in Writes, snd_enqueue(d), After(head) = tail PROVE UNCHANGED queueVars
  BY <1>3 DEF snd_enqueue
<1>4. CASE snd_dequeue
  BY <1>4, DequeueTakesFirst DEF Fifo!Next, Fifo!Take, snd_dequeue
<1>5. CASE snd_clearqueue
  <2>1. Queued' = 0
    BY <1>5 DEF snd_clearqueue, Queued
  <2>2. Contents' = <<>>
    BY <2>1 DEF Contents
  <2>. QED
    BY <1>5, <2>2 DEF Fifo!Next, Fifo!Empty, snd_clearqueue
<1>. QED
  BY <1>1, <1>2, <1>3, <1>4, <1>5 DEF QueueNext, Fifo!Next

\* The ring is a queue: for every size, whatever is queued, taken and cleared in
\* whatever order, nothing is lost, doubled or overtaken, and only a write that
\* finds the ring full is dropped.
THEOREM RingIsFifo == QueueSpec => ImplementsFifo
<1>1. QueueSpec => []QueueTypeOK
  BY QueueInRange
<1>. QED
  BY <1>1, FifoBegins, FifoSteps, PTL DEF QueueSpec, ImplementsFifo, Fifo!Spec
-----------------------------------------------------------------------------
(***************************************************************************)
(* Every write takes effect when it should and in its turn.                *)
(***************************************************************************)

(* The clock's arithmetic.                                                 *)
LEMMA Wrapped ==
  ASSUME NEW a \in Nat, NEW m \in Nat \ {0}
  PROVE  a % m \in 0 .. m - 1 /\ (a < m => a % m = a)
OBVIOUS

(* Every non-empty set of naturals has a least element.                    *)
LEMMA NatMin ==
  ASSUME NEW S \in SUBSET Nat, S # {}
  PROVE  \E m \in S : \A n \in S : m <= n
<1>. DEFINE R == OpToRel(<, Nat)
<1>1. IsWellFoundedOn(R, Nat)
  BY NatLessThanWellFounded
<1>2. \A x, y \in Nat : x < y => <<x, y>> \in R
  BY DEF OpToRel
<1>. HIDE DEF R
<1>3. PICK m \in S : \A n \in S : ~ (<<n, m>> \in R)
  BY <1>1, WFMin
<1>4. ASSUME NEW n \in S PROVE m <= n
  <2>1. m \in Nat /\ n \in Nat
    OBVIOUS
  <2>2. ~ (n < m)
    BY <1>2, <1>3, <2>1, Zenon
  <2>. QED
    BY <2>1, <2>2
<1>. QED
  BY <1>4

(* The writes that are applied are the ones due at the front of the queue. *)
LEMMA DueFront ==
  ASSUME MixTypeOK
  PROVE  /\ DueCount \in 0 .. Len(queue)
         /\ \A i \in 1 .. DueCount : Due(i)
         /\ ~ Due(DueCount + 1)
<1>. DEFINE S == {k \in 0 .. Len(queue) : ~ Due(k + 1)}
<1>0. Len(queue) \in Nat
  BY DEF MixTypeOK
<1>1. Len(queue) \in S
  BY <1>0 DEF Due
<1>2. PICK m \in S : \A k \in S : m <= k
  <2>1. S \subseteq Nat /\ S # {}
    BY <1>0, <1>1
  <2>. HIDE DEF S
  <2>. QED
    BY <2>1, NatMin
<1>3. ASSUME NEW i \in 1 .. m PROVE Due(i)
  <2>1. i - 1 \in 0 .. Len(queue) /\ ~ (m <= i - 1) /\ (i - 1) + 1 = i
    BY <1>0
  <2>. QED
    BY <1>2, <2>1
<1>. QED
  BY <1>2, <1>3 DEF DueCount

(* What makes the properties inductive: the queue is in order of time and  *)
(* none of it is later than the clock; a write that a mix has passed over  *)
(* is due before the next mix starts; and the last write the queue         *)
(* accepted is its last entry, or already in the register.                 *)
InOrder ==
  ~ jumped =>
    /\ \A i \in 1 .. Len(queue) : queue[i].timestamp <= snd
    /\ \A i, j \in 1 .. Len(queue) : i < j => queue[i].timestamp <= queue[j].timestamp
    /\ \A i \in 1 .. Len(queue) : queue[i].mixes # 0 =>
         queue[i].mixes = 1 /\ queue[i].timestamp < elapsed
LastWanted ==
  ~ loaded => want = IF queue = <<>> THEN reg ELSE queue[Len(queue)].value
MixInv ==
  MixTypeOK /\ pos + left <= PcmLen /\ InOrder /\ LastWanted

\* The invariant of the mixer holds at the beginning.
LEMMA MixBegins == MixInit => MixInv
<1>. SUFFICES ASSUME MixInit PROVE MixInv
  OBVIOUS
<1>1. 0 \in Times /\ <<>> \in Seq(Entries) /\ Len(<<>>) = 0
  BY SoundMixAssumption DEF Times
<1>2. MixTypeOK
  <2>1. jumped \in BOOLEAN /\ loaded \in BOOLEAN
    BY Zenon DEF MixInit
  <2>2. pos \in 0 .. PcmLen /\ left \in 0 .. PcmLen /\ Len(queue) <= Capacity
    BY <1>1, SoundMixAssumption DEF MixInit
  <2>. QED
    BY <1>1, <2>1, <2>2, SoundMixAssumption DEF MixInit, MixTypeOK
<1>. QED
  BY <1>1, <1>2, SoundMixAssumption DEF MixInit, MixInv, InOrder, LastWanted

(* The types of the queue.                                                 *)
LEMMA QueueTypes ==
  ASSUME MixTypeOK
  PROVE  /\ Len(queue) \in Nat /\ queue \in Seq(Entries)
         /\ snd \in 0 .. Modulus - 1 /\ elapsed \in 0 .. Modulus - 1
         /\ \A i \in 1 .. Len(queue) :
              /\ queue[i].timestamp \in Nat /\ queue[i].value \in Values
              /\ queue[i].mixes \in 0 .. 2 /\ queue[i] \in Entries
<1>1. Len(queue) \in Nat /\ queue \in Seq(Entries)
  BY DEF MixTypeOK
<1>2. \A i \in 1 .. Len(queue) : queue[i] \in Entries
  BY <1>1, ElementOfSeq
<1>. QED
  BY <1>1, <1>2 DEF MixTypeOK, Times, Entries

\* Time passes: nothing of the queue changes.
LEMMA AdvanceStep ==
  ASSUME MixInv, NEW c \in Ticks, sound_advance(c)
  PROVE  MixInv'
<1>1. c \in Nat /\ Modulus \in Nat \ {0} /\ MixTypeOK
  BY SoundMixAssumption DEF MixInv
<1>2. /\ snd' = (snd + c) % Modulus /\ jumped' = (jumped \/ snd + c >= Modulus)
      /\ UNCHANGED <<elapsed, queue, pos, reg, mixing, left, want, loaded>>
  BY DEF sound_advance
<1>3. snd' \in Times /\ (snd + c < Modulus => snd' = snd + c)
  <2>1. snd + c \in Nat /\ snd \in Nat
    BY <1>1, QueueTypes
  <2>2. snd' \in 0 .. Modulus - 1 /\ (snd + c < Modulus => snd' = snd + c)
    BY <1>1, <1>2, <2>1, Wrapped
  <2>. QED
    BY <2>2 DEF Times
<1>4. MixTypeOK'
  <2>1. jumped' \in BOOLEAN
    BY <1>2
  <2>. QED
    BY <1>2, <1>3, <2>1 DEF MixInv, MixTypeOK
<1>5. InOrder'
  <2>1. SUFFICES ASSUME ~ jumped'
                 PROVE  \A i \in 1 .. Len(queue) : queue[i].timestamp <= snd'
    BY <1>2 DEF MixInv, InOrder
  <2>2. ~ jumped /\ snd' = snd + c
    <3>1. ~ jumped /\ ~ (snd + c >= Modulus)
      BY <1>2, <2>1, Zenon
    <3>2. snd + c \in Nat
      BY <1>1, QueueTypes
    <3>. QED
      BY <1>1, <1>3, <3>1, <3>2
  <2>. QED
    BY <1>1, <2>2, QueueTypes DEF MixInv, InOrder
<1>. QED
  BY <1>2, <1>4, <1>5 DEF MixInv, LastWanted

\* The game writes a register: the write is queued behind the others.
LEMMA WriteStep ==
  ASSUME MixInv, NEW v \in Values, sound_write(v)
  PROVE  MixInv'
<1>0. MixTypeOK
  BY DEF MixInv
<1>1. CASE Len(queue) < Capacity
  <2>. DEFINE e == [timestamp |-> snd, value |-> v, mixes |-> 0]
              n == Len(queue)
  <2>1. /\ queue' = Append(queue, e) /\ want' = v
        /\ UNCHANGED <<snd, elapsed, pos, reg, mixing, left, jumped, loaded>>
    BY <1>1 DEF sound_write
  <2>2. e \in Entries
    BY <1>0 DEF MixTypeOK, Entries
  <2>3. n \in Nat /\ queue \in Seq(Entries)
    BY <1>0, QueueTypes
  <2>. HIDE DEF e, n
  <2>4. /\ queue' \in Seq(Entries) /\ Len(queue') = n + 1
        /\ \A i \in 1 .. n : queue'[i] = queue[i]
        /\ queue'[n + 1] = e
    BY <2>1, <2>2, <2>3, AppendProperties DEF n
  <2>5. MixTypeOK'
    BY <1>0, <1>1, <2>1, <2>3, <2>4, SoundMixAssumption DEF MixTypeOK, n
  <2>6. InOrder'
    <3>1. SUFFICES ASSUME ~ jumped
                   PROVE  /\ \A i \in 1 .. n + 1 : queue'[i].timestamp <= snd
                          /\ \A i, j \in 1 .. n + 1 :
                               i < j => queue'[i].timestamp <= queue'[j].timestamp
                          /\ \A i \in 1 .. n + 1 : queue'[i].mixes # 0 =>
                               queue'[i].mixes = 1 /\ queue'[i].timestamp < elapsed
      BY <2>1, <2>4 DEF InOrder
    <3>2. e.timestamp = snd /\ e.mixes = 0 /\ snd \in Nat
      BY <1>0, QueueTypes DEF e
    <3>3. \A i \in 1 .. n + 1 : i \in 1 .. n \/ i = n + 1
      BY <2>3
    <3>4. \A i \in 1 .. n : queue'[i].timestamp <= snd
      BY <2>4, <3>1 DEF MixInv, InOrder, n
    <3>5. \A i \in 1 .. n + 1 : queue'[i].timestamp <= snd
      BY <2>4, <3>2, <3>3, <3>4
    <3>6. ASSUME NEW i \in 1 .. n + 1, NEW j \in 1 .. n + 1, i < j
          PROVE  queue'[i].timestamp <= queue'[j].timestamp
      <4>1. i \in 1 .. n
        BY <2>3, <3>6
      <4>2. CASE j = n + 1
        BY <2>4, <3>2, <3>5, <4>2
      <4>3. CASE j \in 1 .. n
        BY <2>4, <3>1, <3>6, <4>1, <4>3 DEF MixInv, InOrder, n
      <4>. QED
        BY <3>3, <4>2, <4>3
    <3>7. \A i \in 1 .. n + 1 : queue'[i].mixes # 0 =>
            queue'[i].mixes = 1 /\ queue'[i].timestamp < elapsed
      BY <2>4, <3>1, <3>2, <3>3 DEF MixInv, InOrder, n
    <3>. QED
      BY <3>5, <3>6, <3>7
  <2>7. LastWanted'
    <3>1. queue' # <<>> /\ queue'[Len(queue')].value = v
      BY <2>3, <2>4 DEF e
    <3>. QED
      BY <2>1, <3>1 DEF LastWanted
  <2>. QED
    BY <2>1, <2>5, <2>6, <2>7 DEF MixInv
<1>2. CASE ~ (Len(queue) < Capacity)
  BY <1>2 DEF sound_write, MixInv, MixTypeOK, InOrder, LastWanted
<1>. QED
  BY <1>1, <1>2

(* A round applies the writes a mix has passed over, if there are any.     *)
LEMMA RoundStep ==
  ASSUME MixInv, MixRound
  PROVE  MixInv'
<1>. DEFINE k == DueCount
            n == Len(queue)
<1>0. MixTypeOK /\ n \in Nat /\ queue \in Seq(Entries)
  BY QueueTypes DEF MixInv
<1>1. k \in 0 .. n /\ (\A i \in 1 .. k : Due(i)) /\ ~ Due(k + 1)
  BY <1>0, DueFront
<1>2. /\ queue' = SubSeq(queue, k + 1, n)
      /\ reg' = IF k = 0 THEN reg ELSE queue[k].value
      /\ elapsed' = (elapsed + Rate) % Modulus
      /\ UNCHANGED <<snd, mixing, want, jumped, loaded>>
  BY DEF MixRound, history
<1>. HIDE DEF k, n
<1>3. /\ queue' \in Seq(Entries) /\ Len(queue') = n - k
      /\ \A i \in 1 .. n - k : queue'[i] = queue[k + i]
  BY <1>0, <1>1, <1>2, SubSeqProperties DEF n
<1>4. elapsed' \in Times
  <2>1. elapsed + Rate \in Nat /\ Modulus \in Nat \ {0}
    BY <1>0, QueueTypes, SoundMixAssumption
  <2>. QED
    BY <1>2, <2>1, Wrapped DEF Times
<1>5. pos' \in 0 .. PcmLen /\ left' \in 0 .. PcmLen /\ pos' + left' <= PcmLen
  BY <1>0, SoundMixAssumption DEF MixInv, MixTypeOK, MixRound
<1>6. reg' \in Values
  <2>1. k # 0 => k \in 1 .. Len(queue)
    BY <1>0, <1>1 DEF n
  <2>. QED
    BY <1>0, <1>2, <2>1, QueueTypes DEF MixTypeOK
<1>7. MixTypeOK'
  BY <1>0, <1>1, <1>2, <1>3, <1>4, <1>5, <1>6, SoundMixAssumption DEF MixTypeOK, n
<1>8. InOrder'
  <2>1. SUFFICES ASSUME ~ jumped
                 PROVE  /\ \A i \in 1 .. n - k : queue'[i].timestamp <= snd
                        /\ \A i, j \in 1 .. n - k :
                             i < j => queue'[i].timestamp <= queue'[j].timestamp
                        /\ \A i \in 1 .. n - k : queue'[i].mixes = 0
    BY <1>2, <1>3 DEF InOrder
  <2>2. \A i \in 1 .. n - k : k + i \in 1 .. n
    BY <1>0, <1>1
  <2>3. \A i \in 1 .. n - k : queue'[i].timestamp <= snd
    BY <1>3, <2>1, <2>2 DEF MixInv, InOrder, n
  <2>4. ASSUME NEW i \in 1 .. n - k, NEW j \in 1 .. n - k, i < j
        PROVE  queue'[i].timestamp <= queue'[j].timestamp
    <3>1. k + i < k + j
      BY <1>0, <1>1, <2>4
    <3>. QED
      BY <1>3, <2>1, <2>2, <3>1 DEF MixInv, InOrder, n
  <2>5. ASSUME NEW i \in 1 .. n - k PROVE queue'[i].mixes = 0
    <3>1. /\ k + 1 \in 1 .. n /\ k + i \in 1 .. n
          /\ i = 1 \/ k + 1 < k + i
      BY <1>0, <1>1
    <3>2. ~ (queue[k + 1].timestamp < elapsed)
      BY <1>1, <3>1 DEF Due, n
    <3>3. /\ queue[k + 1].timestamp \in Nat /\ queue[k + i].timestamp \in Nat
          /\ elapsed \in Nat
      BY <1>0, <3>1, QueueTypes DEF n
    <3>4. queue[k + 1].timestamp <= queue[k + i].timestamp
      <4>1. CASE i = 1
        BY <3>3, <4>1
      <4>2. CASE k + 1 < k + i
        BY <2>1, <3>1, <4>2 DEF MixInv, InOrder, n
      <4>. QED
        BY <3>1, <4>1, <4>2
    <3>5. ~ (queue[k + i].timestamp < elapsed)
      BY <3>2, <3>3, <3>4
    <3>6. queue[k + i].mixes = 0
      BY <2>1, <3>1, <3>5 DEF MixInv, InOrder, n
    <3>. QED
      BY <1>3, <3>6
  <2>. QED
    BY <2>3, <2>4, <2>5
<1>9. LastWanted'
  <2>1. CASE k = n
    <3>1. queue' = <<>>
      BY <1>0, <1>3, <2>1
    <3>2. n = 0 <=> queue = <<>>
      BY <1>0 DEF n
    <3>. QED
      BY <1>2, <2>1, <3>1, <3>2 DEF MixInv, LastWanted, n
  <2>2. CASE k # n
    <3>1. n - k \in 1 .. n - k /\ k + (n - k) = n /\ n # 0
      BY <1>0, <1>1, <2>2
    <3>2. queue' # <<>> /\ queue # <<>> /\ queue'[Len(queue')] = queue[n]
      BY <1>0, <1>3, <3>1 DEF n
    <3>. QED
      BY <1>2, <3>2 DEF MixInv, LastWanted, n
  <2>. QED
    BY <2>1, <2>2
<1>. QED
  BY <1>5, <1>7, <1>8, <1>9 DEF MixInv

(* A mix ends when the first write is not due: then none of the queue has  *)
(* been passed over before.                                                *)
LEMMA EndStep ==
  ASSUME MixInv, MixEnd
  PROVE  MixInv'
<1>. DEFINE n == Len(queue)
<1>0. MixTypeOK /\ n \in Nat /\ queue \in Seq(Entries)
  BY QueueTypes DEF MixInv
<1>1. /\ left = 0 /\ ~ Due(1) /\ mixing' = "no" /\ elapsed' = snd
      /\ pos' = (IF mixing = "pcm" THEN 0 ELSE pos)
      /\ queue' = Survivors /\ jumped' = (jumped /\ queue # <<>>)
      /\ UNCHANGED <<snd, reg, left, want, loaded>>
  BY DEF MixEnd, MixOver
<1>2. ASSUME NEW i \in 1 .. n
      PROVE  /\ Survivors[i] \in Entries
             /\ Survivors[i].timestamp = queue[i].timestamp
             /\ Survivors[i].value = queue[i].value
             /\ Survivors[i].mixes = IF jumped \/ queue[i].timestamp = snd \/ queue[i].mixes = 2
                                     THEN queue[i].mixes ELSE queue[i].mixes + 1
  <2>1. queue[i] \in Entries /\ queue[i].mixes \in 0 .. 2
    BY <1>0, QueueTypes
  <2>2. Survivors[i] = IF jumped \/ queue[i].timestamp = snd \/ queue[i].mixes = 2
                       THEN queue[i] ELSE [queue[i] EXCEPT !.mixes = @ + 1]
    BY DEF Survivors
  <2>. QED
    BY <2>1, <2>2 DEF Entries
<1>3. Survivors \in Seq(Entries) /\ Len(Survivors) = n
  <2>1. Survivors = [i \in 1 .. n |-> Survivors[i]]
    BY DEF Survivors
  <2>. QED
    BY <1>0, <1>2, <2>1
<1>. HIDE DEF n
<1>4. MixTypeOK'
  <2>1. jumped' \in BOOLEAN
    BY <1>1
  <2>2. pos' \in 0 .. PcmLen
    BY <1>0, <1>1, SoundMixAssumption DEF MixTypeOK
  <2>. QED
    BY <1>0, <1>1, <1>3, <2>1, <2>2 DEF MixTypeOK, n
<1>5. InOrder'
  <2>1. CASE queue = <<>>
    <3>1. n = 0
      BY <2>1 DEF n
    <3>. QED
      BY <1>1, <1>3, <3>1 DEF InOrder
  <2>2. CASE queue # <<>>
    <3>1. SUFFICES ASSUME ~ jumped PROVE InOrder'
      BY <1>1, <2>2 DEF InOrder
    <3>2. ASSUME NEW i \in 1 .. n PROVE queue[i].mixes = 0
      <4>1. 1 \in 1 .. n /\ (i = 1 \/ 1 < i)
        BY <1>0
      <4>2. ~ (queue[1].timestamp < elapsed)
        BY <1>1, <4>1 DEF Due, n
      <4>3. queue[1].timestamp \in Nat /\ queue[i].timestamp \in Nat /\ elapsed \in Nat
        BY <1>0, <4>1, QueueTypes DEF n
      <4>4. queue[1].timestamp <= queue[i].timestamp
        <5>1. CASE i = 1
          BY <4>3, <5>1
        <5>2. CASE 1 < i
          BY <3>1, <4>1, <5>2 DEF MixInv, InOrder, n
        <5>. QED
          BY <4>1, <5>1, <5>2
      <4>5. ~ (queue[i].timestamp < elapsed)
        BY <4>2, <4>3, <4>4
      <4>. QED
        BY <3>1, <4>5 DEF MixInv, InOrder, n
    <3>3. \A i \in 1 .. n : queue'[i].timestamp <= snd
      BY <1>1, <1>2, <3>1 DEF MixInv, InOrder, n
    <3>4. \A i, j \in 1 .. n : i < j => queue'[i].timestamp <= queue'[j].timestamp
      BY <1>1, <1>2, <3>1 DEF MixInv, InOrder, n
    <3>5. \A i \in 1 .. n : queue'[i].mixes # 0 =>
            queue'[i].mixes = 1 /\ queue'[i].timestamp < snd
      <4>1. SUFFICES ASSUME NEW i \in 1 .. n, queue'[i].mixes # 0
                     PROVE  queue'[i].mixes = 1 /\ queue'[i].timestamp < snd
        OBVIOUS
      <4>2. queue[i].timestamp # snd /\ queue'[i].mixes = 1
        BY <1>1, <1>2, <3>2, <4>1
      <4>3. queue[i].timestamp \in Nat /\ snd \in Nat /\ queue[i].timestamp <= snd
        BY <1>0, <3>1, QueueTypes DEF MixInv, InOrder, n
      <4>. QED
        BY <1>1, <1>2, <4>2, <4>3
    <3>. QED
      BY <1>1, <1>3, <3>3, <3>4, <3>5 DEF InOrder
  <2>. QED
    BY <2>1, <2>2
<1>6. LastWanted'
  <2>1. n = 0 <=> queue = <<>>
    BY <1>0 DEF n
  <2>2. n = 0 <=> queue' = <<>>
    BY <1>0, <1>1, <1>3
  <2>3. n # 0 => n \in 1 .. n
    BY <1>0
  <2>. QED
    BY <1>1, <1>2, <1>3, <2>1, <2>2, <2>3 DEF MixInv, LastWanted, n
<1>7. pos' + left' <= PcmLen
  BY <1>0, <1>1, SoundMixAssumption DEF MixInv, MixTypeOK
<1>. QED
  BY <1>4, <1>5, <1>6, <1>7 DEF MixInv

\* Every step of the mixer keeps its invariant.
LEMMA MixSteps == MixInv /\ [MixNext]_mixVars => MixInv'
<1>. SUFFICES ASSUME MixInv, [MixNext]_mixVars PROVE MixInv'
  OBVIOUS
<1>0. MixTypeOK /\ PcmLen \in Nat
  BY SoundMixAssumption DEF MixInv
<1>1. CASE sound_read \/ render_pcm
  <2>1. /\ left' = PcmLen - pos /\ mixing' \in {"no", "read", "pcm"}
        /\ UNCHANGED <<snd, elapsed, queue, pos, reg, want, jumped, loaded>>
    BY <1>1 DEF sound_read, render_pcm, history
  <2>2. left' \in 0 .. PcmLen /\ pos' + left' <= PcmLen
    BY <1>0, <2>1 DEF MixTypeOK
  <2>. QED
    BY <2>1, <2>2 DEF MixInv, MixTypeOK, InOrder, LastWanted
<1>2. ASSUME NEW c \in Times, NEW v \in Values, loadstate(c, v) PROVE MixInv'
  BY <1>2 DEF loadstate, MixInv, MixTypeOK, InOrder, LastWanted
<1>3. CASE sound_reset
  <2>1. <<>> \in Seq(Entries) /\ Len(<<>>) = 0 /\ Initial \in Values /\ 0 <= Capacity
    BY SoundMixAssumption
  <2>2. pos' \in 0 .. PcmLen /\ pos' + left' <= PcmLen
    BY <1>0, <1>3 DEF sound_reset, MixTypeOK
  <2>. QED
    BY <1>3, <2>1, <2>2 DEF sound_reset, MixInv, MixTypeOK, InOrder, LastWanted
<1>4. CASE UNCHANGED mixVars
  BY <1>4 DEF mixVars, state, history, MixInv, MixTypeOK, InOrder, LastWanted
<1>. QED
  BY <1>1, <1>2, <1>3, <1>4, AdvanceStep, WriteStep, RoundStep, EndStep DEF MixNext, Mix

(* With any clock, sample rate, queue and buffer, each write to a sound    *)
(* register is passed over by one mix at most and applied in its turn,     *)
(* unless the clock was put back under it.                                 *)
THEOREM WritesAreTimely == MixSpec => []WritesTakeEffect
<1>1. MixInv => WritesTakeEffect
  <2>1. SUFFICES ASSUME MixInv PROVE WritesTakeEffect
    OBVIOUS
  <2>2. MixTypeOK /\ Settled
    BY <2>1 DEF MixInv, LastWanted, Settled
  <2>3. Punctual
    <3>1. SUFFICES ASSUME ~ jumped, NEW i \in 1 .. Len(queue) PROVE queue[i].mixes <= 1
      BY DEF Punctual
    <3>. QED
      BY <2>1, <3>1 DEF MixInv, InOrder
  <2>. QED
    BY <2>2, <2>3 DEF WritesTakeEffect
<1>. QED
  BY <1>1, MixBegins, MixSteps, PTL DEF MixSpec
-----------------------------------------------------------------------------
(***************************************************************************)
(* A channel runs by its registers.                                        *)
(***************************************************************************)

\* What the constants are for the channel that is followed.
LEMMA ChannelRanges ==
  ASSUME id \in Channels
  PROVE  /\ Steps[id] \in Nat /\ Steps[id] >= 1 /\ Loudest[id] \in Nat
         /\ Lows[id] \in Nat /\ Lows[id] >= 1 /\ Highs[id] \in Nat /\ Highs[id] >= 1
         /\ DirtyUnit[id] \in Nat /\ DirtyUnit[id] >= LengthUnit
         /\ id # 3 => DirtyUnit[id] = LengthUnit
         /\ OffPeriod[id] \in Periods[id] /\ Periods[id] \subseteq Nat
         /\ SampleTime \in Nat /\ SampleTime >= 1 /\ LengthUnit \in Nat /\ LengthUnit >= 1
         /\ VolumeUnit \in Nat /\ SweepUnit \in Nat
<1>1. DirtyUnit[id] \in Nat /\ DirtyUnit[id] >= LengthUnit
  BY SoundChannelAssumption DEF Channels
<1>. QED
  BY <1>1, SoundChannelAssumption DEF Channels

\* Products of natural numbers.
LEMMA Products ==
  ASSUME NEW a \in Nat, NEW b \in Nat
  PROVE  a * b \in Nat
OBVIOUS

\* A frequency is made of its high and its low part.
LEMMA Composed ==
  ASSUME NEW l \in Nat, NEW h \in Nat, NEW x \in 0 .. h - 1, NEW y \in 0 .. l - 1
  PROVE  x * l + y \in 0 .. l * h - 1
<1>1. x * l \in Nat /\ l * h \in Nat
  BY Products
<1>2. (x + 1) * l <= h * l
  OBVIOUS
<1>. QED
  BY <1>1, <1>2

\* ... and taken apart again.
LEMMA TakenApart ==
  ASSUME NEW l \in Nat, NEW h \in Nat, l >= 1, NEW f \in Nat, f < l * h
  PROVE  /\ f % l \in 0 .. l - 1 /\ f \div l \in 0 .. h - 1
         /\ (f \div l) * l + (f % l) = f
<1>1. f % l \in 0 .. l - 1
  OBVIOUS
<1>2. f \div l \in Nat /\ f = (f \div l) * l + (f % l)
  OBVIOUS
<1>3. f \div l < h
  <2>1. SUFFICES ASSUME f \div l >= h PROVE FALSE
    BY <1>2
  <2>2. (f \div l) * l >= h * l
    BY <1>2, <2>1
  <2>. QED
    BY <1>1, <1>2, <2>2
<1>. QED
  BY <1>1, <1>2, <1>3

\* The frequency a channel's registers hold is in the range of eleven bits.
LEMMA FrequencyFits ==
  ASSUME id \in Channels, NEW r \in Registers
  PROVE  Frequency(r) \in Frequencies
<1>1. r.high \in 0 .. Highs[id] - 1 /\ r.low \in 0 .. Lows[id] - 1
  BY DEF Registers
<1>. QED
  BY <1>1, ChannelRanges, Composed DEF Frequency, Frequencies, Highest

\* The sweep computes numbers.
LEMMA SweptIsNumber ==
  ASSUME id \in Channels, nr \in Registers, NEW f \in Nat
  PROVE  Swept(f) \in Nat
<1>1. nr.swShift \in 0 .. 7
  BY SoundChannelAssumption DEF Registers
<1>2. \A k \in {1, 2, 4, 8, 16, 32, 64, 128} : f \div k \in Nat /\ f \div k <= f
  OBVIOUS
<1>3. TwoTo[nr.swShift + 1] \in {1, 2, 4, 8, 16, 32, 64, 128}
  BY <1>1 DEF TwoTo
<1>. QED
  BY <1>2, <1>3 DEF Swept

\* When a sound with a length began, and when it ends.
Timed ==
  /\ ch.len >= Length(nr)
  /\ id # 3 => ch.len = Length(nr)
  /\ sure => nr.lengthOn /\ ch.cnt = sounded * SampleTime
  /\ SwitchedOffIsSilent
  /\ id # 3 /\ sure /\ ch.on => ch.cnt < ch.len

ChannelInv == id \in Channels /\ DerivedFresh /\ Timed

\* The two computations of the length.
LEMMA Lengths ==
  ASSUME id \in Channels, NEW r \in Registers
  PROVE  /\ Length(r) \in Nat /\ Length(r) >= 1
         /\ (Steps[id] - r.length) * DirtyUnit[id] \in Nat
         /\ (Steps[id] - r.length) * DirtyUnit[id] >= Length(r)
         /\ id # 3 => (Steps[id] - r.length) * DirtyUnit[id] = Length(r)
<1>1. Steps[id] - r.length \in Nat /\ Steps[id] - r.length >= 1
  BY ChannelRanges DEF Registers
<1>2. \A n \in Nat, u, v \in Nat : n >= 1 /\ u >= 1 /\ v >= u =>
         n * u \in Nat /\ n * u >= 1 /\ n * v \in Nat /\ n * v >= n * u
  <2>1. ASSUME NEW n \in Nat, NEW u \in Nat, NEW v \in Nat, n >= 1, u >= 1, v >= u
        PROVE  n * u \in Nat /\ n * u >= 1 /\ n * v \in Nat /\ n * v >= n * u
    BY <2>1
  <2>. QED
    BY <2>1
<1>. QED
  BY <1>1, <1>2, ChannelRanges DEF Length

\* A struct sndchan, cleared or not.
AnySndchan ==
  [ on : BOOLEAN, len : Nat, cnt : Nat,
    swlen : Nat, swcnt : Nat, swfreq : Frequencies,
    enlen : Nat, encnt : Nat, envol : Nat, endir : Int, freq : Frequencies ]

\* Every struct sndchan is one, and so is the cleared one.
LEMMA SndchansAreAny ==
  ASSUME id \in Channels
  PROVE  Zero \in AnySndchan /\ Sndchan \subseteq AnySndchan
<1>1. 0 \in Frequencies
  BY ChannelRanges, Composed DEF Frequencies, Highest
<1>2. 0 .. Loudest[id] \subseteq Nat /\ {-1, 1} \subseteq Int
  BY ChannelRanges
<1>3. Zero \in AnySndchan
  BY <1>1 DEF Zero, AnySndchan
<1>4. ASSUME NEW c \in Sndchan PROVE c \in AnySndchan
  BY <1>2 DEF Sndchan, AnySndchan
<1>. QED
  BY <1>3, <1>4

\* sound_dirty makes everything agree with the registers.
LEMMA DirtyIsFresh ==
  ASSUME id \in Channels, NEW r \in Registers, NEW c \in AnySndchan
  PROVE  /\ sound_dirty(c, r) \in Sndchan
         /\ sound_dirty(c, r).on = c.on /\ sound_dirty(c, r).cnt = c.cnt
         /\ sound_dirty(c, r).swlen = r.swPeriod * SweepUnit
         /\ sound_dirty(c, r).enlen = r.period * VolumeUnit
         /\ sound_dirty(c, r).endir = Direction(r)
         /\ sound_dirty(c, r).freq = Frequency(r)
         /\ sound_dirty(c, r).len >= Length(r)
         /\ id # 3 => sound_dirty(c, r).len = Length(r)
<1>. DEFINE d == sound_dirty(c, r)
            l == (Steps[id] - r.length) * DirtyUnit[id]
            s == r.swPeriod * SweepUnit
            e == r.period * VolumeUnit
            x == Direction(r)
            f == Frequency(r)
<1>1. r.swPeriod \in Nat /\ r.period \in Nat /\ r.volume \in 0 .. Loudest[id]
  BY ChannelRanges, SoundChannelAssumption DEF Registers
<1>2. l \in Nat /\ s \in Nat /\ e \in Nat /\ x \in {-1, 1} /\ f \in Frequencies
  BY <1>1, ChannelRanges, Products, Lengths, FrequencyFits DEF Direction
<1>3. /\ c.on \in BOOLEAN /\ c.cnt \in Nat /\ c.swcnt \in Nat /\ c.encnt \in Nat
      /\ c.swfreq \in Frequencies
  BY DEF AnySndchan
<1>4. d = [[[[c EXCEPT !.len = l] EXCEPT !.swlen = s]
              EXCEPT !.envol = r.volume, !.endir = x, !.enlen = e] EXCEPT !.freq = f]
  BY Zenon DEF sound_dirty, WithFrequency, WithEnvelope, WithSweep
<1>. HIDE DEF l, s, e, x, f, d
<1>5. /\ d.on = c.on /\ d.cnt = c.cnt /\ d.len = l /\ d.swlen = s /\ d.enlen = e
      /\ d.endir = x /\ d.freq = f
  BY <1>4 DEF AnySndchan
<1>6. d \in Sndchan
  BY <1>1, <1>2, <1>3, <1>4 DEF AnySndchan, Sndchan
<1>. QED
  BY <1>5, <1>6, Lengths DEF l, s, e, x, f, d

\* sound_off leaves registers.
LEMMA OffIsRegisters ==
  ASSUME id \in Channels, NEW r \in Registers
  PROVE  OffRegisters(r) \in Registers /\ ~ OffRegisters(r).switch
<1>1. /\ 0 \in SweepPeriods /\ 0 \in Shifts /\ Steps[id] - 1 \in 0 .. Steps[id] - 1
      /\ 0 \in 0 .. Loudest[id] /\ Loudest[id] \in 0 .. Loudest[id]
      /\ 0 \in 0 .. Lows[id] - 1 /\ Lows[id] - 1 \in 0 .. Lows[id] - 1
      /\ Highs[id] - 1 \in 0 .. Highs[id] - 1 /\ OffPeriod[id] \in Periods[id]
      /\ TRUE \in BOOLEAN /\ FALSE \in BOOLEAN
  BY ChannelRanges, SoundChannelAssumption
<1>. QED
  BY <1>1 DEF OffRegisters, Registers

\* The registers of a machine that has just been switched on.
LEMMA ClearedIsRegisters ==
  ASSUME id \in Channels
  PROVE  Cleared \in Registers
<1>1. /\ 0 \in SweepPeriods /\ 0 \in Shifts /\ 0 \in 0 .. Steps[id] - 1
      /\ 0 \in 0 .. Loudest[id] /\ 0 \in 0 .. Lows[id] - 1 /\ 0 \in 0 .. Highs[id] - 1
      /\ OffPeriod[id] \in Periods[id]
  BY ChannelRanges, SoundChannelAssumption
<1>. QED
  BY <1>1 DEF Cleared, Registers

\* A channel begins by its registers.
LEMMA ChannelBegins == ChannelInit => ChannelInv
<1>. SUFFICES ASSUME ChannelInit PROVE ChannelInv
  OBVIOUS
<1>1. id \in Channels /\ nr \in Registers /\ ~ nr.switch
  BY ClearedIsRegisters, OffIsRegisters DEF ChannelInit
<1>2. ch = sound_dirty(Zero, nr) /\ sounded = 0 /\ sure = FALSE
  BY DEF ChannelInit
<1>3. ch.on = FALSE
  BY <1>1, <1>2, SndchansAreAny, DirtyIsFresh DEF Zero
<1>4. ch \in Sndchan
  BY <1>1, <1>2, SndchansAreAny, DirtyIsFresh
<1>5. DerivedFresh
  BY <1>1, <1>2, <1>4, SndchansAreAny, DirtyIsFresh DEF DerivedFresh, ChannelTypeOK
<1>6. ch.len >= Length(nr) /\ (id # 3 => ch.len = Length(nr))
  BY <1>1, <1>2, SndchansAreAny, DirtyIsFresh
<1>. QED
  BY <1>1, <1>2, <1>3, <1>5, <1>6 DEF ChannelInv, Timed, SwitchedOffIsSilent

\* What has to be shown of a step: the channel stays the same one.
LEMMA ChannelStep ==
  ASSUME ChannelInv, id' = id,
         nr' \in Registers, ch' \in Sndchan, sounded' \in Nat, sure' \in BOOLEAN,
         ch'.swlen = nr'.swPeriod * SweepUnit, ch'.enlen = nr'.period * VolumeUnit,
         ch'.endir = Direction(nr'), ch'.freq = Frequency(nr'),
         ch'.len >= Length(nr'), id # 3 => ch'.len = Length(nr'),
         sure' => nr'.lengthOn /\ ch'.cnt = sounded' * SampleTime,
         id = 3 /\ ~ nr'.switch => ~ ch'.on,
         id # 3 /\ sure' /\ ch'.on => ch'.cnt < ch'.len
  PROVE  ChannelInv'
<1>1. Registers' = Registers /\ Sndchan' = Sndchan
  BY DEF Registers, Sndchan, Frequencies, Highest
<1>2. ChannelTypeOK'
  BY <1>1 DEF ChannelTypeOK
<1>3. DerivedFresh'
  BY <1>2 DEF DerivedFresh, Direction, Frequency
<1>4. Timed'
  BY DEF Timed, Length, SwitchedOffIsSilent, HasSwitch
<1>. QED
  BY <1>3, <1>4 DEF ChannelInv

\* What holds of the channel before a step.
LEMMA ChannelNow ==
  ASSUME ChannelInv
  PROVE  /\ id \in Channels /\ nr \in Registers /\ ch \in Sndchan
         /\ sounded \in Nat /\ sure \in BOOLEAN
         /\ ch.swlen = nr.swPeriod * SweepUnit /\ ch.enlen = nr.period * VolumeUnit
         /\ ch.endir = Direction(nr) /\ ch.freq = Frequency(nr)
         /\ ch.len >= Length(nr) /\ (id # 3 => ch.len = Length(nr))
         /\ (sure => nr.lengthOn /\ ch.cnt = sounded * SampleTime)
         /\ (id = 3 /\ ~ nr.switch => ~ ch.on)
         /\ (id # 3 /\ sure /\ ch.on => ch.cnt < ch.len)
BY DEF ChannelInv, DerivedFresh, ChannelTypeOK, Timed, SwitchedOffIsSilent, HasSwitch

\* Length and frequency depend on their own registers alone.
LEMMA SameLength ==
  ASSUME NEW r, NEW t, r.length = t.length
  PROVE  Length(r) = Length(t)
BY DEF Length

\* ... and the frequency.
LEMMA SameFrequency ==
  ASSUME NEW r, NEW t, r.high = t.high, r.low = t.low
  PROVE  Frequency(r) = Frequency(t)
BY DEF Frequency

\* The sweep's register.
LEMMA WriteSweepKeeps ==
  ASSUME ChannelInv, id' = id,
         NEW p \in SweepPeriods, NEW d \in BOOLEAN, NEW n \in Shifts, WriteSweep(p, d, n)
  PROVE  ChannelInv'
<1>. DEFINE s == p * SweepUnit
            f == Frequency(nr)
<1>1. nr' = [nr EXCEPT !.swPeriod = p, !.swDown = d, !.swShift = n]
  BY DEF WriteSweep
<1>2. ch' = [[ch EXCEPT !.swlen = s] EXCEPT !.swfreq = f]
  <2>1. nr'.swPeriod = p
    BY <1>1, ChannelNow DEF Registers
  <2>. QED
    BY <2>1 DEF WriteSweep, WithSweep
<1>3. s \in Nat /\ f \in Frequencies
  BY ChannelNow, ChannelRanges, SoundChannelAssumption, Products, FrequencyFits
<1>. HIDE DEF s, f
<1>4. /\ nr' \in Registers /\ nr'.length = nr.length /\ nr'.high = nr.high
      /\ nr'.low = nr.low /\ nr'.up = nr.up /\ nr'.period = nr.period
      /\ nr'.lengthOn = nr.lengthOn /\ nr'.switch = nr.switch /\ nr'.swPeriod = p
  BY <1>1, ChannelNow DEF Registers
<1>5. /\ ch' \in Sndchan /\ ch'.swlen = s /\ ch'.enlen = ch.enlen /\ ch'.endir = ch.endir
      /\ ch'.freq = ch.freq /\ ch'.len = ch.len /\ ch'.cnt = ch.cnt /\ ch'.on = ch.on
  BY <1>2, <1>3, ChannelNow DEF Sndchan
<1>6. Length(nr') = Length(nr) /\ Frequency(nr') = Frequency(nr)
  BY <1>4, SameLength, SameFrequency
<1>7. sounded' = sounded /\ sure' = sure
  BY DEF WriteSweep
<1>8. Direction(nr') = Direction(nr)
  BY <1>4 DEF Direction
<1>9. ch'.swlen = nr'.swPeriod * SweepUnit
  BY <1>4, <1>5 DEF s
<1>. QED
  BY <1>4, <1>5, <1>6, <1>7, <1>8, <1>9, ChannelNow, ChannelStep

\* The length's register: the length starts anew, what was sure is not.
LEMMA WriteLengthKeeps ==
  ASSUME ChannelInv, id' = id, NEW x \in 0 .. Steps[id] - 1, WriteLength(x)
  PROVE  ChannelInv'
<1>. DEFINE l == Length(nr')
<1>1. nr' = [nr EXCEPT !.length = x]
  BY DEF WriteLength
<1>2. ch' = [ch EXCEPT !.len = l]
  BY DEF WriteLength
<1>3. /\ nr' \in Registers /\ nr'.high = nr.high /\ nr'.low = nr.low /\ nr'.up = nr.up
      /\ nr'.period = nr.period /\ nr'.switch = nr.switch /\ nr'.swPeriod = nr.swPeriod
  BY <1>1, ChannelNow DEF Registers
<1>4. l \in Nat
  BY <1>3, ChannelNow, Lengths
<1>. HIDE DEF l
<1>5. /\ ch' \in Sndchan /\ ch'.swlen = ch.swlen /\ ch'.enlen = ch.enlen
      /\ ch'.endir = ch.endir /\ ch'.freq = ch.freq /\ ch'.len = l /\ ch'.on = ch.on
  BY <1>2, <1>4, ChannelNow DEF Sndchan
<1>6. Frequency(nr') = Frequency(nr) /\ Direction(nr') = Direction(nr)
  BY <1>3, SameFrequency DEF Direction
<1>7. sounded' = sounded /\ sure' = FALSE
  BY DEF WriteLength
<1>8. ch'.len >= Length(nr') /\ ch'.len = Length(nr')
  BY <1>4, <1>5 DEF l
<1>. QED
  BY <1>3, <1>5, <1>6, <1>7, <1>8, ChannelNow, ChannelStep

\* Setting the envelope changes nothing else.
LEMMA EnvelopeSet ==
  ASSUME id \in Channels, NEW c \in Sndchan, NEW r \in Registers
  PROVE  LET e == WithEnvelope(c, r)
         IN  /\ e \in Sndchan /\ e.enlen = r.period * VolumeUnit /\ e.endir = Direction(r)
             /\ e.swlen = c.swlen /\ e.freq = c.freq /\ e.len = c.len /\ e.cnt = c.cnt
             /\ e.on = c.on
<1>. DEFINE n == r.period * VolumeUnit
            x == Direction(r)
            e == WithEnvelope(c, r)
<1>1. e = [c EXCEPT !.envol = r.volume, !.endir = x, !.enlen = n]
  BY Zenon DEF WithEnvelope
<1>2. n \in Nat /\ x \in {-1, 1} /\ r.volume \in 0 .. Loudest[id]
  <2>1. r.period \in Nat /\ r.volume \in 0 .. Loudest[id]
    BY ChannelRanges DEF Registers
  <2>. QED
    BY <2>1, ChannelRanges, Products DEF Direction
<1>. HIDE DEF n, x, e
<1>3. /\ e \in Sndchan /\ e.enlen = n /\ e.endir = x
      /\ e.swlen = c.swlen /\ e.freq = c.freq /\ e.len = c.len /\ e.cnt = c.cnt
      /\ e.on = c.on
  BY <1>1, <1>2 DEF Sndchan
<1>. QED
  BY <1>3 DEF n, x, e

\* The envelope's register.
LEMMA WriteEnvelopeKeeps ==
  ASSUME ChannelInv, id' = id,
         NEW v \in 0 .. Loudest[id], NEW u \in BOOLEAN, NEW p \in Periods[id],
         WriteEnvelope(v, u, p)
  PROVE  ChannelInv'
<1>1. nr' = [nr EXCEPT !.volume = v, !.up = u, !.period = p]
  BY DEF WriteEnvelope
<1>2. ch' = WithEnvelope(ch, nr')
  BY DEF WriteEnvelope
<1>3. /\ nr' \in Registers /\ nr'.length = nr.length /\ nr'.high = nr.high
      /\ nr'.low = nr.low /\ nr'.lengthOn = nr.lengthOn /\ nr'.switch = nr.switch
      /\ nr'.swPeriod = nr.swPeriod
  BY <1>1, ChannelNow DEF Registers
<1>4. /\ ch' \in Sndchan /\ ch'.enlen = nr'.period * VolumeUnit /\ ch'.endir = Direction(nr')
      /\ ch'.swlen = ch.swlen /\ ch'.freq = ch.freq /\ ch'.len = ch.len
      /\ ch'.cnt = ch.cnt /\ ch'.on = ch.on
  BY <1>2, <1>3, ChannelNow, EnvelopeSet
<1>5. Length(nr') = Length(nr) /\ Frequency(nr') = Frequency(nr)
  BY <1>3, SameLength, SameFrequency
<1>6. sounded' = sounded /\ sure' = sure
  BY DEF WriteEnvelope
<1>. QED
  BY <1>3, <1>4, <1>5, <1>6, ChannelNow, ChannelStep

\* Setting the frequency changes nothing else.
LEMMA FrequencySet ==
  ASSUME id \in Channels, NEW c \in Sndchan, NEW r \in Registers
  PROVE  LET e == WithFrequency(c, r)
         IN  /\ e \in Sndchan /\ e.freq = Frequency(r)
             /\ e.enlen = c.enlen /\ e.endir = c.endir /\ e.swlen = c.swlen
             /\ e.len = c.len /\ e.cnt = c.cnt /\ e.on = c.on
<1>. DEFINE f == Frequency(r)
            e == WithFrequency(c, r)
<1>1. e = [c EXCEPT !.freq = f] /\ f \in Frequencies
  BY FrequencyFits DEF WithFrequency
<1>. HIDE DEF f, e
<1>2. /\ e \in Sndchan /\ e.freq = f /\ e.enlen = c.enlen /\ e.endir = c.endir
      /\ e.swlen = c.swlen /\ e.len = c.len /\ e.cnt = c.cnt /\ e.on = c.on
  BY <1>1 DEF Sndchan
<1>. QED
  BY <1>2 DEF f, e

\* The register of the frequency's low part.
LEMMA WriteLowKeeps ==
  ASSUME ChannelInv, id' = id, NEW x \in 0 .. Lows[id] - 1, WriteLow(x)
  PROVE  ChannelInv'
<1>1. nr' = [nr EXCEPT !.low = x]
  BY DEF WriteLow
<1>2. ch' = WithFrequency(ch, nr')
  BY DEF WriteLow
<1>3. /\ nr' \in Registers /\ nr'.length = nr.length /\ nr'.up = nr.up
      /\ nr'.period = nr.period /\ nr'.lengthOn = nr.lengthOn /\ nr'.switch = nr.switch
      /\ nr'.swPeriod = nr.swPeriod
  BY <1>1, ChannelNow DEF Registers
<1>4. /\ ch' \in Sndchan /\ ch'.freq = Frequency(nr') /\ ch'.enlen = ch.enlen
      /\ ch'.endir = ch.endir /\ ch'.swlen = ch.swlen /\ ch'.len = ch.len
      /\ ch'.cnt = ch.cnt /\ ch'.on = ch.on
  BY <1>2, <1>3, ChannelNow, FrequencySet
<1>5. Length(nr') = Length(nr) /\ Direction(nr') = Direction(nr)
  BY <1>3, SameLength DEF Direction
<1>6. sounded' = sounded /\ sure' = sure
  BY DEF WriteLow
<1>. QED
  BY <1>3, <1>4, <1>5, <1>6, ChannelNow, ChannelStep

\* A start leaves the channel at the beginning of its sound.
LEMMA StartedSet ==
  ASSUME id \in Channels, NEW c \in Sndchan, NEW r \in Registers
  PROVE  LET e == Started(c, r)
         IN  /\ e \in Sndchan /\ e.enlen = r.period * VolumeUnit /\ e.endir = Direction(r)
             /\ e.swlen = c.swlen /\ e.freq = c.freq /\ e.len = c.len /\ e.cnt = 0
             /\ e.on = (id = 3 => r.switch)
<1>. DEFINE b == WithEnvelope(c, r)
            e == Started(c, r)
            o == id = 3 => r.switch
            w == IF HasSweep THEN Frequency(r) ELSE b.swfreq
<1>1. e = [b EXCEPT !.on = o, !.cnt = 0, !.encnt = 0, !.swcnt = 0, !.swfreq = w]
  BY Zenon DEF Started, HasSwitch
<1>2. /\ b \in Sndchan /\ b.enlen = r.period * VolumeUnit /\ b.endir = Direction(r)
      /\ b.swlen = c.swlen /\ b.freq = c.freq /\ b.len = c.len
  BY EnvelopeSet
<1>3. w \in Frequencies
  BY <1>2, FrequencyFits DEF Sndchan
<1>4. o \in BOOLEAN
  BY DEF Registers
<1>. HIDE DEF b, e, o, w
<1>5. /\ e \in Sndchan /\ e.enlen = b.enlen /\ e.endir = b.endir /\ e.swlen = b.swlen
      /\ e.freq = b.freq /\ e.len = b.len /\ e.cnt = 0 /\ e.on = o
  BY <1>1, <1>2, <1>3, <1>4 DEF Sndchan
<1>. QED
  BY <1>2, <1>5 DEF e, o

\* The register that starts a sound.
LEMMA WriteHighKeeps ==
  ASSUME ChannelInv, id' = id,
         NEW x \in 0 .. Highs[id] - 1, NEW on \in BOOLEAN, NEW go \in BOOLEAN,
         WriteHigh(x, on, go)
  PROVE  ChannelInv'
<1>. DEFINE c == WithFrequency(ch, nr')
<1>1. nr' = [nr EXCEPT !.high = x, !.lengthOn = on]
  BY DEF WriteHigh
<1>2. /\ nr' \in Registers /\ nr'.length = nr.length /\ nr'.up = nr.up
      /\ nr'.period = nr.period /\ nr'.lengthOn = on /\ nr'.switch = nr.switch
      /\ nr'.swPeriod = nr.swPeriod
  BY <1>1, ChannelNow DEF Registers
<1>3. /\ c \in Sndchan /\ c.freq = Frequency(nr') /\ c.enlen = ch.enlen
      /\ c.endir = ch.endir /\ c.swlen = ch.swlen /\ c.len = ch.len
      /\ c.cnt = ch.cnt /\ c.on = ch.on
  BY <1>2, ChannelNow, FrequencySet
<1>4. Length(nr') = Length(nr) /\ Direction(nr') = Direction(nr)
  BY <1>2, SameLength DEF Direction
<1>5. CASE go
  <2>1. ch' = Started(c, nr') /\ sounded' = 0 /\ sure' = on
    BY <1>5 DEF WriteHigh
  <2>. HIDE DEF c
  <2>2. /\ ch' \in Sndchan /\ ch'.enlen = nr'.period * VolumeUnit
        /\ ch'.endir = Direction(nr') /\ ch'.swlen = c.swlen /\ ch'.freq = c.freq
        /\ ch'.len = c.len /\ ch'.cnt = 0 /\ ch'.on = (id = 3 => nr'.switch)
    BY <1>2, <1>3, <2>1, ChannelNow, StartedSet
  <2>3. Length(nr) >= 1 /\ Length(nr) \in Nat
    BY ChannelNow, Lengths
  <2>4. sounded' * SampleTime = 0
    BY <2>1, ChannelNow, ChannelRanges
  <2>5. id # 3 /\ sure' /\ ch'.on => ch'.cnt < ch'.len
    BY <1>3, <2>2, <2>3, ChannelNow
  <2>6. id = 3 /\ ~ nr'.switch => ~ ch'.on
    BY <2>2
  <2>. QED
    BY <1>2, <1>3, <1>4, <2>1, <2>2, <2>4, <2>5, <2>6, ChannelNow, ChannelStep
<1>6. CASE ~ go
  <2>1. ch' = c /\ sounded' = sounded /\ sure' = (sure /\ on)
    BY <1>6 DEF WriteHigh
  <2>. HIDE DEF c
  <2>2. sure' \in BOOLEAN /\ (sure' => sure /\ on)
    BY <2>1
  <2>. QED
    BY <1>2, <1>3, <1>4, <2>1, <2>2, ChannelNow, ChannelStep
<1>. QED
  BY <1>5, <1>6

\* The third channel's switch.
LEMMA WriteSwitchKeeps ==
  ASSUME ChannelInv, id' = id, NEW s \in BOOLEAN, WriteSwitch(s)
  PROVE  ChannelInv'
<1>1. nr' = [nr EXCEPT !.switch = s] /\ sounded' = sounded /\ sure' = sure
  BY DEF WriteSwitch
<1>2. ch' = IF s THEN ch ELSE [ch EXCEPT !.on = FALSE]
  BY DEF WriteSwitch
<1>3. /\ nr' \in Registers /\ nr'.length = nr.length /\ nr'.high = nr.high
      /\ nr'.low = nr.low /\ nr'.up = nr.up /\ nr'.period = nr.period
      /\ nr'.lengthOn = nr.lengthOn /\ nr'.switch = s /\ nr'.swPeriod = nr.swPeriod
  BY <1>1, ChannelNow DEF Registers
<1>4. /\ ch' \in Sndchan /\ ch'.swlen = ch.swlen /\ ch'.enlen = ch.enlen
      /\ ch'.endir = ch.endir /\ ch'.freq = ch.freq /\ ch'.len = ch.len /\ ch'.cnt = ch.cnt
  BY <1>2, ChannelNow DEF Sndchan
<1>5. ~ s => ~ ch'.on
  BY <1>2, ChannelNow DEF Sndchan
<1>6. /\ Length(nr') = Length(nr) /\ Frequency(nr') = Frequency(nr)
      /\ Direction(nr') = Direction(nr)
  BY <1>3, SameLength, SameFrequency DEF Direction
<1>7. id # 3 /\ sure' /\ ch'.on => ch'.cnt < ch'.len
  BY DEF WriteSwitch, HasSwitch
<1>. QED
  BY <1>1, <1>3, <1>4, <1>5, <1>6, <1>7, ChannelNow, ChannelStep

\* The sound is switched off.
LEMMA SoundOffKeeps ==
  ASSUME ChannelInv, id' = id, SoundOff
  PROVE  ChannelInv'
<1>1. nr' = OffRegisters(nr) /\ ch' = sound_dirty(Zero, nr') /\ sounded' = sounded
  BY DEF SoundOff
<1>2. sure' = FALSE
  BY DEF SoundOff
<1>3. nr' \in Registers
  BY <1>1, ChannelNow, OffIsRegisters
<1>4. /\ ch' \in Sndchan /\ ch'.on = FALSE /\ ch'.swlen = nr'.swPeriod * SweepUnit
      /\ ch'.enlen = nr'.period * VolumeUnit /\ ch'.endir = Direction(nr')
      /\ ch'.freq = Frequency(nr') /\ ch'.len >= Length(nr')
      /\ (id # 3 => ch'.len = Length(nr'))
  BY <1>1, <1>3, ChannelNow, SndchansAreAny, DirtyIsFresh DEF Zero
<1>. QED
  BY <1>1, <1>2, <1>3, <1>4, ChannelNow, ChannelStep

\* A state is saved and loaded.
LEMMA RoundTripKeeps ==
  ASSUME ChannelInv, id' = id, StateRoundTrip
  PROVE  ChannelInv'
<1>1. ch' = sound_dirty(ch, nr) /\ nr' = nr /\ sounded' = sounded /\ sure' = sure
  BY DEF StateRoundTrip
<1>2. /\ ch' \in Sndchan /\ ch'.on = ch.on /\ ch'.cnt = ch.cnt
      /\ ch'.swlen = nr.swPeriod * SweepUnit
      /\ ch'.enlen = nr.period * VolumeUnit /\ ch'.endir = Direction(nr)
      /\ ch'.freq = Frequency(nr) /\ ch'.len >= Length(nr)
      /\ (id # 3 => ch'.len = Length(nr))
  BY <1>1, ChannelNow, SndchansAreAny, DirtyIsFresh
<1>. QED
  BY <1>1, <1>2, ChannelNow, ChannelStep

\* The first part of a sample: the length.
LEMMA ShortenSet ==
  ASSUME ChannelInv, ch.on
  PROVE  LET e == Shorten(ch)
         IN  /\ e \in Sndchan /\ e.enlen = ch.enlen /\ e.endir = ch.endir
             /\ e.swlen = ch.swlen /\ e.swcnt = ch.swcnt /\ e.swfreq = ch.swfreq
             /\ e.freq = ch.freq /\ e.len = ch.len
             /\ (nr.lengthOn => /\ e.cnt = ch.cnt + SampleTime
                                /\ e.on = (ch.cnt + SampleTime < ch.len))
             /\ (~ nr.lengthOn => e = ch)
<1>. DEFINE e == Shorten(ch)
            n == ch.cnt + SampleTime
            o == ch.cnt + SampleTime < ch.len
<1>1. nr.lengthOn => e = [ch EXCEPT !.cnt = n, !.on = o]
  BY DEF Shorten
<1>2. ~ nr.lengthOn => e = ch
  BY DEF Shorten
<1>3. n \in Nat /\ o \in BOOLEAN
  BY ChannelNow, ChannelRanges DEF Sndchan
<1>. HIDE DEF e, n, o
<1>4. CASE nr.lengthOn
  <2>1. /\ e \in Sndchan /\ e.enlen = ch.enlen /\ e.endir = ch.endir
        /\ e.swlen = ch.swlen /\ e.swcnt = ch.swcnt /\ e.swfreq = ch.swfreq
        /\ e.freq = ch.freq /\ e.len = ch.len /\ e.cnt = n /\ e.on = o
    BY <1>1, <1>3, <1>4, ChannelNow DEF Sndchan
  <2>. QED
    BY <1>4, <2>1 DEF e, n, o
<1>5. CASE ~ nr.lengthOn
  BY <1>2, <1>5, ChannelNow DEF e
<1>. QED
  BY <1>4, <1>5

\* The second part: the envelope.
LEMMA EnvelopeStep ==
  ASSUME ChannelInv, NEW c \in Sndchan, c.endir \in {-1, 1}
  PROVE  LET e == Envelope(c)
         IN  /\ e \in Sndchan /\ e.enlen = c.enlen /\ e.endir = c.endir
             /\ e.swlen = c.swlen /\ e.swcnt = c.swcnt /\ e.swfreq = c.swfreq
             /\ e.freq = c.freq /\ e.len = c.len /\ e.cnt = c.cnt /\ e.on = c.on
<1>. DEFINE e == Envelope(c)
            m == c.encnt + SampleTime
            n == c.encnt + SampleTime - c.enlen
            v == Clamp(c.envol + c.endir)
<1>1. \/ e = c
      \/ e = [c EXCEPT !.encnt = m]
      \/ m >= c.enlen /\ e = [c EXCEPT !.encnt = n, !.envol = v]
  BY ChannelNow, ChannelRanges DEF Envelope, Sndchan
<1>2. m \in Nat /\ (m >= c.enlen => n \in Nat)
  BY ChannelNow, ChannelRanges DEF Sndchan
<1>3. v \in 0 .. Loudest[id]
  <2>1. c.envol + c.endir \in Int /\ Loudest[id] \in Nat
    BY ChannelNow, ChannelRanges DEF Sndchan
  <2>. QED
    BY <2>1 DEF Clamp
<1>. HIDE DEF e, m, n, v
<1>4. /\ e \in Sndchan /\ e.enlen = c.enlen /\ e.endir = c.endir
      /\ e.swlen = c.swlen /\ e.swcnt = c.swcnt /\ e.swfreq = c.swfreq
      /\ e.freq = c.freq /\ e.len = c.len /\ e.cnt = c.cnt /\ e.on = c.on
  BY <1>1, <1>2, <1>3 DEF Sndchan
<1>. QED
  BY <1>4 DEF e

\* The third part: the sweep moves the frequency, or stops the channel because
\* the frequency would be too high.
LEMMA SweepSet ==
  ASSUME ChannelInv, NEW c \in Sndchan,
         c.swlen = ch.swlen, c.swcnt = ch.swcnt, c.swfreq = ch.swfreq
  PROVE  LET e == Sweep(c)
         IN  /\ e \in Sndchan /\ e.enlen = c.enlen /\ e.endir = c.endir
             /\ e.swlen = c.swlen /\ e.len = c.len /\ e.cnt = c.cnt
             /\ (e.on => c.on)
             /\ (e.on = c.on \/ (SweepDue(ch) /\ Swept(ch.swfreq) > Highest))
             /\ e.freq = IF SweepDue(ch) /\ Swept(ch.swfreq) <= Highest
                         THEN Swept(ch.swfreq) ELSE c.freq
<1>. DEFINE e == Sweep(c)
            f == Swept(ch.swfreq)
            m == c.swcnt + SampleTime
            n == c.swcnt + SampleTime - c.swlen
            d == [c EXCEPT !.swcnt = n]
            k == IF HasSweep /\ c.swlen # 0 THEN m ELSE c.swcnt
<1>1. SweepDue(c) = SweepDue(ch) /\ Swept(c.swfreq) = f
  BY Zenon DEF SweepDue
<1>2. ~ SweepDue(ch) => e = [c EXCEPT !.swcnt = k]
  BY <1>1 DEF Sweep
<1>3. SweepDue(ch) => e = IF f > Highest THEN [d EXCEPT !.on = FALSE]
                          ELSE [d EXCEPT !.swfreq = f, !.freq = f]
  BY <1>1 DEF Sweep
<1>4. m \in Nat /\ k \in Nat /\ (SweepDue(ch) => n \in Nat)
  BY ChannelNow, ChannelRanges DEF Sndchan, SweepDue
<1>5. f \in Nat /\ Highest \in Nat /\ (f <= Highest => f \in Frequencies)
  <2>1. ch.swfreq \in Nat /\ Lows[id] * Highs[id] >= 1 /\ Lows[id] * Highs[id] \in Nat
    <3>1. \A a, b \in Nat : a >= 1 /\ b >= 1 => a * b >= 1 /\ a * b \in Nat
      <4>1. ASSUME NEW a \in Nat, NEW b \in Nat, a >= 1, b >= 1
            PROVE  a * b >= 1 /\ a * b \in Nat
        BY <4>1
      <4>. QED
        BY <4>1
    <3>2. Lows[id] * Highs[id] >= 1 /\ Lows[id] * Highs[id] \in Nat
      BY <3>1, ChannelNow, ChannelRanges
    <3>3. ch.swfreq \in Frequencies
      BY ChannelNow DEF Sndchan
    <3>. QED
      BY <3>2, <3>3 DEF Frequencies, Highest
  <2>2. f \in Nat
    BY <2>1, ChannelNow, SweptIsNumber
  <2>. HIDE DEF f
  <2>. QED
    BY <2>1, <2>2 DEF Frequencies, Highest
<1>. HIDE DEF e, f, m, n, k
<1>6. CASE ~ SweepDue(ch)
  <2>1. /\ e \in Sndchan /\ e.enlen = c.enlen /\ e.endir = c.endir
        /\ e.swlen = c.swlen /\ e.len = c.len /\ e.cnt = c.cnt /\ e.on = c.on
        /\ e.freq = c.freq
    BY <1>2, <1>4, <1>6 DEF Sndchan
  <2>. QED
    BY <1>6, <2>1 DEF e
<1>7. CASE SweepDue(ch) /\ f > Highest
  <2>1. e = [d EXCEPT !.on = FALSE]
    BY <1>3, <1>7
  <2>2. /\ e \in Sndchan /\ e.enlen = c.enlen /\ e.endir = c.endir
        /\ e.swlen = c.swlen /\ e.len = c.len /\ e.cnt = c.cnt /\ ~ e.on
        /\ e.freq = c.freq
    BY <1>4, <1>7, <2>1 DEF Sndchan
  <2>. QED
    BY <1>5, <1>7, <2>2 DEF e, f
<1>8. CASE SweepDue(ch) /\ f <= Highest
  <2>1. e = [d EXCEPT !.swfreq = f, !.freq = f]
    BY <1>3, <1>5, <1>8
  <2>2. /\ e \in Sndchan /\ e.enlen = c.enlen /\ e.endir = c.endir
        /\ e.swlen = c.swlen /\ e.len = c.len /\ e.cnt = c.cnt /\ e.on = c.on
        /\ e.freq = f
    BY <1>4, <1>5, <1>8, <2>1 DEF Sndchan
  <2>. QED
    BY <1>8, <2>2 DEF e, f
<1>. QED
  BY <1>5, <1>6, <1>7, <1>8

\* What the sweep writes into the registers is the frequency it moved to.
LEMMA SweptFits ==
  ASSUME ChannelInv
  PROVE  LET r == SweptRegisters(ch)
         IN  /\ r \in Registers /\ r.length = nr.length /\ r.up = nr.up
             /\ r.period = nr.period /\ r.lengthOn = nr.lengthOn /\ r.switch = nr.switch
             /\ r.swPeriod = nr.swPeriod
             /\ Frequency(r) = IF SweepDue(ch) /\ Swept(ch.swfreq) <= Highest
                               THEN Swept(ch.swfreq) ELSE Frequency(nr)
<1>. DEFINE r == SweptRegisters(ch)
            f == Swept(ch.swfreq)
<1>1. CASE SweepDue(ch) /\ f <= Highest
  <2>. DEFINE a == f % Lows[id]
              b == f \div Lows[id]
  <2>1. f \in Nat
    <3>1. ch.swfreq \in Nat
      BY ChannelNow, ChannelRanges DEF Sndchan, Frequencies, Highest
    <3>. QED
      BY <3>1, ChannelNow, SweptIsNumber
  <2>2. a \in 0 .. Lows[id] - 1 /\ b \in 0 .. Highs[id] - 1 /\ b * Lows[id] + a = f
    <3>1. Lows[id] * Highs[id] \in Nat /\ f < Lows[id] * Highs[id]
      BY <1>1, <2>1, ChannelNow, ChannelRanges, Products DEF Highest
    <3>. HIDE DEF f
    <3>. QED
      BY <2>1, <3>1, ChannelNow, ChannelRanges, TakenApart
  <2>3. r = [nr EXCEPT !.low = a, !.high = b]
    BY <1>1 DEF SweptRegisters
  <2>. HIDE DEF a, b, f, r
  <2>4. /\ r \in Registers /\ r.length = nr.length /\ r.up = nr.up
        /\ r.period = nr.period /\ r.lengthOn = nr.lengthOn /\ r.switch = nr.switch
        /\ r.swPeriod = nr.swPeriod /\ r.low = a /\ r.high = b
    BY <2>2, <2>3, ChannelNow DEF Registers
  <2>5. Frequency(r) = f
    BY <2>2, <2>4 DEF Frequency
  <2>. QED
    BY <1>1, <2>4, <2>5 DEF f, r
<1>2. CASE ~ (SweepDue(ch) /\ f <= Highest)
  <2>1. r = nr
    BY <1>2 DEF SweptRegisters
  <2>. QED
    BY <1>2, <2>1, ChannelNow
<1>. QED
  BY <1>1, <1>2

\* A sample, and what it says about the end of a sound.
LEMMA MixSampleKeeps ==
  ASSUME ChannelInv, id' = id, MixSample
  PROVE  ChannelInv' /\ PlaysItsLength
<1>. DEFINE a == Shorten(ch)
            b == Envelope(a)
            r == SweptRegisters(ch)
<1>1. ch.on /\ ch' = Sweep(b) /\ nr' = r
  BY DEF MixSample
<1>2. sure' = sure /\ sounded' = IF sure THEN sounded + 1 ELSE sounded
  BY DEF MixSample
<1>3. /\ a \in Sndchan /\ a.enlen = ch.enlen /\ a.endir = ch.endir
      /\ a.swlen = ch.swlen /\ a.swcnt = ch.swcnt /\ a.swfreq = ch.swfreq
      /\ a.freq = ch.freq /\ a.len = ch.len
      /\ (nr.lengthOn => /\ a.cnt = ch.cnt + SampleTime
                         /\ a.on = (ch.cnt + SampleTime < ch.len))
      /\ (~ nr.lengthOn => a = ch)
  BY <1>1, ShortenSet
<1>. HIDE DEF a
<1>4. /\ b \in Sndchan /\ b.enlen = a.enlen /\ b.endir = a.endir
      /\ b.swlen = a.swlen /\ b.swcnt = a.swcnt /\ b.swfreq = a.swfreq
      /\ b.freq = a.freq /\ b.len = a.len /\ b.cnt = a.cnt /\ b.on = a.on
  <2>1. a.endir \in {-1, 1}
    BY <1>3 DEF Sndchan
  <2>. QED
    BY <1>3, <2>1, EnvelopeStep
<1>. HIDE DEF b
<1>5. /\ ch' \in Sndchan /\ ch'.enlen = b.enlen /\ ch'.endir = b.endir
      /\ ch'.swlen = b.swlen /\ ch'.len = b.len /\ ch'.cnt = b.cnt
      /\ (ch'.on => b.on)
      /\ (ch'.on = b.on \/ (SweepDue(ch) /\ Swept(ch.swfreq) > Highest))
      /\ ch'.freq = IF SweepDue(ch) /\ Swept(ch.swfreq) <= Highest
                    THEN Swept(ch.swfreq) ELSE b.freq
  BY <1>1, <1>3, <1>4, SweepSet
<1>6. /\ r \in Registers /\ r.length = nr.length /\ r.up = nr.up
      /\ r.period = nr.period /\ r.lengthOn = nr.lengthOn /\ r.switch = nr.switch
      /\ r.swPeriod = nr.swPeriod
      /\ Frequency(r) = IF SweepDue(ch) /\ Swept(ch.swfreq) <= Highest
                        THEN Swept(ch.swfreq) ELSE Frequency(nr)
  BY SweptFits
<1>. HIDE DEF r
<1>7. Length(nr') = Length(nr) /\ Direction(nr') = Direction(nr)
  BY <1>1, <1>6, SameLength DEF Direction
<1>8. sounded' \in Nat /\ (sure => sounded' * SampleTime = sounded * SampleTime + SampleTime)
  <2>1. sounded \in Nat /\ SampleTime \in Nat
    BY ChannelNow, ChannelRanges
  <2>2. (sounded + 1) * SampleTime = sounded * SampleTime + SampleTime
    BY <2>1
  <2>. QED
    BY <1>2, <2>1, <2>2
<1>9. sure' => nr'.lengthOn /\ ch'.cnt = sounded' * SampleTime
  BY <1>1, <1>2, <1>3, <1>4, <1>5, <1>6, <1>8, ChannelNow
<1>10. ch'.on => ch.on
  BY <1>1
<1>11. id # 3 /\ sure' /\ ch'.on => ch'.cnt < ch'.len
  <2>1. SUFFICES ASSUME id # 3, sure', ch'.on PROVE ch'.cnt < ch'.len
    OBVIOUS
  <2>2. nr.lengthOn
    BY <1>2, <2>1, ChannelNow
  <2>. QED
    BY <1>3, <1>4, <1>5, <2>1, <2>2
<1>12. ChannelInv'
  <2>1. id = 3 /\ ~ nr'.switch => ~ ch'.on
    BY <1>1, <1>6, <1>10, ChannelNow
  <2>2. ch'.freq = Frequency(nr')
    BY <1>1, <1>3, <1>4, <1>5, <1>6, ChannelNow
  <2>3. ch'.len = ch.len /\ ch'.swlen = ch.swlen /\ ch'.enlen = ch.enlen /\ ch'.endir = ch.endir
    BY <1>3, <1>4, <1>5
  <2>. QED
    BY <1>1, <1>2, <1>5, <1>6, <1>7, <1>8, <1>9, <1>11, <2>1, <2>2, <2>3, ChannelNow,
       ChannelStep
<1>13. PlaysItsLength
  <2>1. SUFFICES ASSUME sure, ~ ch'.on, ~ (SweepDue(ch) /\ Swept(ch.swfreq) > Highest)
                 PROVE  (sounded + 1) * SampleTime >= Length(nr)
    BY Zenon DEF PlaysItsLength
  <2>2. ~ b.on /\ ~ a.on
    BY <1>4, <1>5, <2>1
  <2>3. nr.lengthOn /\ ch.cnt = sounded * SampleTime
    BY <2>1, ChannelNow
  <2>4. ~ (ch.cnt + SampleTime < ch.len)
    BY <1>3, <2>2, <2>3
  <2>5. (sounded + 1) * SampleTime = ch.cnt + SampleTime
    <3>1. sounded' * SampleTime = sounded * SampleTime + SampleTime /\ sounded' = sounded + 1
      BY <1>2, <1>8, <2>1
    <3>. QED
      BY <2>3, <3>1
  <2>6. ch.cnt \in Nat /\ SampleTime \in Nat /\ ch.len \in Nat /\ Length(nr) \in Nat
    BY ChannelNow, ChannelRanges, Lengths DEF Sndchan
  <2>. QED
    BY <2>4, <2>5, <2>6, ChannelNow
<1>. QED
  BY <1>12, <1>13

\* Every step of a channel keeps the invariant, and ends a sound only in time.
LEMMA ChannelSteps ==
  ChannelInv /\ [ChannelNext]_channelVars => ChannelInv' /\ [PlaysItsLength]_channelVars
<1>. SUFFICES ASSUME ChannelInv, [ChannelNext]_channelVars
              PROVE  ChannelInv' /\ (MixSample => PlaysItsLength)
  BY DEF PlaysItsLength
<1>1. CASE ChannelNext
  <2>1. id' = id
    BY <1>1 DEF ChannelNext
  <2>2. CASE MixSample
    BY <2>1, <2>2, MixSampleKeeps
  <2>3. MixSample => PlaysItsLength
    BY <2>1, MixSampleKeeps
  <2>4. ASSUME NEW p \in SweepPeriods, NEW d \in BOOLEAN, NEW n \in Shifts, WriteSweep(p, d, n)
        PROVE  ChannelInv'
    BY <2>1, <2>4, WriteSweepKeeps
  <2>5. ASSUME NEW x \in 0 .. Steps[id] - 1, WriteLength(x) PROVE ChannelInv'
    BY <2>1, <2>5, WriteLengthKeeps
  <2>6. ASSUME NEW v \in 0 .. Loudest[id], NEW u \in BOOLEAN, NEW p \in Periods[id],
               WriteEnvelope(v, u, p)
        PROVE  ChannelInv'
    BY <2>1, <2>6, WriteEnvelopeKeeps
  <2>7. ASSUME NEW x \in 0 .. Lows[id] - 1, WriteLow(x) PROVE ChannelInv'
    BY <2>1, <2>7, WriteLowKeeps
  <2>8. ASSUME NEW x \in 0 .. Highs[id] - 1, NEW l \in BOOLEAN, NEW s \in BOOLEAN,
               WriteHigh(x, l, s)
        PROVE  ChannelInv'
    BY <2>1, <2>8, WriteHighKeeps
  <2>9. ASSUME NEW s \in BOOLEAN, WriteSwitch(s) PROVE ChannelInv'
    BY <2>1, <2>9, WriteSwitchKeeps
  <2>10. CASE SoundOff
    BY <2>1, <2>10, <2>3, SoundOffKeeps
  <2>11. CASE StateRoundTrip
    BY <2>1, <2>11, <2>3, RoundTripKeeps
  <2>12. ChannelInv'
    BY <1>1, <2>2, <2>4, <2>5, <2>6, <2>7, <2>8, <2>9, <2>10, <2>11 DEF ChannelNext
  <2>. QED
    BY <2>3, <2>12
<1>2. CASE UNCHANGED channelVars
  <2>1. /\ id' = id /\ nr' = nr /\ ch' = ch /\ sounded' = sounded /\ sure' = sure
    BY <1>2 DEF channelVars
  <2>2. ChannelInv'
    BY <2>1, ChannelNow, ChannelStep
  <2>3. MixSample => PlaysItsLength
    BY <2>1, MixSampleKeeps
  <2>. QED
    BY <2>2, <2>3
<1>. QED
  BY <1>1, <1>2

\* What is left of the invariant when its parts are named.
LEMMA ChannelSound ==
  ChannelInv => DerivedFresh /\ SwitchedOffIsSilent /\ StopsOnTime
<1>. SUFFICES ASSUME ChannelInv PROVE DerivedFresh /\ SwitchedOffIsSilent /\ StopsOnTime
  OBVIOUS
<1>1. StopsOnTime
  BY ChannelNow DEF StopsOnTime
<1>. QED
  BY <1>1 DEF ChannelInv, Timed

\* Whatever wrote a channel's registers last, the channel runs by them, within
\* its ranges: the sweep that writes the frequency back and sound_dirty after a
\* load or a reset leave nothing behind that a write would have derived otherwise.
THEOREM RunsByItsRegisters == ChannelSpec => []DerivedFresh
BY ChannelBegins, ChannelSteps, ChannelSound, PTL DEF ChannelSpec

\* A sound stops when its length is over, not later and not earlier, unless the
\* game or the sweep stops it, and the third channel is silent when switched off.
THEOREM SoundsForItsLength == ChannelSpec => SoundsAsSet
<1>1. ChannelSpec => [](SwitchedOffIsSilent /\ StopsOnTime)
  BY ChannelBegins, ChannelSteps, ChannelSound, PTL DEF ChannelSpec
<1>2. ChannelSpec => [][PlaysItsLength]_channelVars
  BY ChannelBegins, ChannelSteps, PTL DEF ChannelSpec
<1>. QED
  BY <1>1, <1>2 DEF SoundsAsSet
-----------------------------------------------------------------------------
(***************************************************************************)
(* The two processors start the sound that was asked for.                  *)
(***************************************************************************)

\* Where the two processors are while they wait for each other.
Handshaking ==
  /\ sh \in {"idle", "load"} => arm = "stopped"
  /\ sh = "load" => ~ init_done
  /\ sh \in {"parameters", "waitInit"} =>
       /\ arm \in {"clearStart", "clearInit", "clearPlay", "announce"}
       /\ arm # "announce" => ~ init_done
       /\ arm # "clearStart" => ~ start
       /\ arm = "announce" => ~ play_start
  /\ sh = "go" => arm = "announce" /\ ~ start /\ ~ play_start
  /\ sh = "waitPlay" =>
       /\ arm \in {"announce", "setup", "confirm", "publish"}
       /\ play_start => arm = "publish"
       /\ arm \in {"confirm", "publish"} => playing = asked
  /\ sh \in {"waitInit", "go", "waitPlay"} => rate = asked

HandshakeInv == Handshaking /\ StartsAsAsked

\* The handshake's invariant holds at the beginning ...
LEMMA HandshakeBegins == OutputInit => HandshakeInv
BY DEF OutputInit, HandshakeInv, Handshaking, StartsAsAsked

\* ... after every step of the SH4 ...
LEMMA SH4Steps == HandshakeInv /\ SH4 => HandshakeInv'
<1>. SUFFICES ASSUME HandshakeInv, SH4 PROVE HandshakeInv'
  OBVIOUS
<1>. USE DEF HandshakeInv, Handshaking, StartsAsAsked, handshake, stream
<1>1. ASSUME NEW r \in Rates, PcmInit(r) PROVE HandshakeInv'
  BY <1>1 DEF PcmInit
<1>2. CASE LoadFirmware
  BY <1>2 DEF LoadFirmware
<1>3. CASE WriteParameters
  BY <1>3 DEF WriteParameters
<1>4. CASE SeeInit
  BY <1>4 DEF SeeInit
<1>5. CASE SetStart
  BY <1>5 DEF SetStart
<1>6. CASE SeePlay
  BY <1>6 DEF SeePlay
<1>7. CASE RenderNothing
  BY <1>7 DEF RenderNothing
<1>8. CASE RenderBegin
  BY <1>8 DEF RenderBegin
<1>9. CASE RenderEnd
  BY <1>9 DEF RenderEnd
<1>10. CASE Pause
  BY <1>10 DEF Pause
<1>11. CASE Resume
  BY <1>11 DEF Resume
<1>12. CASE PcmClose
  BY <1>12 DEF PcmClose
<1>. QED
  BY <1>1, <1>2, <1>3, <1>4, <1>5, <1>6, <1>7, <1>8, <1>9, <1>10, <1>11, <1>12 DEF SH4

\* ... after every step of the ARM ...
LEMMA ARMSteps == HandshakeInv /\ ARM => HandshakeInv'
<1>. SUFFICES ASSUME HandshakeInv, ARM PROVE HandshakeInv'
  OBVIOUS
<1>. USE DEF HandshakeInv, Handshaking, StartsAsAsked, handshake, stream, ArmGoes
<1>1. CASE ArmClearStart
  BY <1>1 DEF ArmClearStart
<1>2. CASE ArmClearInit
  BY <1>2 DEF ArmClearInit
<1>3. CASE ArmClearPlay
  BY <1>3 DEF ArmClearPlay
<1>4. CASE ArmAnnounce
  BY <1>4 DEF ArmAnnounce
<1>5. CASE ArmSeeStart
  BY <1>5 DEF ArmSeeStart
<1>6. CASE ArmPlay
  BY <1>6 DEF ArmPlay
<1>7. CASE ArmConfirm
  BY <1>7 DEF ArmConfirm
<1>8. CASE ArmPublish
  BY <1>8 DEF ArmPublish
<1>. QED
  BY <1>1, <1>2, <1>3, <1>4, <1>5, <1>6, <1>7, <1>8 DEF ARM

\* ... and when the chip plays a sample.
LEMMA HandshakeSteps == HandshakeInv /\ [OutputNext]_outputVars => HandshakeInv'
<1>. SUFFICES ASSUME HandshakeInv, [OutputNext]_outputVars PROVE HandshakeInv'
  OBVIOUS
<1>1. CASE Sample
  BY <1>1 DEF Sample, HandshakeInv, Handshaking, StartsAsAsked, handshake
<1>2. CASE UNCHANGED outputVars
  BY <1>2 DEF outputVars, HandshakeInv, Handshaking, StartsAsAsked, handshake
<1>. QED
  BY <1>1, <1>2, SH4Steps, ARMSteps DEF OutputNext

\* Whenever the SH4 goes on after the handshake the ARM plays at the rate of this
\* call of dc_sound_init, for any rates and however often games are started and
\* left: no word that is left over from an earlier handshake is taken for an
\* answer of this one.
THEOREM SoundStartsAsAsked == OutputSpec => []StartsAsAsked
<1>1. HandshakeInv => StartsAsAsked
  BY DEF HandshakeInv
<1>. QED
  BY <1>1, HandshakeBegins, HandshakeSteps, PTL DEF OutputSpec
-----------------------------------------------------------------------------
(***************************************************************************)
(* The SH4 and the chip stay in step, if the program is fast enough: the   *)
(* time between two updates of the position, between two frames and for a  *)
(* copy are together less than the chip needs for half a buffer.           *)
(***************************************************************************)

FastEnough == PublishTime + FrameTime + CopyTime < Half

\* How far the chip is into the half it plays.
Into == IF at >= Half THEN at - Half ELSE at

\* The bounds on the time, and the positions in the buffer.
LEMMA Bounds ==
  /\ Half \in Nat \ {0} /\ FrameTime \in Nat /\ CopyTime \in Nat /\ PublishTime \in Nat
  /\ 0 \in Positions /\ 0 \in Halves
  /\ \A x : x \in Positions <=> x \in Nat /\ x < 2 * Half
BY SoundOutputAssumption DEF Positions, Halves

\* A remainder that needs at most one subtraction.
LEMMA ModSmall ==
  ASSUME NEW x \in Nat, NEW m \in Nat \ {0}
  PROVE  /\ x < m => x % m = x
         /\ x >= m /\ x < 2 * m => x % m = x - m
OBVIOUS

\* The chip plays the buffer in a loop, and enters a half at its first sample.
LEMMA NextSample ==
  ASSUME at \in Positions
  PROVE  /\ (at + 1) % (2 * Half) = IF at = 2 * Half - 1 THEN 0 ELSE at + 1
         /\ \A x \in Positions : x % Half = 0 <=> x = 0 \/ x = Half
<1>1. at \in Nat /\ at < 2 * Half /\ 2 * Half \in Nat \ {0} /\ Half \in Nat \ {0}
  BY Bounds
<1>2. at = 2 * Half - 1 \/ at + 1 < 2 * Half
  BY <1>1
<1>3. (at + 1) % (2 * Half) = IF at = 2 * Half - 1 THEN 0 ELSE at + 1
  <2>1. CASE at = 2 * Half - 1
    <3>1. at + 1 = 2 * Half /\ at + 1 \in Nat
      BY <1>1, <2>1
    <3>2. at + 1 >= 2 * Half /\ at + 1 < 2 * (2 * Half)
      BY <1>1, <3>1
    <3>3. (at + 1) % (2 * Half) = (at + 1) - 2 * Half
      BY <1>1, <3>1, <3>2, ModSmall
    <3>. QED
      BY <1>1, <2>1, <3>3
  <2>2. CASE at + 1 < 2 * Half
    <3>1. at + 1 \in Nat
      BY <1>1
    <3>2. (at + 1) % (2 * Half) = at + 1
      BY <1>1, <2>2, <3>1, ModSmall
    <3>. QED
      BY <1>1, <2>2, <3>2
  <2>. QED
    BY <1>2, <2>1, <2>2
<1>4. ASSUME NEW x \in Positions PROVE x % Half = 0 <=> x = 0 \/ x = Half
  <2>1. x \in Nat /\ x < 2 * Half
    BY Bounds
  <2>2. CASE x < Half
    BY <1>1, <2>1, <2>2, ModSmall
  <2>3. CASE x >= Half
    <3>1. x % Half = x - Half
      BY <1>1, <2>1, <2>3, ModSmall
    <3>. QED
      BY <1>1, <2>1, <2>3, <3>1
  <2>. QED
    BY <1>1, <2>1, <2>2, <2>3
<1>. QED
  BY <1>3, <1>4

\* A half is what it was, new, played or silent.
LEMMA HalfTypes ==
  ASSUME OutputTypeOK
  PROVE  /\ Silence \in [Halves -> {"silent", "new", "played"}]
         /\ \A h \in Halves, c \in {"new", "played"} :
              [half EXCEPT ![h] = c] \in [Halves -> {"silent", "new", "played"}]
         /\ HalfPlayed \in Halves /\ PublishedHalf \in Halves /\ 1 - last \in Halves
BY DEF OutputTypeOK, Silence, Halves, HalfPlayed, PublishedHalf

\* The types of the output hold at the beginning ...
LEMMA OutputBegins == OutputInit => OutputTypeOK
<1>. SUFFICES ASSUME OutputInit PROVE OutputTypeOK
  OBVIOUS
<1>1. half \in [Halves -> {"silent", "new", "played"}]
  BY DEF OutputInit, Silence
<1>2. start \in BOOLEAN /\ init_done \in BOOLEAN /\ play_start \in BOOLEAN /\ late \in BOOLEAN
  BY Zenon DEF OutputInit
<1>. QED
  BY <1>1, <1>2, Bounds DEF OutputInit, OutputTypeOK

\* ... and after every step.
LEMMA OutputSteps == OutputTypeOK /\ [OutputNext]_outputVars => OutputTypeOK'
<1>. SUFFICES ASSUME OutputTypeOK, [OutputNext]_outputVars PROVE OutputTypeOK'
  OBVIOUS
<1>0. TRUE \in BOOLEAN /\ FALSE \in BOOLEAN
  OBVIOUS
<1>1. ASSUME NEW r \in Rates, PcmInit(r) PROVE OutputTypeOK'
  BY <1>0, <1>1, HalfTypes DEF PcmInit, OutputTypeOK
<1>2. CASE LoadFirmware \/ WriteParameters \/ SeeInit \/ SetStart
  BY <1>0, <1>2 DEF LoadFirmware, WriteParameters, SeeInit, SetStart, OutputTypeOK,
                    handshake, stream
<1>3. CASE SeePlay \/ RenderBegin \/ Resume
  <2>1. late' \in BOOLEAN
    BY <1>0, <1>3, Zenon DEF SeePlay, RenderBegin, Resume, OutputTypeOK
  <2>2. 0 \in 0 .. FrameTime /\ 0 \in 0 .. CopyTime
    BY Bounds
  <2>3. CASE SeePlay
    BY <2>1, <2>3 DEF SeePlay, OutputTypeOK, handshake
  <2>4. CASE RenderBegin
    BY <2>1, <2>2, <2>4 DEF RenderBegin, OutputTypeOK, handshake
  <2>5. CASE Resume
    BY <2>1, <2>2, <2>5 DEF Resume, OutputTypeOK, handshake
  <2>. QED
    BY <1>3, <2>3, <2>4, <2>5
<1>4. CASE RenderNothing
  <2>1. late' \in BOOLEAN
    BY <1>4, Zenon DEF RenderNothing
  <2>2. sinceFrame' \in 0 .. FrameTime
    BY <1>4, Bounds DEF RenderNothing
  <2>. QED
    BY <1>4, <2>1, <2>2 DEF RenderNothing, OutputTypeOK, handshake
<1>5. CASE RenderEnd
  BY <1>5, HalfTypes DEF RenderEnd, OutputTypeOK, handshake
<1>6. CASE Pause \/ PcmClose
  BY <1>0, <1>6, HalfTypes DEF Pause, PcmClose, OutputTypeOK, handshake
<1>7. CASE ArmClearStart \/ ArmClearInit \/ ArmClearPlay \/ ArmAnnounce \/ ArmSeeStart
  BY <1>0, <1>7 DEF ArmClearStart, ArmClearInit, ArmClearPlay, ArmAnnounce, ArmSeeStart,
                    ArmGoes, OutputTypeOK, handshake, stream
<1>8. CASE ArmPlay \/ ArmConfirm \/ ArmPublish
  <2>1. 0 \in 0 .. PublishTime /\ 0 \in Positions
    BY Bounds DEF Positions
  <2>2. CASE ArmPlay
    BY <2>1, <2>2 DEF ArmPlay, ArmGoes, OutputTypeOK, handshake
  <2>3. CASE ArmConfirm
    BY <1>0, <2>3 DEF ArmConfirm, ArmGoes, OutputTypeOK, stream
  <2>4. CASE ArmPublish
    BY <2>1, <2>4 DEF ArmPublish, OutputTypeOK, handshake
  <2>. QED
    BY <1>8, <2>2, <2>3, <2>4
<1>9. CASE Sample
  <2>1. at' \in Positions
    BY <1>9, NextSample, Bounds DEF Sample, OutputTypeOK
  <2>2. half' \in [Halves -> {"silent", "new", "played"}]
    BY <1>9, HalfTypes DEF Sample, OutputTypeOK
  <2>3. /\ sinceFrame' \in 0 .. FrameTime /\ sinceCopy' \in 0 .. CopyTime
        /\ sincePublish' \in 0 .. PublishTime
    BY <1>9, Bounds DEF Sample, OutputTypeOK
  <2>. QED
    BY <1>9, <2>1, <2>2, <2>3 DEF Sample, OutputTypeOK, handshake
<1>10. CASE UNCHANGED outputVars
  BY <1>10 DEF outputVars, handshake, stream, OutputTypeOK
<1>. QED
  BY <1>1, <1>2, <1>3, <1>4, <1>5, <1>6, <1>7, <1>8, <1>9, <1>10 DEF OutputNext, SH4, ARM

\* The published position is the chip's of at most PublishTime samples ago.
Published ==
  /\ arm = "confirm" => sincePublish = 0
  /\ arm = "publish" => \/ at = position + sincePublish
                        \/ at = position + sincePublish - 2 * Half

\* While the SH4 is in time it refills the half the chip has left; while the
\* chip is still in the half that is refilled next, the other one is ready, and
\* the published position says so.
Streaming ==
  /\ sh = "paused" => late
  /\ sh \in {"play", "copy"} /\ ~ late =>
       /\ half[HalfPlayed] # "played"
       /\ HalfPlayed = last => /\ sh = "play" /\ PublishedHalf = last
                               /\ half[1 - last] # "played"
       /\ HalfPlayed # last =>
            /\ sh = "play" => Into <= PublishTime + sinceFrame
            /\ sh = "copy" => /\ Into <= PublishTime + FrameTime + sinceCopy
                              /\ PublishedHalf = HalfPlayed

StepInv == HandshakeInv /\ OutputTypeOK /\ Published /\ Streaming

\* The numbers of a state.
LEMMA Numbers ==
  ASSUME OutputTypeOK
  PROVE  /\ at \in Nat /\ at < 2 * Half /\ position \in Nat /\ position < 2 * Half
         /\ sincePublish \in Nat /\ sincePublish <= PublishTime
         /\ sinceFrame \in Nat /\ sinceFrame <= FrameTime
         /\ sinceCopy \in Nat /\ sinceCopy <= CopyTime
         /\ last \in {0, 1} /\ late \in BOOLEAN
BY Bounds DEF OutputTypeOK, Halves

\* Every step keeps the published position close to the chip's.
LEMMA PublishedStep ==
  ASSUME FastEnough, StepInv, [OutputNext]_outputVars
  PROVE  Published'
<1>0. OutputTypeOK
  BY DEF StepInv
<1>1. CASE ArmPlay
  BY <1>1 DEF ArmPlay, ArmGoes, Published
<1>2. CASE ArmConfirm \/ ArmPublish
  <2>1. position' = at /\ at' = at /\ sincePublish' = 0
    BY <1>2 DEF ArmConfirm, ArmPublish, ArmGoes, StepInv, Published, stream
  <2>2. arm' # "confirm"
    BY <1>2 DEF ArmConfirm, ArmPublish, ArmGoes
  <2>. QED
    BY <1>0, <2>1, <2>2, Numbers DEF Published
<1>3. CASE Sample
  <2>1. /\ arm = "publish" /\ arm' = arm /\ position' = position
        /\ sincePublish' = sincePublish + 1 /\ sincePublish < PublishTime
        /\ at' = IF at = 2 * Half - 1 THEN 0 ELSE at + 1
    BY <1>0, <1>3, NextSample DEF Sample, OutputTypeOK
  <2>2. at = position + sincePublish \/ at = position + sincePublish - 2 * Half
    BY <2>1 DEF StepInv, Published
  <2>3. at' = position' + sincePublish' \/ at' = position' + sincePublish' - 2 * Half
    BY <1>0, <2>1, <2>2, Numbers, Bounds DEF FastEnough
  <2>. QED
    BY <2>1, <2>3 DEF Published
<1>4. CASE arm' \notin {"confirm", "publish"}
  BY <1>4 DEF Published
<1>5. CASE UNCHANGED <<arm, at, position, sincePublish>>
  BY <1>5 DEF StepInv, Published
<1>. QED
  BY <1>1, <1>2, <1>3, <1>4, <1>5
  DEF OutputNext, SH4, ARM, PcmInit, LoadFirmware, WriteParameters, SeeInit, SetStart,
      SeePlay, RenderNothing, RenderBegin, RenderEnd, Pause, Resume, PcmClose,
      ArmClearStart, ArmClearInit, ArmClearPlay, ArmAnnounce, ArmSeeStart, ArmGoes,
      stream, outputVars

\* While the SH4 streams the ARM publishes.
LEMMA ArmPublishes ==
  ASSUME StepInv, sh \in {"play", "copy", "paused"}
  PROVE  arm = "publish"
BY DEF StepInv, HandshakeInv, StartsAsAsked

\* A position that is seen in the half refilled next is of at most PublishTime ago.
LEMMA SeenLate ==
  ASSUME FastEnough, StepInv, arm = "publish", PublishedHalf = last, HalfPlayed # last
  PROVE  Into <= PublishTime
<1>1. at = position + sincePublish \/ at = position + sincePublish - 2 * Half
  BY DEF StepInv, Published
<1>. QED
  BY <1>1, Numbers, Bounds DEF StepInv, FastEnough, Into, HalfPlayed, PublishedHalf

\* The steps of render_pcm keep the stream in step.
LEMMA RenderSteps ==
  ASSUME FastEnough, StepInv, RenderNothing \/ RenderBegin \/ RenderEnd
  PROVE  Streaming'
<1>0. OutputTypeOK
  BY DEF StepInv
<1>1. CASE RenderNothing
  <2>1. /\ sh = "play" /\ sh' = sh /\ arm = "publish" /\ PublishedHalf = last
        /\ sinceFrame' = 0
        /\ UNCHANGED <<position, at, last, half>>
        /\ ~ late' => ~ late \/ \A h \in Halves : half[h] # "played"
    BY <1>1, Zenon DEF RenderNothing
  <2>2. SUFFICES ASSUME ~ late' PROVE Streaming'
    BY <2>1 DEF Streaming
  <2>3. half[HalfPlayed] # "played" /\ (HalfPlayed = last => half[1 - last] # "played")
    BY <1>0, <2>1, <2>2, HalfTypes DEF StepInv, Streaming
  <2>4. HalfPlayed # last => Into <= PublishTime + 0
    BY <1>0, <2>1, SeenLate, Bounds
  <2>5. /\ HalfPlayed' = HalfPlayed /\ PublishedHalf' = PublishedHalf /\ Into' = Into
    BY <2>1 DEF HalfPlayed, PublishedHalf, Into
  <2>. QED
    BY <2>1, <2>3, <2>4, <2>5 DEF Streaming
<1>2. CASE RenderBegin
  <2>1. /\ sh = "play" /\ sh' = "copy" /\ PublishedHalf # last /\ sinceCopy' = 0
        /\ UNCHANGED <<position, at, last, half, late>>
    BY <1>2 DEF RenderBegin
  <2>2. SUFFICES ASSUME ~ late PROVE Streaming'
    BY <2>1 DEF Streaming
  <2>3. half[HalfPlayed] # "played" /\ HalfPlayed # last /\ Into <= PublishTime + sinceFrame
    BY <2>1, <2>2 DEF StepInv, Streaming
  <2>4. PublishedHalf = HalfPlayed
    BY <1>0, <2>1, <2>3, HalfTypes DEF OutputTypeOK, Halves
  <2>5. Into <= PublishTime + FrameTime + 0
    BY <1>0, <2>3, Numbers, Bounds DEF Into
  <2>6. HalfPlayed' = HalfPlayed /\ PublishedHalf' = PublishedHalf /\ Into' = Into
    BY <2>1 DEF HalfPlayed, PublishedHalf, Into
  <2>. QED
    BY <2>1, <2>3, <2>4, <2>5, <2>6 DEF Streaming
<1>3. CASE RenderEnd
  <2>1. /\ sh = "copy" /\ sh' = "play" /\ half' = [half EXCEPT ![last] = "new"]
        /\ last' = 1 - last /\ UNCHANGED <<position, at, late>>
    BY <1>3 DEF RenderEnd
  <2>2. SUFFICES ASSUME ~ late PROVE Streaming'
    BY <2>1 DEF Streaming
  <2>3. half[HalfPlayed] # "played" /\ HalfPlayed # last /\ PublishedHalf = HalfPlayed
    BY <2>1, <2>2 DEF StepInv, Streaming
  <2>4. /\ HalfPlayed = last' /\ 1 - last' = last /\ last \in Halves
    BY <1>0, <2>1, <2>3, HalfTypes DEF OutputTypeOK, Halves
  <2>5. half'[HalfPlayed] = half[HalfPlayed] /\ half'[last] = "new"
    BY <1>0, <2>1, <2>3, <2>4, HalfTypes DEF OutputTypeOK
  <2>6. HalfPlayed' = HalfPlayed /\ PublishedHalf' = PublishedHalf
    BY <2>1 DEF HalfPlayed, PublishedHalf
  <2>. QED
    BY <2>1, <2>3, <2>4, <2>5, <2>6 DEF Streaming
<1>. QED
  BY <1>1, <1>2, <1>3

\* The ARM publishes: it cannot take the position back into the half before.
LEMMA PublishStep ==
  ASSUME FastEnough, StepInv, ArmPublish
  PROVE  Streaming'
<1>0. OutputTypeOK
  BY DEF StepInv
<1>1. arm = "publish" /\ position' = at
      /\ UNCHANGED <<sh, at, last, half, sinceFrame, sinceCopy, late>>
  BY DEF ArmPublish
<1>2. at = position + sincePublish \/ at = position + sincePublish - 2 * Half
  BY <1>1 DEF StepInv, Published
<1>3. ASSUME PublishedHalf = HalfPlayed PROVE PublishedHalf' = HalfPlayed
  BY <1>0, <1>1, <1>2, <1>3, Numbers, Bounds DEF FastEnough, PublishedHalf, HalfPlayed
<1>4. HalfPlayed' = HalfPlayed /\ Into' = Into
  BY <1>1 DEF HalfPlayed, Into
<1>. QED
  BY <1>1, <1>3, <1>4 DEF StepInv, Streaming

\* A played sample keeps the stream in step.
LEMMA SampleStep ==
  ASSUME FastEnough, StepInv, Sample
  PROVE  Streaming'
<1>0. OutputTypeOK
  BY DEF StepInv
<1>1. /\ UNCHANGED <<sh, position, last, late>>
      /\ at' = IF at = 2 * Half - 1 THEN 0 ELSE at + 1
      /\ half' = IF at' % Half = 0 /\ half[HalfPlayed] = "new"
                 THEN [half EXCEPT ![HalfPlayed] = "played"] ELSE half
  BY <1>0, NextSample DEF Sample, OutputTypeOK
<1>2. SUFFICES ASSUME sh \in {"play", "copy"}, ~ late PROVE Streaming'
  BY <1>1 DEF StepInv, Streaming
<1>3. /\ sh = "play" => sinceFrame < FrameTime /\ sinceFrame' = sinceFrame + 1
      /\ sh = "copy" => sinceCopy < CopyTime /\ sinceCopy' = sinceCopy + 1
  BY <1>2 DEF Sample
<1>4. at' \in Positions /\ (at' % Half = 0 <=> at' = 0 \/ at' = Half)
  BY <1>0, <1>1, NextSample, Numbers, Bounds DEF OutputTypeOK
<1>5. PublishedHalf' = PublishedHalf
  BY <1>1 DEF PublishedHalf
<1>6. CASE at' = 0 \/ at' = Half
  <2>1. HalfPlayed' # HalfPlayed /\ Into' = 0 /\ Into = Half - 1 /\ HalfPlayed' \in Halves
    BY <1>0, <1>1, <1>6, Numbers, Bounds DEF HalfPlayed, Into, Halves
  <2>2. HalfPlayed = last
    <3>1. SUFFICES ASSUME HalfPlayed # last PROVE FALSE
      OBVIOUS
    <3>2. Into <= PublishTime + FrameTime + CopyTime
      <4>1. CASE sh = "play"
        <5>1. Into <= PublishTime + sinceFrame
          BY <1>2, <3>1, <4>1 DEF StepInv, Streaming
        <5>. QED
          BY <1>0, <2>1, <5>1, Numbers, Bounds
      <4>2. CASE sh = "copy"
        <5>1. Into <= PublishTime + FrameTime + sinceCopy /\ sinceCopy < CopyTime
          BY <1>2, <1>3, <3>1, <4>2 DEF StepInv, Streaming
        <5>. QED
          BY <1>0, <2>1, <5>1, Numbers, Bounds
      <4>. QED
        BY <1>2, <4>1, <4>2
    <3>3. CASE sh = "play"
      <4>1. Into <= PublishTime + sinceFrame /\ sinceFrame < FrameTime
        BY <1>2, <1>3, <3>1, <3>3 DEF StepInv, Streaming
      <4>. QED
        BY <1>0, <2>1, <4>1, Numbers, Bounds DEF FastEnough
    <3>4. CASE sh = "copy"
      <4>1. Into <= PublishTime + FrameTime + sinceCopy /\ sinceCopy < CopyTime
        BY <1>2, <1>3, <3>1, <3>4 DEF StepInv, Streaming
      <4>. QED
        BY <1>0, <2>1, <4>1, Numbers, Bounds DEF FastEnough
    <3>. QED
      BY <1>2, <3>3, <3>4
  <2>3. sh = "play" /\ half[1 - last] # "played" /\ HalfPlayed' = 1 - last
    BY <1>0, <1>2, <2>1, <2>2, HalfTypes DEF StepInv, Streaming, OutputTypeOK, Halves
  <2>4. half'[1 - last] = half[1 - last]
    <3>1. 1 - last # last /\ last \in Halves /\ 1 - last \in Halves
      BY <1>0, HalfTypes DEF OutputTypeOK, Halves
    <3>. QED
      BY <1>0, <1>1, <2>2, <3>1 DEF OutputTypeOK
  <2>5. HalfPlayed' # last /\ Into' <= PublishTime + sinceFrame'
    BY <1>0, <1>3, <2>1, <2>2, <2>3, Numbers, Bounds
  <2>. QED
    BY <1>1, <2>3, <2>4, <2>5 DEF Streaming
<1>7. CASE ~ (at' = 0 \/ at' = Half)
  <2>1. half' = half
    BY <1>1, <1>4, <1>7
  <2>2. HalfPlayed' = HalfPlayed /\ Into' = Into + 1 /\ Into \in Nat
    BY <1>0, <1>1, <1>7, Numbers, Bounds DEF HalfPlayed, Into
  <2>3. /\ sh = "play" => (Into <= PublishTime + sinceFrame => Into' <= PublishTime + sinceFrame')
        /\ sh = "copy" => (Into <= PublishTime + FrameTime + sinceCopy =>
                             Into' <= PublishTime + FrameTime + sinceCopy')
    BY <1>0, <1>3, <2>2, Numbers, Bounds
  <2>. QED
    BY <1>1, <1>2, <1>5, <2>1, <2>2, <2>3 DEF StepInv, Streaming
<1>. QED
  BY <1>6, <1>7

\* Every step does.
LEMMA StreamingStep ==
  ASSUME FastEnough, StepInv, [OutputNext]_outputVars
  PROVE  Streaming'
<1>1. CASE UNCHANGED outputVars
  BY <1>1 DEF outputVars, stream, StepInv, Streaming, HalfPlayed, PublishedHalf, Into
<1>2. CASE SeePlay \/ Pause \/ Resume
  BY <1>2 DEF SeePlay, Pause, Resume, StepInv, Streaming
<1>3. CASE sh' \notin {"play", "copy", "paused"}
  BY <1>3 DEF Streaming
<1>4. CASE sh' = sh /\ arm # "publish"
  BY <1>3, <1>4, ArmPublishes
<1>. QED
  BY <1>1, <1>2, <1>3, <1>4, RenderSteps, PublishStep, SampleStep
  DEF OutputNext, SH4, ARM, PcmInit, LoadFirmware, WriteParameters, SeeInit, SetStart,
      PcmClose, ArmClearStart, ArmClearInit, ArmClearPlay, ArmAnnounce, ArmSeeStart,
      ArmPlay, ArmConfirm, ArmGoes

\* As long as the program is fast enough, every half is heard once and whole:
\* render_pcm never writes into the half the chip is playing, and the chip never
\* plays a half a second time, for every size of the buffer.
THEOREM SoundStaysInStep ==
  ASSUME FastEnough
  PROVE  OutputSpec => []InStep
<1>1. OutputInit => StepInv
  BY HandshakeBegins, OutputBegins DEF OutputInit, StepInv, Published, Streaming
<1>2. StepInv /\ [OutputNext]_outputVars => StepInv'
  BY HandshakeSteps, OutputSteps, PublishedStep, StreamingStep DEF StepInv
<1>3. StepInv => InStep
  <2>1. SUFFICES ASSUME StepInv PROVE InStep
    OBVIOUS
  <2>2. OutputTypeOK
    BY <2>1 DEF StepInv
  <2>3. NeverTorn
    BY <2>1 DEF StepInv, Streaming, NeverTorn
  <2>4. NeverRepeats
    BY <2>1 DEF StepInv, Streaming, NeverRepeats
  <2>. QED
    BY <2>2, <2>3, <2>4 DEF InStep
<1>. QED
  BY <1>1, <1>2, <1>3, PTL DEF OutputSpec
=============================================================================
