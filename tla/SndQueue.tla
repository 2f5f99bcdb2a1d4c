------------------------------ MODULE SndQueue ------------------------------
(***************************************************************************)
(* The queue of sound register writes (sound.c, sndqueue_t): a ring of     *)
(* SNDQUEUE_SIZE slots of which one stays free, so that head = tail means  *)
(* empty.  An entry is put at head and taken at tail; slots are never      *)
(* cleared, so a stale entry stays where it was until it is overwritten.   *)
(***************************************************************************)
EXTENDS Integers, Sequences

CONSTANTS Size,     \* SNDQUEUE_SIZE, a power of two
          Writes    \* the register writes that can be queued

ASSUME SizeAssumption == Size \in Nat \ {0, 1}
ASSUME WritesAssumption == Writes # {}

VARIABLES q, head, tail,
          era      \* history: flips when the queue is cleared

queueVars == <<q, head, tail, era>>

Slots == 0 .. Size - 1

\* (x + 1) & (SNDQUEUE_SIZE - 1)
After(x) == IF x = Size - 1 THEN 0 ELSE x + 1

\* A static array: every slot holds the same zero entry.
QueueInit == /\ \E d \in Writes : q = [s \in Slots |-> d]
        /\ head = 0
        /\ tail = 0
        /\ era = FALSE

snd_queue_empty == tail = head

snd_clearqueue == /\ head' = 0 /\ tail' = 0
                  /\ era' = ~era
                  /\ UNCHANGED q

snd_enqueue_Overwrites(d) ==
  /\ q' = [q EXCEPT ![head] = d]
  /\ head' = After(head)
  /\ UNCHANGED <<tail, era>>

\* A full queue drops the newest write, without a word to the caller.
snd_enqueue(d) ==
  IF After(head) = tail
  THEN UNCHANGED queueVars
  ELSE /\ q' = [q EXCEPT ![head] = d]
       /\ head' = After(head)
       /\ UNCHANGED <<tail, era>>

snd_dequeue ==
  /\ ~snd_queue_empty
  /\ tail' = After(tail)
  /\ UNCHANGED <<q, head, era>>

QueueNext == (\E d \in Writes : snd_enqueue(d)) \/ snd_dequeue \/ snd_clearqueue

QueueSpec == QueueInit /\ [][QueueNext]_queueVars
-----------------------------------------------------------------------------
(* How the ring stands for a sequence: the slots from tail up to head.     *)

\* How many writes are queued.
Queued == IF tail <= head THEN head - tail ELSE head - tail + Size

\* The slot of the i-th write from the front.
Slot(i) == IF tail + i - 1 < Size THEN tail + i - 1 ELSE tail + i - 1 - Size

Contents == [i \in 1 .. Queued |-> q[Slot(i)]]

QueueTypeOK == /\ q \in [Slots -> Writes]
          /\ head \in Slots
          /\ tail \in Slots
          /\ era \in BOOLEAN

Fifo == INSTANCE BoundedFifo WITH Items <- Writes, Capacity <- Size - 1,
                                  fifo <- Contents, era <- era

\* The ring is a first-in first-out queue of Size - 1 writes: nothing is lost
\* between head and tail, nothing comes out twice or out of order when the
\* indices wrap, and a full queue drops the new write and no other.
ImplementsFifo == Fifo!Spec
=============================================================================
