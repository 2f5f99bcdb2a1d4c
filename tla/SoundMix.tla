------------------------------ MODULE SoundMix ------------------------------
(***************************************************************************)
(* When a write to a sound register takes effect (sound.c, dc_pcm.c).      *)
(* sound_write only queues the write with the time it was made, cpu.snd.   *)
(* sound_mix runs through time a sample at a time, from where the last mix *)
(* stopped: it applies the writes whose time has passed and mixes one      *)
(* sample, until the samples it was asked for are made and no queued write *)
(* is due.  It is called when the game reads a sound register and when the *)
(* sound chip has moved to the other half of its buffer.                   *)
(* One register stands for all of them: what a write does to the channels  *)
(* is the subject of SoundChannel.  The queue is the sequence SndQueue     *)
(* implements.                                                             *)
(***************************************************************************)
EXTENDS Integers, Sequences

CONSTANTS Values,     \* what the register can hold
          Initial,    \* what sound_off puts into it
          Capacity,   \* SNDQUEUE_SIZE - 1
          Rate,       \* cycles per sample
          PcmLen,     \* samples in half a buffer, pcm.len
          Ticks,      \* cycles that can pass at once
          Modulus     \* cpu.snd and elapsed_cycles are taken modulo this

ASSUME SoundMixAssumption ==
  /\ Initial \in Values
  /\ Capacity \in Nat \ {0}
  /\ Rate \in Nat \ {0}
  /\ PcmLen \in Nat
  /\ Ticks \subseteq Nat \ {0}
  /\ Modulus \in Nat \ {0}

VARIABLES
  snd,       \* cpu.snd, the emulated time
  elapsed,   \* elapsed_cycles, where the next mix starts
  queue,     \* the writes not applied yet, oldest first
  pos,       \* pcm.pos, the samples in the buffer
  reg,       \* the register as the channels and the game see it
  mixing,    \* who called sound_mix, "no" when nobody has
  left,      \* the samples the running mix still has to make
  \* History.
  want,      \* the last write the queue accepted, or what was restored
  jumped,    \* the clock was put back, or passed its modulus, and writes
             \* from before may still be queued
  loaded     \* a state was loaded

state == <<snd, elapsed, queue, pos, reg, mixing, left>>
history == <<want, jumped, loaded>>
mixVars == <<state, history>>

Times == 0 .. Modulus - 1
Entries == [timestamp : Times, value : Values, mixes : 0 .. 2]

MixTypeOK ==
  /\ snd \in Times /\ elapsed \in Times
  /\ queue \in Seq(Entries) /\ Len(queue) <= Capacity
  /\ pos \in 0 .. PcmLen
  /\ reg \in Values
  /\ mixing \in {"no", "read", "pcm"}
  /\ left \in 0 .. PcmLen
  /\ want \in Values /\ jumped \in BOOLEAN
  /\ loaded \in BOOLEAN

MixInit ==
  /\ snd = 0 /\ elapsed = 0
  /\ queue = <<>> /\ pos = 0 /\ reg = Initial
  /\ mixing = "no" /\ left = 0
  /\ want = Initial /\ jumped = FALSE /\ loaded = FALSE
-----------------------------------------------------------------------------
\* sound_advance: the CPU has run for c cycles.
sound_advance(c) ==
  /\ mixing = "no"
  /\ snd' = (snd + c) % Modulus
  /\ jumped' = (jumped \/ snd + c >= Modulus)
  /\ UNCHANGED <<elapsed, queue, pos, reg, mixing, left, want, loaded>>

\* The game writes a sound register.
sound_write(v) ==
  /\ mixing = "no"
  /\ IF Len(queue) < Capacity
     THEN /\ queue' = Append(queue, [timestamp |-> snd, value |-> v, mixes |-> 0])
          /\ want' = v
     ELSE UNCHANGED <<queue, want>>
  /\ UNCHANGED <<snd, elapsed, pos, reg, mixing, left, jumped, loaded>>

\* The game reads a sound register: what is missing in the buffer is mixed.
sound_read ==
  /\ mixing = "no"
  /\ mixing' = "read"
  /\ left' = PcmLen - pos
  /\ UNCHANGED <<snd, elapsed, queue, pos, reg, history>>

\* The sound chip plays the other half: the buffer is completed and handed over.
render_pcm ==
  /\ mixing = "no"
  /\ mixing' = "pcm"
  /\ left' = PcmLen - pos
  /\ UNCHANGED <<snd, elapsed, queue, pos, reg, history>>

\* A write is due once the mix has passed its time.
Due(i) == i <= Len(queue) /\ queue[i].timestamp < elapsed

\* The writes that are applied before the next sample: those up to the first
\* that is not due.
DueCount == CHOOSE k \in 0 .. Len(queue) :
              (\A i \in 1 .. k : Due(i)) /\ ~Due(k + 1)

MixOver == left = 0 /\ ~Due(1)

\* One round of sound_mix's loop: the due writes, then a sample.
MixRound ==
  /\ mixing # "no" /\ ~MixOver
  /\ queue' = SubSeq(queue, DueCount + 1, Len(queue))
  /\ reg' = IF DueCount = 0 THEN reg ELSE queue[DueCount].value
  /\ IF left > 0 THEN pos' = pos + 1 /\ left' = left - 1
                 ELSE UNCHANGED <<pos, left>>
  /\ elapsed' = (elapsed + Rate) % Modulus
  /\ UNCHANGED <<snd, mixing, history>>

\* History: how many mixes, at a later time than its own, a write has survived.
Survivors ==
  [i \in 1 .. Len(queue) |->
     IF jumped \/ queue[i].timestamp = snd \/ queue[i].mixes = 2 THEN queue[i]
     ELSE [queue[i] EXCEPT !.mixes = @ + 1]]

MixEndKeepsElapsed ==
  /\ mixing # "no" /\ MixOver
  /\ mixing' = "no"
  /\ pos' = IF mixing = "pcm" THEN 0 ELSE pos
  /\ queue' = Survivors
  /\ jumped' = (jumped /\ queue # <<>>)
  /\ UNCHANGED <<snd, elapsed, reg, left, want, loaded>>

\* The mix has caught up; render_pcm then empties the buffer.
MixEnd ==
  /\ mixing # "no" /\ MixOver
  /\ mixing' = "no"
  /\ elapsed' = snd
  /\ pos' = IF mixing = "pcm" THEN 0 ELSE pos
  /\ queue' = Survivors
  /\ jumped' = (jumped /\ queue # <<>>)
  /\ UNCHANGED <<snd, reg, left, want, loaded>>

\* loadstate restores the clock and the register; the queue and elapsed_cycles
\* stay as they are, for savestate does not store them.  The state may have been
\* saved in any earlier play of the game, with any clock and register.
loadstate(c, v) ==
  /\ mixing = "no"
  /\ snd' = c
  /\ reg' = v
  /\ want' = v
  /\ jumped' = TRUE /\ loaded' = TRUE
  /\ UNCHANGED <<elapsed, queue, pos, mixing, left>>

\* A game starts: pcm_init empties the buffer; the queue is cleared and the
\* registers are switched off; the clock runs on.
sound_reset ==
  /\ mixing = "no"
  /\ queue' = <<>>
  /\ reg' = Initial
  /\ want' = Initial
  /\ pos' = 0
  /\ UNCHANGED <<snd, elapsed, mixing, left, jumped, loaded>>

Mix == MixRound \/ MixEnd

MixNext ==
  \/ \E c \in Ticks : sound_advance(c)
  \/ \E v \in Values : sound_write(v)
  \/ sound_read \/ render_pcm \/ Mix
  \/ \E c \in Times, v \in Values : loadstate(c, v)
  \/ sound_reset

MixSpec == MixInit /\ [][MixNext]_mixVars
-----------------------------------------------------------------------------
\* A write waits for two mixes at most: one at a later time than its own may
\* pass it over, the next one applies it.  Only a clock that was put back by a
\* state load, or that passed its modulus, makes a write wait longer.
Punctual == ~jumped => \A i \in 1 .. Len(queue) : queue[i].mixes <= 1

\* Writes are applied in the order they were made and none is forgotten: with
\* nothing queued the register holds the last write the queue accepted.  A loaded
\* state is excepted: it holds the registers but not the queue, so that what was
\* queued when the state was saved is missing, and what was queued before the
\* load is applied after it.
Settled == queue = <<>> /\ ~loaded => reg = want

\* Both: every write takes effect, when it should and in its turn.
WritesTakeEffect == MixTypeOK /\ Punctual /\ Settled
=============================================================================
