----------------------------- MODULE SoundOutput -----------------------------
(***************************************************************************)
(* How samples get from the emulator to the speaker (dc_sound.c, dc_pcm.c  *)
(* on the SH4, sound/main.c on the sound chip's ARM).  The two processors  *)
(* share words of sound memory: a handshake starts the firmware with its   *)
(* parameters, and from then on the ARM publishes the position the chip    *)
(* plays at.  The buffer has two halves; once a frame render_pcm looks     *)
(* whether the chip has moved to the other half and refills the one it     *)
(* left.  A game that is left stops the ARM wherever it is; the shared     *)
(* words keep their values.                                                *)
(*                                                                         *)
(* Time is counted in steps of the chip's position.  The three bounds on   *)
(* it are assumptions about the program's speed, not about its logic.      *)
(***************************************************************************)
EXTENDS Integers

CONSTANTS
  Half,       \* samples in half a buffer
  FrameTime,  \* bound: samples played between two calls of render_pcm
  CopyTime,   \* bound: samples played while half a buffer is copied
  PublishTime, \* bound: samples played between two updates of *position
  Rates       \* what dc_sound_init can be asked for

ASSUME SoundOutputAssumption ==
  /\ Half \in Nat \ {0} /\ FrameTime \in Nat
  /\ CopyTime \in Nat /\ PublishTime \in Nat
  /\ Rates # {}

VARIABLES
  sh,     \* where the SH4 is
  arm,    \* where the ARM is
  start, init_done, play_start,   \* the shared words of the handshake
  rate, position,                 \* ... of the parameters and of the position
  asked,  \* the rate this call of dc_sound_init was given
  playing, \* the rate the chip plays at; 0 while it does not play
  at,     \* the sample the chip plays
  last,   \* last_pos, the half render_pcm refills next
  half,   \* what each half holds: silence, samples not played yet or played
  sinceFrame, sinceCopy, sincePublish,   \* time passed, up to the bounds
  late    \* history: render_pcm was not called for longer than FrameTime, and
          \* has not found itself in step with the chip since:
          \* both halves still to be played

handshake == <<start, init_done, play_start, rate, asked>>
stream == <<at, last, half, sinceFrame, sinceCopy, sincePublish, late>>
outputVars == <<sh, arm, handshake, position, playing, stream>>

Halves == {0, 1}
Positions == 0 .. 2 * Half - 1
NotPlaying == 0
HalfPlayed == IF at >= Half THEN 1 ELSE 0

OutputTypeOK ==
  /\ sh \in {"idle", "load", "parameters", "waitInit", "go", "waitPlay", "play",
             "copy", "paused"}
  /\ arm \in {"stopped", "clearStart", "clearInit", "clearPlay", "announce",
              "setup", "confirm", "publish"}
  /\ start \in BOOLEAN /\ init_done \in BOOLEAN /\ play_start \in BOOLEAN
  /\ rate \in Rates /\ asked \in Rates /\ playing \in Rates \cup {NotPlaying}
  /\ position \in Positions /\ at \in Positions /\ last \in Halves
  /\ half \in [Halves -> {"silent", "new", "played"}]
  /\ sinceFrame \in 0 .. FrameTime /\ sinceCopy \in 0 .. CopyTime
  /\ sincePublish \in 0 .. PublishTime
  /\ late \in BOOLEAN

Silence == [h \in Halves |-> "silent"]

\* spu_init has cleared the sound memory and nothing of gnuboy's runs on the ARM.
OutputInit ==
  /\ sh = "idle" /\ arm = "stopped"
  /\ start = FALSE /\ init_done = FALSE /\ play_start = FALSE
  /\ rate \in Rates /\ asked = rate /\ position = 0
  /\ playing = NotPlaying /\ at = 0 /\ last = 0 /\ half = Silence
  /\ sinceFrame = 0 /\ sinceCopy = 0 /\ sincePublish = 0 /\ late = TRUE
-----------------------------------------------------------------------------
(* The SH4.                                                                *)

\* pcm_init: the buffer is silenced; dc_sound_init first clears init_done.
PcmInit(r) ==
  /\ sh = "idle"
  /\ sh' = "load"
  /\ asked' = r
  /\ init_done' = FALSE
  /\ half' = Silence
  /\ UNCHANGED <<arm, start, play_start, rate, position, playing, at, last,
                 sinceFrame, sinceCopy, sincePublish, late>>

\* The firmware is loaded and the ARM let go; it starts from its first line.
LoadFirmware ==
  /\ sh = "load"
  /\ sh' = "parameters"
  /\ arm' = "clearStart"
  /\ playing' = NotPlaying
  /\ UNCHANGED <<handshake, position, stream>>

WriteParameters ==
  /\ sh = "parameters"
  /\ sh' = "waitInit"
  /\ rate' = asked
  /\ UNCHANGED <<arm, start, init_done, play_start, asked, position, playing, stream>>

SeeInit ==
  /\ sh = "waitInit" /\ init_done
  /\ sh' = "go"
  /\ UNCHANGED <<arm, handshake, position, playing, stream>>

SetStart ==
  /\ sh = "go"
  /\ sh' = "waitPlay"
  /\ start' = TRUE
  /\ UNCHANGED <<arm, init_done, play_start, rate, asked, position, playing, stream>>

\* dc_sound_init returns.  Until the first frame a ROM is loaded, so that the
\* ARM has published a position by then (see Render).
SeePlay ==
  /\ sh = "waitPlay" /\ play_start
  /\ sh' = "play"
  /\ late' = TRUE
  /\ UNCHANGED <<arm, handshake, position, playing, at, last, half, sinceFrame,
                 sinceCopy, sincePublish>>

PublishedHalfLate == IF position > Half + FrameTime + 1 THEN 1 ELSE 0

\* render_pcm: which half does the published position lie in?  The position is
\* at most PublishTime old, and Half itself still counts for the first half.
PublishedHalf == IF position > Half THEN 1 ELSE 0

\* Nothing to do when it is the half render_pcm refills next.
RenderNothing ==
  /\ sh = "play" /\ arm = "publish"
  /\ PublishedHalf = last
  /\ sinceFrame' = 0
  /\ late' = (late /\ \E h \in Halves : half[h] = "played")
  /\ UNCHANGED <<sh, arm, handshake, position, playing, at, last, half, sinceCopy,
                 sincePublish>>

\* The chip plays the other half: the samples are completed and copied.
RenderBegin ==
  /\ sh = "play" /\ arm = "publish"
  /\ PublishedHalf # last
  /\ sh' = "copy"
  /\ sinceFrame' = 0 /\ sinceCopy' = 0
  /\ UNCHANGED <<arm, handshake, position, playing, at, last, half, sincePublish,
                 late>>

\* The copy is complete.
RenderEnd ==
  /\ sh = "copy"
  /\ sh' = "play"
  /\ half' = [half EXCEPT ![last] = "new"]
  /\ last' = 1 - last
  /\ UNCHANGED <<arm, handshake, position, playing, at, sinceFrame, sinceCopy,
                 sincePublish, late>>

\* A menu is opened during the game: both halves are silenced, the chip plays on.
Pause ==
  /\ sh = "play"
  /\ sh' = "paused"
  /\ half' = Silence
  /\ late' = TRUE
  /\ UNCHANGED <<arm, handshake, position, playing, at, last, sinceFrame, sinceCopy,
                 sincePublish>>

Resume ==
  /\ sh = "paused"
  /\ sh' = "play"
  /\ sinceFrame' = 0
  /\ UNCHANGED <<arm, handshake, position, playing, at, last, half, sinceCopy,
                 sincePublish, late>>

\* The game is left: pcm_clear_buffer, pcm_close.  spu_disable stops the ARM
\* and the chip's channels.
PcmClose ==
  /\ sh = "play"
  /\ sh' = "idle"
  /\ arm' = "stopped"
  /\ playing' = NotPlaying
  /\ half' = Silence
  /\ UNCHANGED <<handshake, position, at, last, sinceFrame, sinceCopy, sincePublish,
                 late>>
-----------------------------------------------------------------------------
(* The ARM.                                                                *)

ArmGoes(from, to) == arm = from /\ arm' = to

ArmKeepsStart ==
  /\ ArmGoes("clearStart", "clearInit")
  /\ UNCHANGED <<sh, handshake, position, playing, stream>>

ArmClearStart ==
  /\ ArmGoes("clearStart", "clearInit")
  /\ start' = FALSE
  /\ UNCHANGED <<sh, init_done, play_start, rate, asked, position, playing, stream>>

ArmClearInit ==
  /\ ArmGoes("clearInit", "clearPlay")
  /\ init_done' = FALSE
  /\ UNCHANGED <<sh, start, play_start, rate, asked, position, playing, stream>>

ArmKeepsPlay ==
  /\ ArmGoes("clearPlay", "announce")
  /\ UNCHANGED <<sh, handshake, position, playing, stream>>

ArmClearPlay ==
  /\ ArmGoes("clearPlay", "announce")
  /\ play_start' = FALSE
  /\ UNCHANGED <<sh, start, init_done, rate, asked, position, playing, stream>>

\* while (!*start) { *init_done = 1; ... }
ArmAnnounce ==
  /\ arm = "announce" /\ ~start
  /\ init_done' = TRUE
  /\ UNCHANGED <<sh, arm, start, play_start, rate, asked, position, playing, stream>>

ArmSeeStart ==
  /\ ArmGoes("announce", "setup") /\ start
  /\ UNCHANGED <<sh, handshake, position, playing, stream>>

\* aica_play: the chip plays the buffer in a loop, from its beginning.
ArmPlay ==
  /\ ArmGoes("setup", "confirm")
  /\ playing' = rate
  /\ at' = 0 /\ sincePublish' = 0
  /\ UNCHANGED <<sh, handshake, position, last, half, sinceFrame, sinceCopy, late>>

ArmConfirm ==
  /\ ArmGoes("confirm", "publish")
  /\ play_start' = TRUE
  /\ position' = at
  /\ UNCHANGED <<sh, start, init_done, rate, asked, playing, stream>>

ArmPublish ==
  /\ arm = "publish"
  /\ position' = at
  /\ sincePublish' = 0
  /\ UNCHANGED <<sh, arm, handshake, playing, at, last, half, sinceFrame, sinceCopy,
                 late>>

\* The chip plays a sample.  The SH4 and the ARM keep within their bounds; a
\* half the chip leaves has been played.
Sample ==
  /\ playing # NotPlaying
  /\ arm = "publish"
  /\ sincePublish < PublishTime /\ sincePublish' = sincePublish + 1
  /\ \/ /\ sh = "play" /\ (late \/ sinceFrame < FrameTime)
        /\ sinceFrame' = (IF late THEN sinceFrame ELSE sinceFrame + 1)
        /\ UNCHANGED sinceCopy
     \/ /\ sh = "copy" /\ sinceCopy < CopyTime
        /\ sinceCopy' = sinceCopy + 1
        /\ UNCHANGED sinceFrame
     \/ /\ sh = "paused"
        /\ UNCHANGED <<sinceFrame, sinceCopy>>
  /\ at' = (at + 1) % (2 * Half)
  /\ half' = IF at' % Half = 0 /\ half[HalfPlayed] = "new"
             THEN [half EXCEPT ![HalfPlayed] = "played"] ELSE half
  /\ UNCHANGED <<sh, arm, handshake, position, playing, last, late>>

SH4 == \/ \E r \in Rates : PcmInit(r)
       \/ LoadFirmware \/ WriteParameters \/ SeeInit \/ SetStart \/ SeePlay
       \/ RenderNothing \/ RenderBegin \/ RenderEnd
       \/ Pause \/ Resume \/ PcmClose

ARM == \/ ArmClearStart \/ ArmClearInit \/ ArmClearPlay
       \/ ArmAnnounce \/ ArmSeeStart \/ ArmPlay \/ ArmConfirm \/ ArmPublish

OutputNext == SH4 \/ ARM \/ Sample

\* Both processors run; only leaving a game and opening a menu are up to the
\* player.
OutputFairness ==
  /\ WF_outputVars(ARM)
  /\ WF_outputVars(LoadFirmware) /\ WF_outputVars(WriteParameters) /\ WF_outputVars(SeeInit)
  /\ WF_outputVars(SetStart) /\ WF_outputVars(SeePlay)

OutputSpec == OutputInit /\ [][OutputNext]_outputVars /\ OutputFairness
-----------------------------------------------------------------------------
\* When dc_sound_init returns, the ARM plays what this call asked for, whatever
\* the shared words held before it and wherever the ARM was stopped.
StartsAsAsked ==
  sh \in {"play", "copy", "paused"} => arm = "publish" /\ playing = asked

\* Both processors wait for words the other one sets: the handshake always ends.
HandshakeEnds == sh = "load" ~> sh = "play"

\* render_pcm never writes into the half the chip is playing, as long as it is
\* called in time.
NeverTorn == sh = "copy" /\ ~late => HalfPlayed # last

\* ... and the chip never plays a half a second time.
NeverRepeats == sh \in {"play", "copy"} /\ ~late => half[HalfPlayed] # "played"

\* Both: what is heard is every half once and whole.
InStep == OutputTypeOK /\ NeverTorn /\ NeverRepeats
=============================================================================
