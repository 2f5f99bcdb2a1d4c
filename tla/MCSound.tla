------------------------------- MODULE MCSound -------------------------------
(***************************************************************************)
(* The four modules of the sound emulation and output, checked in one run. *)
(* They share no variable: a behaviour chooses one of them and runs it,    *)
(* and the others stay where they begin.                                   *)
(***************************************************************************)
EXTENDS SndQueue, SoundMix, SoundChannel, SoundOutput

VARIABLE part

Parts == {"queue", "mix", "channel", "output"}

\* The beginnings that do not matter to the chosen part are not varied.
MCInit ==
  /\ part \in Parts
  /\ QueueInit /\ MixInit /\ ChannelInit /\ OutputInit
  /\ part # "queue" => \A s \in Slots : q[s] = CHOOSE w \in Writes : TRUE
  /\ part # "channel" => id = 1
  /\ part # "output" => rate = CHOOSE r \in Rates : TRUE

MCNext ==
  /\ UNCHANGED part
  /\ \/ part = "queue" /\ QueueNext /\ UNCHANGED <<mixVars, channelVars, outputVars>>
     \/ part = "mix" /\ MixNext /\ UNCHANGED <<queueVars, channelVars, outputVars>>
     \/ part = "channel" /\ ChannelNext /\ UNCHANGED <<queueVars, mixVars, outputVars>>
     \/ part = "output" /\ OutputNext /\ UNCHANGED <<queueVars, mixVars, channelVars>>

MCSpec == /\ MCInit /\ [][MCNext]_<<part, queueVars, mixVars, channelVars, outputVars>>
          /\ OutputFairness

MCTicks == {1, 3}
\* The sweep on the first channel, an envelope on the second and the fourth, a
\* length that sound_dirty gets wrong on the third.
MCSteps        == <<2, 2, 3, 1>>
MCDirtyUnit    == <<3, 3, 12, 3>>
MCLoudest      == <<0, 3, 0, 2>>
MCLows         == <<3, 2, 2, 2>>
MCHighs        == <<2, 1, 1, 1>>
MCPeriods      == <<{0}, {0, 1, 2}, {0}, {0, 1}>>
MCOffPeriod    == <<0, 0, 0, 0>>
=============================================================================
