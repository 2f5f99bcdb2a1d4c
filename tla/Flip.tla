-------------------------------- MODULE Flip --------------------------------
(***************************************************************************)
(* How a picture reaches the screen: dc_vid_flip (sys/dc/dc_utils.c)       *)
(* copies dc_screen into one of two textures and submits a scene that      *)
(* shows it; KallistiOS (hardware/pvr) renders the scene into the frame    *)
(* that is not viewed and views it one scene later.  A picture is seen     *)
(* only when later flips push it out, so menus flip the same picture       *)
(* several times (dc_vid_flip_fill_renderer).                              *)
(*                                                                         *)
(* The program and the video chip with its interrupt handler interleave.   *)
(* The chip's timing enters in two guards, named RenderIsQuick and         *)
(* ScansAreSoon.                                                           *)
(***************************************************************************)
EXTENDS Integers, FiniteSets

CONSTANTS
  Textures,  \* DC_TEXTURE_ADDRS_SIZE (2)
  Fills,     \* flips of dc_vid_flip_fill_renderer (4)
  Pictures,  \* bound: pictures are numbered modulo this
  MaxLosses  \* bound: interrupts at the end of a rendering that do not come

ASSUME FlipAssumption ==
  /\ {Textures, Fills, Pictures} \subseteq Nat \ {0}
  /\ MaxLosses \in Nat

VARIABLES
  screen,         \* dc_screen: the number of the picture it holds
  texture,        \* the pictures the textures hold
  texture_index,
  call,           \* flips of the call the program is in, or was in last
  togo,           \* flips of it that have not returned
  flipping,       \* in dc_vid_flip: before the copy, the wait or the submission
  registered,     \* the texture of the scene submitted, in a set
  opb_completed,  \* the scene has arrived
  rendering,      \* the scene being rendered: its texture and the pictures seen in it
  render_completed, flip_completed, view_page,
  frame,          \* the pictures seen in the two frame buffers
  losses

programVars == <<screen, texture, texture_index, call, togo, flipping>>
chipVars == <<registered, opb_completed, rendering, render_completed, flip_completed, view_page,
              frame, losses>>
flipVars == <<programVars, chipVars>>

Next1(p) == (p + 1) % Pictures
Noise == Pictures     \* video memory before it is written

\* dc_vid_init: pvr_init clears the frames, dc_vid_empty flips black into every texture.
FlipInit ==
  /\ screen = 0
  /\ texture = [i \in 0 .. Textures - 1 |-> Noise] /\ texture_index = 0
  /\ call = Textures /\ togo = Textures /\ flipping = "copy"
  /\ registered = {} /\ opb_completed = FALSE
  /\ rendering = {} /\ render_completed = TRUE /\ flip_completed = TRUE
  /\ view_page = 0 /\ frame = [i \in 0 .. 1 |-> {0}]
  /\ losses = 0
-----------------------------------------------------------------------------
\* A picture is drawn and shown: in a game by one flip, in a menu by one or by
\* dc_vid_flip_fill_renderer, and dc_vid_empty clears the screen.  RenderIsQuick:
\* drawing one takes longer than rendering a quad.
NewPicture(n) ==
  /\ flipping = "no"
  /\ rendering = {}
  /\ screen' = Next1(screen)
  /\ call' = n /\ togo' = n /\ flipping' = "copy"
  /\ UNCHANGED <<texture, texture_index, chipVars>>

\* A menu flips the same picture again, waiting for the pad.
SamePicture(n) ==
  /\ flipping = "no"
  /\ call' = n /\ togo' = n /\ flipping' = "copy"
  /\ UNCHANGED <<screen, texture, texture_index, chipVars>>

\* The copy; a scene rendered from that texture meanwhile shows parts of both.
Copy ==
  /\ flipping = "copy"
  /\ texture' = [texture EXCEPT ![texture_index] = screen]
  /\ rendering' = {IF r.texture = texture_index THEN [r EXCEPT !.sees = @ \cup {screen}] ELSE r :
                      r \in rendering}
  /\ flipping' = "wait"
  /\ UNCHANGED <<screen, texture_index, call, togo, registered, opb_completed, render_completed,
                 flip_completed, view_page, frame, losses>>

\* pvr_wait_ready; ScansAreSoon: it times out, and draw_screen goes on all the
\* same, only when a rendering's end was lost.
WaitReady ==
  /\ flipping = "wait"
  /\ flip_completed \/ (losses > 0 /\ rendering = {} /\ ~ render_completed)
  /\ flip_completed' = FALSE
  /\ flipping' = "submit"
  /\ UNCHANGED <<screen, texture, texture_index, call, togo, registered, opb_completed, rendering,
                 render_completed, view_page, frame, losses>>

NextTextureSame == texture_index

NextTexture == (texture_index + 1) % Textures

\* pvr_scene_begin to pvr_scene_finish, and the rest of dc_vid_flip.
Submit ==
  /\ flipping = "submit"
  /\ opb_completed' = FALSE /\ flip_completed' = FALSE
  /\ registered' = {texture_index}
  /\ texture_index' = NextTexture
  /\ togo' = togo - 1
  /\ flipping' = IF togo > 1 THEN "copy" ELSE "no"
  /\ UNCHANGED <<screen, texture, call, rendering, render_completed, view_page, frame, losses>>

FlipProgram ==
  \/ \E n \in {1, Textures, Fills} : NewPicture(n)
  \/ \E n \in {1, Fills} : SamePicture(n)
  \/ Copy \/ WaitReady \/ Submit
-----------------------------------------------------------------------------
\* pvr_int_handler, ASIC_EVT_PVR_OPAQUEDONE.
OpaqueDone ==
  /\ registered # {} /\ ~ opb_completed
  /\ opb_completed' = TRUE
  /\ UNCHANGED <<programVars, registered, rendering, render_completed, flip_completed, view_page,
                 frame, losses>>

\* The chip has rendered a scene, into the frame that is not viewed;
\* ASIC_EVT_PVR_RENDERDONE comes, or "never gets called".
RenderEnds ==
  /\ \E r \in rendering : frame' = [frame EXCEPT ![1 - view_page] = r.sees]
  /\ rendering' = {}
  /\ UNCHANGED <<programVars, registered, opb_completed, flip_completed, view_page>>

RenderDone == RenderEnds /\ render_completed' = TRUE /\ UNCHANGED losses

RenderDoneLost ==
  /\ losses < MaxLosses
  /\ RenderEnds /\ losses' = losses + 1 /\ UNCHANGED render_completed

\* ASIC_EVT_PVR_SCANINT1: view the other page, render the registered scene and
\* let the program submit the next one.  It does nothing while a scene is missing
\* or the rendering has not ended.
ScanInt ==
  /\ opb_completed /\ render_completed
  /\ view_page' = 1 - view_page
  /\ render_completed' = FALSE
  /\ rendering' = {[texture |-> i, sees |-> {texture[i]}] : i \in registered}
  /\ registered' = {}
  /\ flip_completed' = TRUE
  /\ opb_completed' = FALSE
  /\ UNCHANGED <<programVars, frame, losses>>

FlipChip == OpaqueDone \/ RenderDone \/ RenderDoneLost \/ ScanInt

FlipNext == FlipProgram \/ FlipChip

\* The program goes on in a call it is in, and the chip's events come, the end of
\* a rendering MaxLosses times not.
FlipFairness ==
  /\ WF_flipVars(Copy \/ WaitReady \/ Submit)
  /\ WF_flipVars(OpaqueDone) /\ WF_flipVars(RenderDone \/ RenderDoneLost) /\ WF_flipVars(ScanInt)

FlipSpec == FlipInit /\ [][FlipNext]_flipVars /\ FlipFairness
-----------------------------------------------------------------------------
FlipTypeOK ==
  /\ screen \in 0 .. Pictures - 1
  /\ texture \in [0 .. Textures - 1 -> 0 .. Pictures] /\ texture_index \in 0 .. Textures - 1
  /\ call \in {1, Textures, Fills} /\ togo \in 0 .. call
  /\ flipping \in {"no", "copy", "wait", "submit"} /\ (flipping = "no" <=> togo = 0)
  /\ registered \subseteq 0 .. Textures - 1 /\ Cardinality(registered) <= 1
  /\ rendering \subseteq [texture : 0 .. Textures - 1, sees : SUBSET (0 .. Pictures)]
  /\ {opb_completed, render_completed, flip_completed} \subseteq BOOLEAN
  /\ view_page \in 0 .. 1 /\ frame \in [0 .. 1 -> SUBSET (0 .. Pictures)]
  /\ losses \in 0 .. MaxLosses

Viewed == frame[view_page]

\* When dc_vid_flip_fill_renderer has returned the player sees its picture, whole;
\* when dc_vid_empty has, no texture holds anything else, so that a game drawn
\* into a part of one has a black border.
CallDelivers ==
  flipping = "no" =>
    /\ call = Fills /\ losses = 0 => Viewed = {screen}
    /\ call \in {Textures, Fills} => \A i \in DOMAIN texture : texture[i] = screen

\* The player sees the pictures in the order they were flipped and none is left
\* out, though the program runs ahead of the screen; a frame may mix a picture
\* with the one after it, as a texture written while it is rendered does.
InOrder ==
  Viewed' # Viewed =>
    \E q \in Viewed' : /\ Viewed' \subseteq {q, Next1(q)}
                       /\ \A p \in Viewed : q \in {p, Next1(p)}

\* Both, however the program's steps and the chip's interrupts interleave.
PicturesDelivered == [][(FlipTypeOK /\ CallDelivers)' /\ InOrder]_flipVars

\* A flip returns, even when the chip's interrupt is lost and nothing moves on
\* the screen any more.
FlipReturns == []<>(flipping = "no")
=============================================================================
