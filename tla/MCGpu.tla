-------------------------------- MODULE MCGpu ---------------------------------
(***************************************************************************)
(* What the GPU draws from, in one run: the objects that frames in flight   *)
(* still read (D3D12Frames), and the pages of glyphs and masks (Atlas).     *)
(* They share no variable, so each moves while the other is as it was at    *)
(* first.                                                                   *)
(*                                                                         *)
(* Five objects: the window's back buffers, one upload buffer for each      *)
(* slot, and two for the caller.  Three fence values use both slots and one *)
(* of them again.  A page of 8 by 8 texels, rasters that fill a shelf in    *)
(* several ways, two of one size, and one that no page can hold.            *)
(***************************************************************************)
EXTENDS D3D12Frames, Sequences, TLC

CONSTANTS
  Rasters,  \* glyph or shape keys
  SizeOf,   \* their sizes, padding on both sides included
  Width, Height, MaxPages

ASSUME PageAssumption == Width \in Nat \ {0} /\ Height \in Nat \ {0}
\* No raster is empty: ensure returns early for one that is.
ASSUME SizeAssumption == SizeOf \in [Rasters -> [w : Nat \ {0}, h : Nat \ {0}]]

MCRasters == 1..7
MCSizeOf ==
  [k \in MCRasters |-> CASE k = 1 -> [w |-> 3, h |-> 3]
                         [] k = 2 -> [w |-> 4, h |-> 3]
                         [] k = 3 -> [w |-> 3, h |-> 5]
                         [] k = 4 -> [w |-> 5, h |-> 4]
                         [] k = 5 -> [w |-> 3, h |-> 3]
                         [] k = 6 -> [w |-> 8, h |-> 3]
                         [] k = 7 -> [w |-> 9, h |-> 3]]

VARIABLES pages, entry, status

Atlas == INSTANCE ShelfAtlas WITH Keys <- Rasters

atlas == <<pages, entry, status>>

FramesRest == Init /\ UNCHANGED vars
AtlasRests == Atlas!Init /\ UNCHANGED atlas

GpuInit == Init /\ Atlas!Init

GpuNext ==
  \/ \E o \in Objects : Create(o) /\ AtlasRests
  \/ \E o \in Objects : Destroy(o) /\ AtlasRests
  \/ \E o \in Objects : Draw(o) /\ AtlasRests
  \/ \E o \in Objects : AllocateGrows(o) /\ AtlasRests
  \/ \E o \in Objects : CreateWindow(o) /\ AtlasRests
  \/ \E o, u \in Objects : CreateInFrame(o, u) /\ AtlasRests
  \/ \E o, u \in Objects : \E new \in {{}, {o}} : UploadBegin(o, u, new) /\ AtlasRests
  \/ \E o, u \in Objects : \E new \in {{}, {o}} : UploadFails(o, u, new) /\ AtlasRests
  \/ UploadEnd /\ AtlasRests
  \/ BeginFrame /\ AtlasRests
  \/ RenderPass /\ AtlasRests
  \/ AllocateFits /\ AtlasRests
  \/ Present /\ AtlasRests
  \/ PresentCloseFails /\ AtlasRests
  \/ \E n \in Free \cup {None} : ReplaceTarget(n) /\ AtlasRests
  \/ DestroyContext /\ AtlasRests
  \/ GpuCompletes /\ AtlasRests
  \/ \E k \in Rasters : Atlas!EnsureFits(k) /\ FramesRest
  \/ \E k \in Rasters : Atlas!EnsureCreatesPage(k) /\ FramesRest
  \/ Atlas!Clear /\ FramesRest
  \/ Atlas!Destroy /\ FramesRest

GpuSpec == GpuInit /\ [][GpuNext]_<<vars, atlas>>

\* What was written for two keys of one page does not overlap (ShelfAtlas).
NoOverlap == Atlas!NoOverlap

\* Every update_texture of an ensure gets a texture (ShelfAtlas).
PageIsValid == Atlas!PageIsValid

Symmetry == Permutations(Objects)
=============================================================================
