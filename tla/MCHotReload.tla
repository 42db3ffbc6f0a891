----------------------------- MODULE MCHotReload -----------------------------
(***************************************************************************)
(* HotReload behind the name Reload, so that it can stand beside another    *)
(* component; the bounds are in the configurations.                         *)
(***************************************************************************)
EXTENDS Integers

CONSTANTS Files, LastVersion, PipeSize

ASSUME ReloadAssumption == LastVersion \in Nat /\ PipeSize \in Nat \ {0}

VARIABLES host, disk, seen, running, requested, rebuild, process, dll, module, valid,
          activeStorage, storage, copies, missed

Reload == INSTANCE HotReload WITH phase <- rebuild, active <- activeStorage

ReloadSpec == Reload!Spec

\* What render_frame is called with is alive (HotReload).
RuntimeIsAlive == Reload!RuntimeIsAlive

\* An edit of a source is shown, on its way, or failed (HotReload).
NoEditIsForgotten == Reload!NoEditIsForgotten

\* A completed reload shows the sources (HotReload).
CompleteIsCurrent == Reload!CompleteIsCurrent

\* An edit is built into the module in the end (HotReload).
EditIsReloaded == Reload!EditIsReloaded
===============================================================================
