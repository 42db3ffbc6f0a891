------------------------------ MODULE MCChannels ------------------------------
(***************************************************************************)
(* What goes between threads and processes, in one run: the ring between    *)
(* two threads and the pipe to a language server (MCQueues), and the builds *)
(* and module files of a hot reload (MCHotReload).  They share no variable, *)
(* so each moves while the others are as they were at first.                *)
(***************************************************************************)
EXTENDS MCQueues, MCHotReload

reload == <<host, disk, seen, running, requested, rebuild, process, dll, module, valid,
            activeStorage, storage, copies, missed>>

ReloadRests == Reload!Init /\ ~dll.exists /\ dll.files = disk /\ UNCHANGED reload
QueuesRest == QueuesInit /\ UNCHANGED <<vars, pipe>>

ChannelsInit == QueuesInit /\ Reload!Init

ChannelsNext ==
  \/ ReloadRests /\ QueuesNext
  \/ QueuesRest /\ Reload!Load
  \/ QueuesRest /\ Reload!Update
  \/ QueuesRest /\ Reload!Destroy
  \/ QueuesRest /\ Reload!Close
  \/ QueuesRest /\ Reload!Build
  \/ \E f \in Files : QueuesRest /\ Reload!Edit(f)

\* The fairness of each, while it is the one that moves.
ChannelsSpec ==
  /\ ChannelsInit /\ [][ChannelsNext]_<<vars, pipe, reload>>
  /\ QueuesFairness
  /\ WF_reload(Reload!Load /\ QueuesInit)
  /\ WF_reload(Reload!Update /\ QueuesInit)
  /\ WF_reload(Reload!Close /\ QueuesInit)
  /\ WF_reload(Reload!Build /\ QueuesInit)
================================================================================
