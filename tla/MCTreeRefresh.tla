---------------------------- MODULE MCTreeRefresh ----------------------------
(***************************************************************************)
(* TreeRefresh for TLC, with one more bound: a behaviour has a request of   *)
(* the user to git or a write to a file, not both, for they meet only in    *)
(* the thread that serves them.  Neither is under the fairness of the       *)
(* specification, so no behaviour is cut short by the bound.                *)
(***************************************************************************)
EXTENDS TreeRefresh

NoWrite == disk \cap Writes = {}
NoGitRequest == git.left = MaxGit

MCNext ==
  \/ HostHandlers \/ Stop \/ Restart \/ Quit \/ \E c \in Ops : TreeOperation(c)
  \/ SubmitGit /\ NoWrite
  \/ Clock \/ Worker
  \/ \E c \in External : ExternalChange(c)
  \/ \E c \in Writes : ExternalChange(c) /\ NoGitRequest

MCSpec == Init /\ [][MCNext]_vars /\ Fairness
==============================================================================
