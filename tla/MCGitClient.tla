------------------------------ MODULE MCGitClient ------------------------------
(***************************************************************************)
(* GitClient behind the name Git, so that the proofs about it and those     *)
(* about the other queues can stand in one module.                          *)
(***************************************************************************)
EXTENDS Naturals

CONSTANTS Paths, EmptyCommits, FirstLog, FirstStatus, Limit, Page, GitQueue, MaxSteps

ASSUME GitAssumption ==
    /\ FirstStatus \subseteq {"clean", "changed", "staged"}
    /\ Limit \in Nat \ {0} /\ Page \in Nat \ {0} /\ GitQueue \in Nat \ {0}
    /\ FirstLog \in Nat /\ MaxSteps \in Nat

VARIABLES ed, phase, requests, results, worker, tree, loadLog, repo, steps

Git == INSTANCE GitClient

GitSpec == Git!Spec

\* The commits listed follow each other (GitClient).
CommitsAreConsecutive == Git!CommitsAreConsecutive

\* What is shown as pending is on its way (GitClient).
PendingIsInFlight == Git!PendingIsInFlight

\* At rest the sidebar shows the repository (GitClient).
AtRestAllIsShown == Git!AtRestAllIsShown

\* The sidebar comes to rest when the user does (GitClient).
Settles == Git!Settles
================================================================================
