-------------------------- MODULE MCPersistedQueue --------------------------
(* Small instances of PersistedQueue. *)
EXTENDS PersistedQueue, TLC

CONSTANTS q1, q2, w1, w2, h1, h2

\* One worker, its mailhandler, and a second mailhandler left over on the file.
OneFile == w1 :> q1 @@ h1 :> q1 @@ h2 :> q1

\* One worker and its mailhandler.
OnePair == w1 :> q1 @@ h1 :> q1

\* Two workers, each with its own file and mailhandler, one semaphore.
TwoFiles == w1 :> q1 @@ h1 :> q1 @@ w2 :> q2 @@ h2 :> q2

KillNowhere == {}
KillAnywhere == PCs \ {"dead"}
KillOutsideWindow == PCs \ ({"dead"} \cup Window)
=============================================================================
