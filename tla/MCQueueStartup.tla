--------------------------- MODULE MCQueueStartup ---------------------------
(* Small instances of QueueStartup. *)
EXTENDS QueueStartup, TLC

CONSTANTS q1, q2, w1, w2, h1, h2, old

One == <<w1>>
OneHandler == <<h1>>
Two == <<w1, w2>>
TwoHandlers == <<h1, h2>>
OneFile == w1 :> q1 @@ h1 :> q1
OneFileOld == OneFile @@ old :> q1
TwoFiles == w1 :> q1 @@ h1 :> q1 @@ w2 :> q2 @@ h2 :> q2
KillNowhere == {}
=============================================================================
