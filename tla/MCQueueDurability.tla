------------------------- MODULE MCQueueDurability -------------------------
(* Small instance of QueueDurability: one worker and its mailhandler. *)
EXTENDS QueueDurability, TLC

CONSTANTS q1, w1, h1

OnePair == w1 :> q1 @@ h1 :> q1
KillAnywhere == PCs \ {"dead"}
=============================================================================
