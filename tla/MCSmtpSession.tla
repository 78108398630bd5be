--------------------------- MODULE MCSmtpSession ---------------------------
(* Small instances of SmtpSession. *)
EXTENDS SmtpSession, TLC

CONSTANTS c1, c2

JustGood == c1 :> {"good"}
JustNoBody == c1 :> {"no_body"}
TwoGood == c1 :> {"good"} @@ c2 :> {"good"}
Ordinary == c1 :> {"good", "quits"} @@ c2 :> {"long"}
Everything == c1 :> {"good", "quits", "no_headers", "many"} @@ c2 :> {"long", "big_body", "no_body"}
=============================================================================
