--------------------------- MODULE MCMailHandler ---------------------------
(* Small instances of MailHandler. *)
EXTENDS MailHandler

Everything == <<"report", "unsigned", "no_encoding", "other_encoding", "short_zip",
                "no_key_type", "not_zip", "not_xml", "other_xml">>
AfterFault == <<"no_encoding", "report">>
OnlyOne == <<"report">>
TwoReports == <<"report", "report">>
=============================================================================
