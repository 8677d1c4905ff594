------------------------------- MODULE MCRunner -------------------------------
(* Two providers whose requirements have a package in common, and a later     *)
(* version of the repository that asks for one more.                          *)
EXTENDS Runner

MCProviders == {"aws", "gcp"}
MCPackages == {"boto3", "google-auth", "urllib3", "new"}
MCRequired == [aws |-> {"boto3", "urllib3"}, gcp |-> {"google-auth", "urllib3"}]
===============================================================================
