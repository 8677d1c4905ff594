-------------------------- MODULE MCCredentialReport --------------------------
(* Two runs on the same account, each with the two fetches of a gather.       *)
EXTENDS CredentialReport

MCCallers == <<"iam_user (credential report)", "account (root credential report)">>
===============================================================================
