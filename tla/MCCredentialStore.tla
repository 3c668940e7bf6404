-------------------------- MODULE MCCredentialStore --------------------------
(* The service and one command line over two credential ids of one account. *)
EXTENDS CredentialStore

CONSTANTS c1, c2, alice

OneAccount == [c \in Cred |-> alice]
=============================================================================
