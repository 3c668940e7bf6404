--------------------------- MODULE MCAuthenticator ---------------------------
(* One website.  The service registers c1 and c2 for one user of it, so    *)
(* that they replace each other; the administrator registers c3 for        *)
(* another.                                                                *)
EXTENDS Authenticator, TLC

CONSTANTS c1, c2, c3, alice, bob, site

Accounts == [c \in Cred |-> IF c = c3 THEN bob ELSE alice]
OneSite == [c \in Cred |-> site]

(* The two credentials of one user are interchangeable. *)
Symmetry == Permutations({c1, c2})
=============================================================================
