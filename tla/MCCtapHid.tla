------------------------------ MODULE MCCtapHid ------------------------------
(* The instances of CtapHid that TLC checks. *)
EXTENDS CtapHid, TLC

(* Channels and requests are interchangeable. *)
Symmetry == Permutations(Chan) \cup Permutations(Request)

(* What a host sends that never cancels; it still re-synchronises.         *)
QuietNext == Next /\ reader' # "cancel"
QuietSpec == Init /\ [][QuietNext]_vars /\ Fairness
=============================================================================
