----------------------------- MODULE StoreTable -----------------------------
(***************************************************************************)
(* The contents of a credentials file and what each mutating operation of  *)
(* howdy/src/webauthn/store.py does to them.                               *)
(*                                                                         *)
(* A record is reduced to its sign counter.  Everything else in it is      *)
(* fixed when the record is created, and the 16 random bytes of its id are *)
(* never drawn twice, so the account (rp_id, user_handle) of a record is a *)
(* function of its id.                                                     *)
(***************************************************************************)
EXTENDS Integers

CONSTANTS Cred,       \* credential ids, each drawn at most once
          AccountOf   \* AccountOf[c]: the (rp_id, user_handle) of credential c

ASSUME CredAssumption == Cred # {}

Absent == -1          \* no record with this id; a counter is never negative

Table == [Cred -> Nat \cup {Absent}]
EmptyTable == [c \in Cred |-> Absent]

(* Mutant of WithAdded: the filter on the account is forgotten. *)
WithAddedBeside(t, c) == [t EXCEPT ![c] = 0]

(* A record replaces the one of the same account and starts at zero. *)
WithAdded(t, c) ==
  [d \in Cred |-> IF d = c THEN 0
                  ELSE IF AccountOf[d] = AccountOf[c] THEN Absent ELSE t[d]]

WithIncremented(t, c) == [t EXCEPT ![c] = @ + 1]

WithRemoved(t, c) == [t EXCEPT ![c] = Absent]

OnePerAccount(t) ==
  \A c, d \in Cred :
    c # d /\ AccountOf[c] = AccountOf[d] => t[c] = Absent \/ t[d] = Absent
=============================================================================
