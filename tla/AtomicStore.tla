---------------------------- MODULE AtomicStore ----------------------------
(***************************************************************************)
(* What the credential store of howdy/src/webauthn/store.py promises to    *)
(* the processes that share it: a table of credentials in which every      *)
(* operation happens at one instant on the current contents, or not at     *)
(* all, and in which no sign counter value is handed out twice.            *)
(* CredentialStore implements it with a lock file, a private copy of the   *)
(* table in every process, a temporary file and a rename.                  *)
(***************************************************************************)
EXTENDS StoreTable

VARIABLES creds,      \* the table
          unused,     \* ids that no table has contained yet
          issued      \* issued[c]: the counter values handed out for c
avars == <<creds, unused, issued>>

AInit ==
  /\ creds = EmptyTable
  /\ unused = Cred
  /\ issued = [c \in Cred |-> {}]

AAdd(c) ==
  /\ c \in unused
  /\ creds' = WithAdded(creds, c)
  /\ unused' = unused \ {c}
  /\ UNCHANGED issued

AIncrement(c) ==
  /\ creds[c] # Absent
  /\ creds' = WithIncremented(creds, c)
  /\ UNCHANGED <<unused, issued>>

ARemove(c) ==
  /\ creds[c] # Absent
  /\ creds' = WithRemoved(creds, c)
  /\ UNCHANGED <<unused, issued>>

ADestroy ==
  /\ creds' = EmptyTable
  /\ UNCHANGED <<unused, issued>>

(* The caller gets a value no caller has had, and that the table covers. *)
AIssue(c) ==
  /\ \E v \in 0..creds[c] :
       /\ v \notin issued[c]
       /\ issued' = [issued EXCEPT ![c] = @ \cup {v}]
  /\ UNCHANGED <<creds, unused>>

(* A caller that dies or fails takes the id it had drawn with it. *)
AWaste(c) ==
  /\ c \in unused
  /\ unused' = unused \ {c}
  /\ UNCHANGED <<creds, issued>>

ANext ==
  \/ \E c \in Cred : AAdd(c) \/ AIncrement(c) \/ ARemove(c) \/ AIssue(c) \/ AWaste(c)
  \/ ADestroy

ASpec == AInit /\ [][ANext]_avars
=============================================================================
