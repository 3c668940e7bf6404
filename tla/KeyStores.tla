------------------------------ MODULE KeyStores -----------------------------
(***************************************************************************)
(* The two backends behind class KeyStore: SoftwareKeyStore of             *)
(* webauthn/keystore.py, which wraps every credential key with a master    *)
(* key it keeps in a file and in the memory of each process, and           *)
(* TpmKeyStore of webauthn/keystore_tpm.py, which holds handles of the TPM.*)
(*                                                                         *)
(* A process runs one operation at a time.  A master key is a number;      *)
(* making one takes the next.  A step is one system call on the key file,  *)
(* one TPM command, or the storing of a record by the authenticator.       *)
(***************************************************************************)
EXTENDS Naturals

CONSTANTS Proc,       \* processes that use the key store
          Service,    \* the one that may reset it
          NoFile,     \* there is no key file
          MaxKey,     \* bound: master keys ever made
          MaxEpoch    \* bound: resets

ASSUME KeyStoreAssumption ==
  /\ Service \in Proc
  /\ MaxKey \in Nat /\ MaxEpoch \in Nat
  /\ NoFile \notin [key : Nat, whole : BOOLEAN]

NoKey == 0            \* also the master key of a record of the TPM backend
Backend == {"none", "software", "tpm"}
UsePC == {"idle", "loading", "creating", "writing", "loaded", "holding",
          "primary", "ready", "signing", "flushing", "resetting", "destroying"}

VARIABLES keyFile,    \* master.key: NoFile, or whose key it is and whether it was written
          cached,     \* cached[p]: self._master_key
          backend,    \* backend[p]: what create_keystore made
          use,        \* use[p]: where the operation of p is
          want,       \* want[p]: the operation
          primary,    \* primary[p]: self._primary is there
          handles,    \* handles[p]: objects p has loaded in the TPM
          records,    \* the credential records, as far as their keys go
          making,     \* making[p]: the master key p has generated
          lastKey,    \* the last master key made
          epoch,      \* history: resets so far
          loadedIn    \* history: the epoch p loaded or made its master key in
procVars == <<cached, backend, use, want, primary, handles, making, loadedIn>>
keyVars == <<keyFile, procVars, records, lastKey, epoch>>

Record == [key : Nat, epoch : Nat]
FileOf(k, w) == [key |-> k, whole |-> w]

KeyInit ==
  /\ keyFile = NoFile
  /\ cached = [p \in Proc |-> NoKey]
  /\ backend = [p \in Proc |-> "none"]
  /\ use = [p \in Proc |-> "idle"]
  /\ want = [p \in Proc |-> "none"]
  /\ primary = [p \in Proc |-> FALSE]
  /\ handles = [p \in Proc |-> 0]
  /\ records = {}
  /\ lastKey = 0
  /\ epoch = 0
  /\ making = [p \in Proc |-> NoKey]
  /\ loadedIn = [p \in Proc |-> 0]

To(p, label) == use' = [use EXCEPT ![p] = label]

(* create_keystore in a process that has just started.                     *)
CreateKeystore(p, kind) ==
  /\ backend[p] = "none"
  /\ backend' = [backend EXCEPT ![p] = kind]
  /\ UNCHANGED <<keyFile, cached, use, want, primary, handles, making, loadedIn, records,
       lastKey, epoch>>

(* The process is gone: the kernel closes its files and flushes its TPM    *)
(* objects.                                                                *)
ProcessEnds(p) ==
  /\ cached' = [cached EXCEPT ![p] = NoKey]
  /\ backend' = [backend EXCEPT ![p] = "none"]
  /\ To(p, "idle")
  /\ want' = [want EXCEPT ![p] = "none"]
  /\ primary' = [primary EXCEPT ![p] = FALSE]
  /\ handles' = [handles EXCEPT ![p] = 0]
  /\ making' = [making EXCEPT ![p] = NoKey]
  /\ loadedIn' = [loadedIn EXCEPT ![p] = 0]
  /\ UNCHANGED <<keyFile, records, lastKey, epoch>>

(* The authenticator calls generate_key() or sign(), or resets.            *)
Ask(p, operation) ==
  /\ use[p] = "idle" /\ backend[p] # "none"
  /\ want' = [want EXCEPT ![p] = operation]
  /\ To(p, IF operation = "reset" THEN "resetting"
           ELSE IF backend[p] = "tpm" THEN "primary" ELSE "loading")
  /\ UNCHANGED <<keyFile, cached, backend, primary, handles, making, loadedIn, records,
       lastKey, epoch>>

Gives(p) ==
  /\ To(p, "idle")
  /\ want' = [want EXCEPT ![p] = "none"]

-----------------------------------------------------------------------------
(* SoftwareKeyStore._load_master_key *)

LoadCached(p) ==
  /\ use[p] = "loading"
  /\ cached[p] # NoKey
  /\ To(p, "loaded")
  /\ UNCHANGED <<keyFile, cached, backend, want, primary, handles, making, loadedIn, records,
       lastKey, epoch>>

(* Mutant of ReadKey: the length is not looked at. *)
ReadAnyKey(p) ==
  /\ use[p] = "loading" /\ cached[p] = NoKey
  /\ keyFile # NoFile
  /\ cached' = [cached EXCEPT ![p] = IF keyFile.whole THEN keyFile.key ELSE MaxKey + 1]
  /\ loadedIn' = [loadedIn EXCEPT ![p] = epoch]
  /\ To(p, "loaded")
  /\ UNCHANGED <<keyFile, backend, want, primary, handles, making, records, lastKey, epoch>>

ReadKey(p) ==
  /\ use[p] = "loading" /\ cached[p] = NoKey
  /\ keyFile # NoFile /\ keyFile.whole
  /\ cached' = [cached EXCEPT ![p] = keyFile.key]
  /\ loadedIn' = [loadedIn EXCEPT ![p] = epoch]
  /\ To(p, "loaded")
  /\ UNCHANGED <<keyFile, backend, want, primary, handles, making, records, lastKey, epoch>>

(* "Corrupt software keystore master key": the file is short.              *)
ReadShort(p) ==
  /\ use[p] = "loading" /\ cached[p] = NoKey
  /\ keyFile # NoFile /\ ~keyFile.whole
  /\ Gives(p)
  /\ UNCHANGED <<keyFile, cached, backend, primary, handles, making, loadedIn, records,
       lastKey, epoch>>

ReadMisses(p) ==
  /\ use[p] = "loading" /\ cached[p] = NoKey
  /\ keyFile = NoFile
  /\ To(p, "creating")
  /\ UNCHANGED <<keyFile, cached, backend, want, primary, handles, making, loadedIn, records,
       lastKey, epoch>>

(* os.open with O_CREAT and O_EXCL.                                        *)
CreateKey(p) ==
  /\ use[p] = "creating"
  /\ keyFile = NoFile /\ lastKey < MaxKey
  /\ lastKey' = lastKey + 1
  /\ keyFile' = FileOf(lastKey', FALSE)
  /\ making' = [making EXCEPT ![p] = lastKey']
  /\ loadedIn' = [loadedIn EXCEPT ![p] = epoch]
  /\ To(p, "writing")
  /\ UNCHANGED <<cached, backend, want, primary, handles, records, epoch>>

(* Mutant of CreateExists: the key that was made is used all the same. *)
CreateExistsGoesOn(p) ==
  /\ use[p] = "creating"
  /\ keyFile # NoFile /\ lastKey < MaxKey
  /\ lastKey' = lastKey + 1
  /\ cached' = [cached EXCEPT ![p] = lastKey']
  /\ loadedIn' = [loadedIn EXCEPT ![p] = epoch]
  /\ To(p, "loaded")
  /\ UNCHANGED <<keyFile, backend, want, primary, handles, making, records, epoch>>

(* FileExistsError: the other process was first.                           *)
CreateExists(p) ==
  /\ use[p] = "creating"
  /\ keyFile # NoFile
  /\ Gives(p)
  /\ UNCHANGED <<keyFile, cached, backend, primary, handles, making, loadedIn, records,
       lastKey, epoch>>

(* The key is written to the file that was created, which a reset may have *)
(* unlinked since: a file is known by the key that was made for it.        *)
WriteKey(p) ==
  /\ use[p] = "writing"
  /\ keyFile' = IF keyFile = FileOf(making[p], FALSE) THEN FileOf(making[p], TRUE) ELSE keyFile
  /\ cached' = [cached EXCEPT ![p] = making[p]]
  /\ To(p, "loaded")
  /\ UNCHANGED <<backend, want, primary, handles, making, loadedIn, records, lastKey, epoch>>

(* The disk is full.                                                       *)
WriteKeyFails(p) ==
  /\ use[p] = "writing"
  /\ Gives(p)
  /\ UNCHANGED <<keyFile, cached, backend, primary, handles, making, loadedIn, records,
       lastKey, epoch>>

(* generate_key returns, and sign does: a signature needs the master key   *)
(* of the record.                                                          *)
Generated(p) ==
  /\ use[p] = "loaded" /\ want[p] = "generate"
  /\ To(p, "holding")
  /\ UNCHANGED <<keyFile, cached, backend, want, primary, handles, making, loadedIn, records,
       lastKey, epoch>>

Signed(p) ==
  /\ use[p] = "loaded" /\ want[p] = "sign"
  /\ Gives(p)
  /\ UNCHANGED <<keyFile, cached, backend, primary, handles, making, loadedIn, records,
       lastKey, epoch>>

(* The authenticator stores the record.                                    *)
StoreRecord(p) ==
  /\ use[p] = "holding"
  /\ records' = records \cup {[key |-> cached[p], epoch |-> loadedIn[p]]}
  /\ Gives(p)
  /\ UNCHANGED <<keyFile, cached, backend, primary, handles, making, loadedIn, lastKey, epoch>>

(* The record cannot be stored, or the key file not removed.               *)
StoreFails(p) ==
  /\ use[p] \in {"holding", "destroying"}
  /\ Gives(p)
  /\ UNCHANGED <<keyFile, cached, backend, primary, handles, making, loadedIn, records,
       lastKey, epoch>>

(* Authenticator.reset, which only the service is asked for: the records   *)
(* in the file of its one user go first; those of other users stay.        *)
ResetRecords ==
  /\ use[Service] = "resetting" /\ epoch < MaxEpoch
  /\ records' \in SUBSET records
  /\ To(Service, "destroying")
  /\ UNCHANGED <<keyFile, cached, backend, want, primary, handles, making, loadedIn, lastKey,
       epoch>>

(* Then destroy_all: the master key that all users share.  For the TPM it  *)
(* has nothing to do.                                                      *)
DestroyAll ==
  /\ use[Service] = "destroying"
  /\ keyFile' = IF backend[Service] = "software" THEN NoFile ELSE keyFile
  /\ cached' = [cached EXCEPT ![Service] = NoKey]
  /\ epoch' = epoch + 1
  /\ Gives(Service)
  /\ UNCHANGED <<backend, primary, handles, making, loadedIn, records, lastKey>>

-----------------------------------------------------------------------------
(* TpmKeyStore *)

(* _primary_handle: derived once per process.                              *)
CreatePrimary(p) ==
  /\ use[p] = "primary"
  /\ primary' = [primary EXCEPT ![p] = TRUE]
  /\ handles' = [handles EXCEPT ![p] = IF primary[p] THEN @ ELSE @ + 1]
  /\ To(p, "ready")
  /\ UNCHANGED <<keyFile, cached, backend, want, making, loadedIn, records, lastKey, epoch>>

(* No connection, CreatePrimary, Create or Load fails: KeyStoreError.      *)
TpmFails(p) ==
  /\ use[p] \in {"primary", "ready"}
  /\ Gives(p)
  /\ UNCHANGED <<keyFile, cached, backend, primary, handles, making, loadedIn, records,
       lastKey, epoch>>

(* generate_key: the wrapped key is returned and nothing stays loaded.     *)
TpmGenerated(p) ==
  /\ use[p] = "ready" /\ want[p] = "generate"
  /\ To(p, "holding")
  /\ UNCHANGED <<keyFile, cached, backend, want, primary, handles, making, loadedIn, records,
       lastKey, epoch>>

(* sign: load the key of a record.                                         *)
TpmLoad(p) ==
  /\ use[p] = "ready" /\ want[p] = "sign"
  /\ handles' = [handles EXCEPT ![p] = @ + 1]
  /\ To(p, "signing")
  /\ UNCHANGED <<keyFile, cached, backend, want, primary, making, loadedIn, records, lastKey,
       epoch>>

(* Mutant of TpmSign: a failure leaves without the finally block. *)
TpmSignOrLeave(p) ==
  /\ use[p] = "signing"
  /\ \/ To(p, "flushing") /\ UNCHANGED want
     \/ Gives(p)
  /\ UNCHANGED <<keyFile, cached, backend, primary, handles, making, loadedIn, records,
       lastKey, epoch>>

(* ectx.sign returns or raises; either way through the finally block.      *)
TpmSign(p) ==
  /\ use[p] = "signing"
  /\ To(p, "flushing")
  /\ UNCHANGED <<keyFile, cached, backend, want, primary, handles, making, loadedIn, records,
       lastKey, epoch>>

TpmFlush(p) ==
  /\ use[p] = "flushing"
  /\ handles' = [handles EXCEPT ![p] = @ - 1]
  /\ Gives(p)
  /\ UNCHANGED <<keyFile, cached, backend, primary, making, loadedIn, records, lastKey, epoch>>

-----------------------------------------------------------------------------
Software(p) ==
  \/ LoadCached(p) \/ ReadKey(p) \/ ReadShort(p) \/ ReadMisses(p)
  \/ CreateKey(p) \/ CreateExists(p) \/ WriteKeyFails(p)
  \/ WriteKey(p) \/ Generated(p) \/ Signed(p)

Tpm(p) ==
  CreatePrimary(p) \/ TpmFails(p) \/ TpmGenerated(p) \/ TpmLoad(p) \/ TpmSign(p) \/ TpmFlush(p)

KeyStoreStep(p) ==
  \/ Software(p) \/ Tpm(p)
  \/ StoreRecord(p) \/ StoreFails(p)
  \/ (p = Service /\ (ResetRecords \/ DestroyAll))

-----------------------------------------------------------------------------
KeyTypeOK ==
  /\ keyFile \in [key : 1..MaxKey, whole : BOOLEAN] \cup {NoFile}
  /\ cached \in [Proc -> 0..MaxKey]
  /\ backend \in [Proc -> Backend]
  /\ use \in [Proc -> UsePC]
  /\ want \in [Proc -> {"none", "generate", "sign", "reset"}]
  /\ primary \in [Proc -> BOOLEAN]
  /\ handles \in [Proc -> Nat]
  /\ making \in [Proc -> 0..MaxKey]
  /\ loadedIn \in [Proc -> 0..MaxEpoch]
  /\ records \subseteq Record
  /\ lastKey \in 0..MaxKey
  /\ epoch \in 0..MaxEpoch

(* The keys of the records made since the last reset can be unwrapped, by  *)
(* every process and after every restart: the master key of a record, and  *)
(* the one a process works with, is the one in the file, whichever of two  *)
(* processes created it and whoever died meanwhile.  After a reset the     *)
(* service does not go on with the old master key, which would wrap new    *)
(* credentials with a key that no file holds any more.  (Nothing is said   *)
(* of older records: a reset takes the key of what other users have        *)
(* registered, and NoRecordLosesItsKey is about what another process began *)
(* before it.)                                                             *)
KeysSurvive ==
  /\ \A r \in records :
       r.epoch = epoch /\ r.key # NoKey => keyFile = FileOf(r.key, TRUE)
  /\ \A p \in Proc :
       cached[p] # NoKey /\ loadedIn[p] = epoch => keyFile = FileOf(cached[p], TRUE)
  /\ cached[Service] # NoKey => loadedIn[Service] = epoch

(* A key of the TPM is loaded for the time of one signature, also when the *)
(* signature fails; only the primary stays.                                *)
HandlesAreFlushed ==
  \A p \in Proc :
    handles[p] = (IF primary[p] THEN 1 ELSE 0)
                 + (IF use[p] \in {"signing", "flushing"} THEN 1 ELSE 0)
=============================================================================
