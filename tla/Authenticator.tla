---------------------------- MODULE Authenticator ----------------------------
(***************************************************************************)
(* class Authenticator of howdy/src/webauthn/authenticator.py: the CTAP2   *)
(* ceremonies of the service, over the credential store of one user, a key *)
(* store and a face check, next to an administrator who runs               *)
(* "howdy webauthn" on the same files.                                     *)
(*                                                                         *)
(* The store is the atomic one (CredentialStore implements AtomicStore),   *)
(* and here the service's private copy is part of the picture: every       *)
(* command starts from the copy, and only the mutating operations load it  *)
(* again.  The transport runs one command at a time.  A step is one call   *)
(* of the store, the key store or the verifier, so that the administrator  *)
(* gets a word in between any two of them, and a crash too.                *)
(*                                                                         *)
(* Malformed requests are answered with an error and change nothing; they  *)
(* are left out.  Elapsed time is the loss of a window: TimePasses.        *)
(***************************************************************************)
EXTENDS StoreTable, Sequences

CONSTANTS RpOf,         \* RpOf[c]: the website of credential c
          NoCred,       \* no credential
          OfAdmin,      \* credential ids that "howdy webauthn register" draws
          MaxCount,     \* bound: no ceremony starts with a counter this high
          MaxChecks,    \* bound: on the face checks that succeed
          MaxSilent     \* bound: on the silent assertions of a credential, after
                        \* which none of any credential follows

ASSUME AuthenticatorAssumption ==
  /\ NoCred \notin Cred
  /\ \A c, d \in Cred : AccountOf[c] = AccountOf[d] => RpOf[c] = RpOf[d]
  /\ OfAdmin \subseteq Cred
  /\ MaxCount \in Nat /\ MaxChecks \in Nat /\ MaxSilent \in Nat

VARIABLES
  file,      \* the credentials file
  cache,     \* self.store._credentials of the service
  fresh,     \* credential ids nobody has drawn
  keys,      \* credentials whose key_ref the key store can use
  phase,     \* where handle_cbor is
  excluded,  \* make_credential: the exclude list has a match
  current,   \* the credential being registered, or asserted
  todo,      \* get_assertion: credentials that still have to be asserted
  signed,    \* get_assertion: the responses so far
  pending,   \* self._next_assertions
  recent,    \* _next_assertion_time is at most 30 seconds ago
  young,     \* the service started at most 10 seconds ago
  adminCred, \* "register": the credential whose key exists and record does not
  checks,    \* number of successful face checks
  last,      \* history: last[c], the last count released in an assertion of c
  credit,    \* history: credit[c], the assertions of c that successful checks
             \* allow, less those released
  silent,    \* history: silent[c], the assertions of c signed without a check
  answered,  \* history: registrations answered with success
  gone,      \* history: credentials removed, replaced or reset away
  misses     \* history: misses[c], ceremonies that failed for want of c's record
storeVars == <<file, cache, gone>>
requestVars == <<excluded, current, todo, signed>>
nextVars == <<pending, recent>>
adminVars == <<adminCred>>
gateVars == <<checks, last, credit, silent>>
vars == <<storeVars, fresh, keys, phase, requestVars, nextVars, young, adminVars,
          gateVars, answered, misses>>

Response == [cred : Cred, count : Nat]

Init ==
  /\ file = EmptyTable
  /\ cache = EmptyTable
  /\ fresh = Cred
  /\ keys = {}
  /\ phase = "idle"
  /\ excluded = FALSE
  /\ current = NoCred
  /\ todo = {}
  /\ signed = <<>>
  /\ pending = <<>>
  /\ recent = FALSE
  /\ young = TRUE
  /\ adminCred = NoCred
  /\ checks = 0
  /\ last = [c \in Cred |-> Absent]
  /\ credit = [c \in Cred |-> 0]
  /\ silent = [c \in Cred |-> 0]
  /\ answered = {}
  /\ gone = {}
  /\ misses = [c \in Cred |-> 0]

Stored(t) == {c \in Cred : t[c] # Absent}

(* An operation of the store that takes effect leaves the copy like the    *)
(* file.                                                                   *)
Write(t) ==
  /\ file' = t
  /\ cache' = t
  /\ gone' = gone \cup (Stored(file) \ Stored(t))

(* One that fails at the write leaves the copy ahead of the file; one that *)
(* fails before leaves everything.                                         *)
WriteFails(t) == cache' = t /\ UNCHANGED <<file, gone>>

(* handle_cbor returns. *)
Done ==
  /\ phase' = "idle"
  /\ excluded' = FALSE
  /\ current' = NoCred
  /\ todo' = {}
  /\ signed' = <<>>

Release(r) ==
  /\ last' = [last EXCEPT ![r.cred] = r.count]
  /\ credit' = [credit EXCEPT ![r.cred] = @ - 1]
  /\ UNCHANGED <<checks, silent>>

-----------------------------------------------------------------------------
(* make_credential, up to the face check.  Whether the exclude list has a  *)
(* match is decided on the copy.                                           *)
MakeCredential(c, exclude) ==
  /\ phase = "idle"
  /\ c \in fresh \ OfAdmin
  /\ phase' = "verifyMake"
  /\ current' = c
  /\ excluded' = (\E d \in exclude \cap Stored(cache) : RpOf[d] = RpOf[c])
  /\ UNCHANGED <<storeVars, fresh, keys, todo, signed, nextVars, young, adminVars,
       gateVars, answered, misses>>

(* get_assertion with the option "up" set to false: a signature over the   *)
(* count as it is, without the flags of presence and verification, and     *)
(* without a face check.                                                   *)
SilentAssertion(c) ==
  /\ phase = "idle"
  /\ c \in Stored(cache) \cap keys
  /\ \A d \in Cred : silent[d] < MaxSilent
  /\ silent' = [silent EXCEPT ![c] = @ + 1]
  /\ UNCHANGED <<storeVars, fresh, keys, phase, requestVars, nextVars, young, adminVars,
       checks, last, credit, answered, misses>>

(* get_assertion: the credentials of one website in the copy that are on   *)
(* the allow list, or discoverable.                                        *)
GetAssertion(found) ==
  /\ phase = "idle"
  /\ found # {} /\ found \subseteq Stored(cache)
  /\ \A c, d \in found : RpOf[c] = RpOf[d]
  /\ \A c \in found : file[c] < MaxCount
  /\ phase' = "verifyGet"
  /\ todo' = found
  /\ UNCHANGED <<storeVars, fresh, keys, excluded, current, signed, nextVars, young,
       adminVars, gateVars, answered, misses>>

Reset ==
  /\ phase = "idle"
  /\ young
  /\ phase' = "verifyReset"
  /\ UNCHANGED <<storeVars, fresh, keys, requestVars, nextVars, young, adminVars,
       gateVars, answered, misses>>

Selection ==
  /\ phase = "idle"
  /\ phase' = "verifySelect"
  /\ UNCHANGED <<storeVars, fresh, keys, requestVars, nextVars, young, adminVars,
       gateVars, answered, misses>>

Verifying == {"verifyMake", "verifyGet", "verifyReset", "verifySelect"}

(* _verify_user raises: no match, timeout, cancelled. *)
VerifyFails ==
  /\ phase \in Verifying
  /\ Done
  /\ UNCHANGED <<storeVars, fresh, keys, nextVars, young, adminVars, gateVars,
       answered, misses>>

(* The face check of this ceremony succeeds. *)
FaceSeen ==
  /\ checks < MaxChecks
  /\ checks' = checks + 1
  /\ UNCHANGED <<last, silent>>

VerifiedMake ==
  /\ phase = "verifyMake"
  /\ FaceSeen
  /\ IF excluded THEN Done
                 ELSE phase' = "generate" /\ UNCHANGED requestVars
  /\ UNCHANGED <<storeVars, fresh, keys, nextVars, young, adminVars, credit,
       answered, misses>>

VerifiedGet ==
  /\ phase = "verifyGet"
  /\ FaceSeen
  /\ credit' = [c \in Cred |-> credit[c] + IF c \in todo THEN 1 ELSE 0]
  /\ phase' = "increment"
  /\ UNCHANGED <<storeVars, fresh, keys, requestVars, nextVars, young, adminVars,
       answered, misses>>

(* Mutant of VerifiedReset: the records are forgotten. *)
VerifiedResetOfKeys ==
  /\ phase = "verifyReset"
  /\ FaceSeen
  /\ phase' = "destroyKeys"
  /\ UNCHANGED <<storeVars, fresh, keys, requestVars, nextVars, young, adminVars,
       credit, answered, misses>>

VerifiedReset ==
  /\ phase = "verifyReset"
  /\ FaceSeen
  /\ phase' = "destroyRecords"
  /\ UNCHANGED <<storeVars, fresh, keys, requestVars, nextVars, young, adminVars,
       credit, answered, misses>>

VerifiedSelect ==
  /\ phase = "verifySelect"
  /\ FaceSeen
  /\ Done
  /\ UNCHANGED <<storeVars, fresh, keys, nextVars, young, adminVars, credit,
       answered, misses>>

-----------------------------------------------------------------------------
(* keystore.generate_key() and the random id. *)
GenerateKey ==
  /\ phase = "generate"
  /\ fresh' = fresh \ {current}
  /\ keys' = keys \cup {current}
  /\ phase' = "add"
  /\ UNCHANGED <<storeVars, requestVars, nextVars, young, adminVars, gateVars,
       answered, misses>>

(* store.add *)
AddRecord ==
  /\ phase = "add"
  /\ Write(WithAdded(file, current))
  /\ phase' = "attest"
  /\ UNCHANGED <<fresh, keys, requestVars, nextVars, young, adminVars, gateVars,
       answered, misses>>

(* Mutant of AddFails: the error is logged and the ceremony goes on. *)
AddFailsQuietly ==
  /\ phase = "add"
  /\ UNCHANGED storeVars \/ WriteFails(WithAdded(file, current))
  /\ phase' = "attest"
  /\ UNCHANGED <<fresh, keys, requestVars, nextVars, young, adminVars, gateVars,
       answered, misses>>

AddFails ==
  /\ phase = "add"
  /\ UNCHANGED storeVars \/ WriteFails(WithAdded(file, current))
  /\ Done
  /\ UNCHANGED <<fresh, keys, nextVars, young, adminVars, gateVars, answered, misses>>

(* The self attestation, and the response. *)
Attest ==
  /\ phase = "attest"
  /\ current \in keys
  /\ answered' = answered \cup {current}
  /\ Done
  /\ UNCHANGED <<storeVars, fresh, keys, nextVars, young, adminVars, gateVars, misses>>

-----------------------------------------------------------------------------
(* store.increment_counter for the next record.  (The order is newest      *)
(* first; nothing here depends on it.)                                     *)
Increment(c) ==
  /\ phase = "increment"
  /\ c \in todo
  /\ file[c] # Absent
  /\ Write(WithIncremented(file, c))
  /\ current' = c
  /\ todo' = todo \ {c}
  /\ phase' = "sign"
  /\ UNCHANGED <<fresh, keys, excluded, signed, nextVars, young, adminVars, gateVars,
       answered, misses>>

(* Mutant of IncrementMisses: nobody looks whether a record was found. *)
MissGoesOn(c) ==
  /\ phase = "increment"
  /\ c \in todo
  /\ file[c] = Absent
  /\ cache' = file
  /\ current' = c
  /\ todo' = todo \ {c}
  /\ phase' = "sign"
  /\ UNCHANGED <<file, gone, fresh, keys, excluded, signed, nextVars, young,
       adminVars, gateVars, answered, misses>>

(* Mutant of IncrementMisses: the copy is not loaded again. *)
MissKeepsCopy(c) ==
  /\ phase = "increment"
  /\ c \in todo
  /\ file[c] = Absent
  /\ misses' = [misses EXCEPT ![c] = @ + 1]
  /\ Done
  /\ UNCHANGED <<storeVars, fresh, keys, nextVars, young, adminVars, gateVars, answered>>

(* The record is gone; the copy has been loaded by the time this is found. *)
IncrementMisses(c) ==
  /\ phase = "increment"
  /\ c \in todo
  /\ file[c] = Absent
  /\ cache' = file
  /\ misses' = [misses EXCEPT ![c] = @ + 1]
  /\ Done
  /\ UNCHANGED <<file, gone, fresh, keys, nextVars, young, adminVars, gateVars, answered>>

IncrementFails(c) ==
  /\ phase = "increment"
  /\ c \in todo
  /\ \/ UNCHANGED storeVars
     \/ file[c] # Absent /\ WriteFails(WithIncremented(file, c))
  /\ Done
  /\ UNCHANGED <<fresh, keys, nextVars, young, adminVars, gateVars, answered, misses>>

(* keystore.sign over the new count; after the last record the first       *)
(* response is released and the others wait for GetNextAssertion.          *)
Signed == Append(signed, [cred |-> current, count |-> cache[current]])

SignMore ==
  /\ phase = "sign"
  /\ current \in keys
  /\ todo # {}
  /\ signed' = Signed
  /\ current' = NoCred
  /\ phase' = "increment"
  /\ UNCHANGED <<storeVars, fresh, keys, excluded, todo, nextVars, young, adminVars,
       gateVars, answered, misses>>

(* Mutant of SignLast: the responses that wait are added to the old ones. *)
SignLastAppends ==
  /\ phase = "sign"
  /\ current \in keys
  /\ todo = {}
  /\ Release(Head(Signed))
  /\ pending' = pending \o Tail(Signed)
  /\ recent' = TRUE
  /\ Done
  /\ UNCHANGED <<storeVars, fresh, keys, young, adminVars, answered, misses>>

SignLast ==
  /\ phase = "sign"
  /\ current \in keys
  /\ todo = {}
  /\ Release(Head(Signed))
  /\ pending' = Tail(Signed)
  /\ recent' = TRUE
  /\ Done
  /\ UNCHANGED <<storeVars, fresh, keys, young, adminVars, answered, misses>>

(* generate_key or sign raises: an unusable key, a TPM error.              *)
KeyStoreFails ==
  /\ phase \in {"generate", "attest", "sign"}
  /\ Done
  /\ UNCHANGED <<storeVars, fresh, keys, nextVars, young, adminVars, gateVars,
       answered, misses>>

(* Mutant of GetNextAssertion: the response stays in the list. *)
GetNextAgain ==
  /\ phase = "idle"
  /\ pending # <<>>
  /\ recent
  /\ Release(Head(pending))
  /\ UNCHANGED <<storeVars, fresh, keys, phase, requestVars, nextVars, young, adminVars,
       answered, misses>>

(* get_next_assertion: within the window, and too late. *)
GetNextAssertion ==
  /\ phase = "idle"
  /\ pending # <<>>
  /\ recent
  /\ Release(Head(pending))
  /\ pending' = Tail(pending)
  /\ UNCHANGED <<storeVars, fresh, keys, phase, requestVars, recent, young, adminVars,
       answered, misses>>

GetNextTooLate ==
  /\ phase = "idle"
  /\ pending # <<>>
  /\ ~recent
  /\ pending' = <<>>
  /\ UNCHANGED <<storeVars, fresh, keys, phase, requestVars, recent, young, adminVars,
       gateVars, answered, misses>>

-----------------------------------------------------------------------------
(* reset: store.destroy_all, which empties the copy before it unlinks.     *)
DestroyRecords ==
  /\ phase = "destroyRecords"
  /\ \/ Write(EmptyTable) /\ phase' = "destroyKeys" /\ UNCHANGED requestVars
     \/ UNCHANGED storeVars /\ Done
     \/ WriteFails(EmptyTable) /\ Done
  /\ UNCHANGED <<fresh, keys, nextVars, young, adminVars, gateVars, answered, misses>>

(* keystore.destroy_all *)
DestroyKeys ==
  /\ phase = "destroyKeys"
  /\ keys' \in {{}, keys}
  /\ Done
  /\ UNCHANGED <<storeVars, fresh, nextVars, young, adminVars, gateVars, answered, misses>>

-----------------------------------------------------------------------------
(* "howdy webauthn register", "remove" and "authenticate", each a process  *)
(* of its own that writes the file behind the service's back.              *)
AdminWrites(t) ==
  /\ file' = t
  /\ gone' = gone \cup (Stored(file) \ Stored(t))
  /\ UNCHANGED cache

AdminKey(c) ==
  /\ adminCred = NoCred
  /\ c \in fresh \cap OfAdmin
  /\ fresh' = fresh \ {c}
  /\ keys' = keys \cup {c}
  /\ adminCred' = c
  /\ UNCHANGED <<storeVars, phase, requestVars, nextVars, young, gateVars, answered,
       misses>>

AdminAdds ==
  /\ adminCred # NoCred
  /\ AdminWrites(WithAdded(file, adminCred))
  /\ adminCred' = NoCred
  /\ UNCHANGED <<fresh, keys, phase, requestVars, nextVars, young, gateVars, answered,
       misses>>

(* The process ends without having added. *)
AdminGivesUp ==
  /\ adminCred # NoCred
  /\ adminCred' = NoCred
  /\ UNCHANGED <<storeVars, fresh, keys, phase, requestVars, nextVars, young, gateVars,
       answered, misses>>

AdminRemoves(c) ==
  /\ file[c] # Absent
  /\ AdminWrites(WithRemoved(file, c))
  /\ UNCHANGED <<fresh, keys, phase, requestVars, nextVars, young, adminVars, gateVars,
       answered, misses>>

AdminAuthenticates(c) ==
  /\ file[c] # Absent /\ file[c] < MaxCount
  /\ AdminWrites(WithIncremented(file, c))
  /\ UNCHANGED <<fresh, keys, phase, requestVars, nextVars, young, adminVars, gateVars,
       answered, misses>>

Admin ==
  \/ AdminAdds \/ AdminGivesUp
  \/ \E c \in Cred : AdminKey(c) \/ AdminRemoves(c) \/ AdminAuthenticates(c)

(* The two windows close. *)
TimePasses ==
  /\ \/ recent /\ recent' = FALSE /\ UNCHANGED young
     \/ young /\ young' = FALSE /\ UNCHANGED recent
  /\ UNCHANGED <<storeVars, fresh, keys, phase, requestVars, pending, adminVars,
       gateVars, answered, misses>>

(* The service dies at any point and comes up again. *)
Restart ==
  /\ Done
  /\ cache' = file
  /\ pending' = <<>>
  /\ recent' = FALSE
  /\ young' = TRUE
  /\ UNCHANGED <<file, gone, fresh, keys, adminVars, gateVars, answered, misses>>

-----------------------------------------------------------------------------
Ceremony ==
  \/ \E c \in Cred, exclude \in SUBSET Cred : MakeCredential(c, exclude)
  \/ \E found \in SUBSET Cred : GetAssertion(found)
  \/ \E c \in Cred : SilentAssertion(c)
  \/ Reset \/ Selection
  \/ VerifyFails \/ VerifiedMake \/ VerifiedGet \/ VerifiedReset \/ VerifiedSelect
  \/ GenerateKey \/ AddRecord \/ AddFails \/ Attest \/ KeyStoreFails
  \/ \E c \in Cred : Increment(c) \/ IncrementMisses(c) \/ IncrementFails(c)
  \/ SignMore \/ SignLast \/ GetNextAssertion \/ GetNextTooLate
  \/ DestroyRecords \/ DestroyKeys

Next == Ceremony \/ Admin \/ TimePasses \/ Restart

Spec == Init /\ [][Next]_vars
-----------------------------------------------------------------------------
Phase == Verifying \cup {"idle", "generate", "add", "attest", "increment", "sign",
                         "destroyRecords", "destroyKeys"}

TypeOK ==
  /\ file \in Table /\ cache \in Table
  /\ fresh \subseteq Cred /\ keys \subseteq Cred
  /\ phase \in Phase
  /\ excluded \in BOOLEAN
  /\ current \in Cred \cup {NoCred} /\ adminCred \in Cred \cup {NoCred}
  /\ todo \subseteq Cred
  /\ signed \in Seq(Response) /\ pending \in Seq(Response)
  /\ recent \in BOOLEAN /\ young \in BOOLEAN
  /\ checks \in 0..MaxChecks
  /\ last \in Table
  /\ credit \in [Cred -> Int]
  /\ silent \in [Cred -> 0..MaxSilent]
  /\ answered \subseteq Cred /\ gone \subseteq Cred
  /\ misses \in [Cred -> Nat]

(* "monotonic, crash-safe sign counter": whatever a ceremony that failed   *)
(* half way, a restart, a later ceremony or the administrator did since a  *)
(* response was signed, its count is above every count a website has seen  *)
(* in a real assertion.  (A silent one shows the count as it is.)          *)
CountersIncrease ==
  \A i \in 1..Len(pending) : pending[i].count > last[pending[i].cred]

(* "Face verification: the single gate in front of every real signature":  *)
(* one successful check lets out at most one assertion of each credential  *)
(* it was asked for, now or through GetNextAssertion.  A real assertion is *)
(* one that claims user presence; of the others see NoFaceNoSignature.     *)
OneAssertionPerCheck == \A c \in Cred : credit[c] >= 0

(* "no face match, no signature" (docs/webauthn.md), "there is no code     *)
(* path that signs without a fresh face match" (docs/webauthn-design.md):  *)
(* no more signatures of a credential than successful checks allow, the    *)
(* silent ones included.                                                   *)
NoFaceNoSignature == \A c \in Cred : credit[c] - silent[c] >= 0

(* A registration that was answered with success is in the file until      *)
(* somebody removes, replaces or resets it.                                *)
AnsweredIsStored == answered \subseteq Stored(file) \cup gone

(* Every record of the service has a usable key, also after a reset that   *)
(* failed or was interrupted between the records and the keys.             *)
RecordsHaveKeys == Stored(file) \ OfAdmin \subseteq keys

(* "The daemon holds an flock to prevent CLI/daemon races"                 *)
(* (docs/webauthn-design.md): no race of the command line with the service *)
(* leaves a record, of either, without its key.                            *)
NoRecordLosesItsKey == Stored(file) \subseteq keys

(* A record that somebody else removed makes one ceremony of the service   *)
(* fail, and no second one: the failure has renewed the copy.              *)
MissesOnce == \A c \in Cred : misses[c] <= 1
=============================================================================
