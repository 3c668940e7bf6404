--------------------------- MODULE CommandsProofs ---------------------------
(***************************************************************************)
(* What holds of the commands of an administrator, for every set of        *)
(* processes and shells and every number of master keys, resets, signals   *)
(* and scans: of the key stores and the processes around them, of the file *)
(* of face models, and of howdy-gtk.                                       *)
(***************************************************************************)
EXTENDS Commands, SequenceTheorems, WellFoundedInduction, TLAPS

-----------------------------------------------------------------------------
(* The key stores and the service: the inductive invariant. *)

(* The operations of the software backend belong to its processes, and go  *)
(* on from "loaded" with a master key.                                     *)
UseInv ==
  \A p \in Proc :
    /\ use[p] # "idle" => backend[p] # "none"
    /\ use[p] \in {"loading", "creating", "writing", "loaded"} => backend[p] = "software"
    /\ use[p] \in {"primary", "ready", "signing", "flushing"} => backend[p] = "tpm"
    /\ cached[p] # NoKey => backend[p] = "software"
    /\ use[p] \in {"creating", "writing"} => cached[p] = NoKey
    /\ use[p] = "loaded" => cached[p] # NoKey
    /\ use[p] = "holding" /\ backend[p] = "software" => cached[p] # NoKey

(* A key that is being written is its writer's own, and the file that was  *)
(* created for it is there until the next reset.                           *)
WriterInv ==
  \A p \in Proc :
    use[p] = "writing" =>
      /\ making[p] \in 1..lastKey
      /\ loadedIn[p] = epoch => keyFile = FileOf(making[p], FALSE)
      /\ p = Service => loadedIn[p] = epoch
      /\ \A q \in Proc : use[q] = "writing" /\ q # p => making[q] # making[p]

(* Nothing is of an epoch to come.                                         *)
EpochInv ==
  /\ \A p \in Proc : loadedIn[p] <= epoch
  /\ \A r \in records : r.epoch <= epoch
  /\ use[Service] = "destroying" => epoch < MaxEpoch

KeyInv ==
  KeyTypeOK /\ UseInv /\ WriterInv /\ EpochInv /\ KeysSurvive /\ HandlesAreFlushed

(* One init at most has created the state file, and it is torn until then. *)
InitInv ==
  \A i \in Setup :
    init[i] \in Kinds =>
      /\ stateFile = "torn"
      /\ \A j \in Setup : init[j] \in Kinds => i = j

(* One activation of close() at most holds the descriptor; the others find *)
(* nothing to close.                                                       *)
Holds(i) == frames[i] \in {"destroy", "close"}
CloseInv ==
  /\ at[Service] \in {"off", "opening", "exiting"} => frames = <<>>
  /\ selfFd => devFd = "open" /\ \A i \in 1..Len(frames) : ~Holds(i)
  /\ \A i, j \in 1..Len(frames) : Holds(i) /\ Holds(j) => i = j

ServiceInv == ServiceTypeOK /\ KeyInv /\ InitInv /\ CloseInv /\ OneBackend /\ ClosesItsOwn
-----------------------------------------------------------------------------
(* The steps of the key stores *)

(* A file is not the absence of one, ...                                   *)
LEMMA FileIsThere == \A k \in Nat : FileOf(k, TRUE) # NoFile /\ FileOf(k, FALSE) # NoFile
<1> TAKE k \in Nat
<1>1. FileOf(k, TRUE) \in [key : Nat, whole : BOOLEAN]
  BY DEF FileOf
<1>2. FileOf(k, FALSE) \in [key : Nat, whole : BOOLEAN]
  BY DEF FileOf
<1> QED
  BY <1>1, <1>2, KeyStoreAssumption

(* ... and two files are the same when their keys and states are.          *)
LEMMA FilesDiffer ==
  \A k, l : /\ FileOf(k, FALSE) # FileOf(l, TRUE)
            /\ FileOf(k, FALSE) = FileOf(l, FALSE) => k = l
            /\ FileOf(k, TRUE) = FileOf(l, TRUE) => k = l
BY DEF FileOf

(* Before anything has happened the keys are in order.                     *)
LEMMA KeyInitKeyInv == KeyInit => KeyInv
BY KeyStoreAssumption
DEF KeyInit, KeyInv, KeyTypeOK, UseInv, WriterInv, EpochInv, KeysSurvive, HandlesAreFlushed,
    Backend, UsePC, Record, NoKey, FileOf

(* Every step of a key store keeps the invariant. *)
LEMMA KeyStoreStepKeyInv ==
  ASSUME NEW p \in Proc, KeyInv, KeyStoreStep(p)
  PROVE  KeyInv'
<1> USE KeyStoreAssumption DEF To, Gives, NoKey
<1>1. CASE LoadCached(p)
  BY <1>1 DEF LoadCached, KeyInv, KeyTypeOK, UseInv, WriterInv, EpochInv, KeysSurvive,
    HandlesAreFlushed, UsePC, Backend, Record
<1>2. CASE ReadKey(p)
  <2>1. KeyTypeOK'
    BY <1>2 DEF ReadKey, KeyInv, KeyTypeOK, UsePC, Backend, Record, FileOf, WriterInv, EpochInv,
        UseInv
  <2>2. UseInv'
    BY <1>2 DEF ReadKey, KeyInv, UseInv, KeyTypeOK, WriterInv
  <2>3. WriterInv'
    BY <1>2 DEF ReadKey, KeyInv, WriterInv, UseInv, KeyTypeOK, EpochInv, FileOf
  <2>4. EpochInv'
    BY <1>2 DEF ReadKey, KeyInv, EpochInv, KeyTypeOK
  <2>5. KeysSurvive'
    BY <1>2 DEF ReadKey, KeyInv, KeysSurvive, UseInv, WriterInv, EpochInv, KeyTypeOK, FileOf,
        Record
  <2>6. HandlesAreFlushed'
    BY <1>2 DEF ReadKey, KeyInv, HandlesAreFlushed, KeyTypeOK
  <2> QED
    BY <2>1, <2>2, <2>3, <2>4, <2>5, <2>6 DEF KeyInv
<1>3. CASE ReadShort(p)
  BY <1>3 DEF ReadShort, KeyInv, KeyTypeOK, UseInv, WriterInv, EpochInv, KeysSurvive,
    HandlesAreFlushed, UsePC, Backend, Record
<1>4. CASE ReadMisses(p)
  BY <1>4 DEF ReadMisses, KeyInv, KeyTypeOK, UseInv, WriterInv, EpochInv, KeysSurvive,
    HandlesAreFlushed, UsePC, Backend, Record
<1>5. CASE CreateKey(p)
  <2>1. KeyTypeOK'
    BY <1>5 DEF CreateKey, KeyInv, KeyTypeOK, UsePC, Backend, Record, FileOf, WriterInv,
        EpochInv, UseInv
  <2>2. UseInv'
    BY <1>5 DEF CreateKey, KeyInv, UseInv, KeyTypeOK, WriterInv
  <2>3. WriterInv'
    <3>1. lastKey' = lastKey + 1 /\ keyFile' = FileOf(lastKey + 1, FALSE) /\ lastKey \in Nat
      BY <1>5 DEF CreateKey, KeyInv, KeyTypeOK
    <3>2. ASSUME NEW q \in Proc, use[q] = "writing"
          PROVE  loadedIn[q] # epoch /\ making[q] \in 1..lastKey
      <4>1. /\ making[q] \in 1..lastKey
            /\ loadedIn[q] = epoch => keyFile = FileOf(making[q], FALSE)
        BY <3>2 DEF KeyInv, WriterInv
      <4>2. making[q] \in Nat
        BY <4>1, <3>1
      <4> QED
        BY <1>5, <4>1, <4>2, FileIsThere DEF CreateKey
    <3>3. \A q \in Proc : use'[q] = "writing" /\ q # p => use[q] = "writing"
      BY <1>5 DEF CreateKey, KeyInv, KeyTypeOK
    <3>4. making'[p] = lastKey + 1 /\ loadedIn'[p] = epoch /\ epoch' = epoch
      BY <1>5 DEF CreateKey, KeyInv, KeyTypeOK
    <3>5. \A q \in Proc : q # p => making'[q] = making[q] /\ loadedIn'[q] = loadedIn[q]
      BY <1>5 DEF CreateKey, KeyInv, KeyTypeOK
    <3>6. \A q \in Proc : use[q] = "writing" /\ q = Service => loadedIn[q] = epoch
      BY DEF KeyInv, WriterInv
    <3>7. \A q, r \in Proc :
            use[q] = "writing" /\ use[r] = "writing" /\ q # r => making[q] # making[r]
      BY DEF KeyInv, WriterInv
    <3>8. ASSUME NEW q \in Proc, use'[q] = "writing", q # p
          PROVE  making'[q] \in 1..lastKey /\ loadedIn'[q] # epoch
      BY <3>2, <3>3, <3>5, <3>8
    <3>9. ASSUME NEW q \in Proc, use'[q] = "writing"
          PROVE  making'[q] \in 1..lastKey' /\ (q = Service => loadedIn'[q] = epoch')
      BY <3>1, <3>3, <3>4, <3>5, <3>6, <3>8, <3>9
    <3>10. ASSUME NEW q \in Proc, NEW r \in Proc, use'[q] = "writing", use'[r] = "writing", q # r
           PROVE  making'[q] # making'[r]
      <4>1. CASE q # p /\ r # p
        BY <3>3, <3>5, <3>7, <3>10, <4>1
      <4>2. CASE q = p \/ r = p
        BY <3>1, <3>4, <3>8, <3>10, <4>2
      <4> QED
        BY <4>1, <4>2
    <3> QED
      BY <3>1, <3>4, <3>8, <3>9, <3>10 DEF WriterInv
  <2>4. EpochInv'
    BY <1>5 DEF CreateKey, KeyInv, EpochInv, KeyTypeOK
  <2>5. KeysSurvive'
    <3>1. \A r \in records : r.epoch = epoch => r.key = NoKey
      BY <1>5, FileIsThere DEF CreateKey, KeyInv, KeysSurvive, KeyTypeOK, Record
    <3>2. \A q \in Proc : loadedIn[q] = epoch => cached[q] = NoKey
      <4> TAKE q \in Proc
      <4>1. cached[q] \in Nat
        BY DEF KeyInv, KeyTypeOK
      <4> QED
        BY <1>5, <4>1, FileIsThere DEF CreateKey, KeyInv, KeysSurvive
    <3>3. cached[p] = NoKey
      BY <1>5 DEF CreateKey, KeyInv, UseInv
    <3> QED
      BY <1>5, <3>1, <3>2, <3>3 DEF CreateKey, KeyInv, KeysSurvive, KeyTypeOK
  <2>6. HandlesAreFlushed'
    BY <1>5 DEF CreateKey, KeyInv, HandlesAreFlushed, KeyTypeOK
  <2> QED
    BY <2>1, <2>2, <2>3, <2>4, <2>5, <2>6 DEF KeyInv
<1>6. CASE CreateExists(p)
  BY <1>6 DEF CreateExists, KeyInv, KeyTypeOK, UseInv, WriterInv, EpochInv, KeysSurvive,
    HandlesAreFlushed, UsePC, Backend, Record
<1>7. CASE WriteKeyFails(p)
  BY <1>7 DEF WriteKeyFails, KeyInv, KeyTypeOK, UseInv, WriterInv, EpochInv, KeysSurvive,
    HandlesAreFlushed, UsePC, Backend, Record
<1>8. CASE WriteKey(p)
  <2>1. KeyTypeOK'
    BY <1>8 DEF WriteKey, KeyInv, KeyTypeOK, UsePC, Backend, Record, FileOf, WriterInv,
        EpochInv, UseInv
  <2>2. UseInv'
    <3>1. making[p] \in 1..lastKey
      BY <1>8 DEF WriteKey, KeyInv, WriterInv
    <3>2. making[p] # NoKey
      BY <3>1 DEF KeyInv, KeyTypeOK
    <3> QED
      BY <1>8, <3>2 DEF WriteKey, KeyInv, UseInv, KeyTypeOK
  <2>3. WriterInv'
    <3>1. \A q \in Proc : use'[q] = "writing" => use[q] = "writing" /\ q # p
      BY <1>8 DEF WriteKey, KeyInv, KeyTypeOK
    <3>2. ASSUME NEW q \in Proc, q # p, use[q] = "writing", loadedIn[q] = epoch
          PROVE  keyFile' = FileOf(making[q], FALSE)
      <4>1. keyFile = FileOf(making[q], FALSE) /\ making[q] # making[p]
        BY <1>8, <3>2 DEF WriteKey, KeyInv, WriterInv
      <4>2. keyFile # FileOf(making[p], FALSE)
        BY <4>1, FilesDiffer
      <4> QED
        BY <1>8, <4>1, <4>2 DEF WriteKey
    <3> QED
      BY <1>8, <3>1, <3>2 DEF WriteKey, KeyInv, WriterInv
  <2>4. EpochInv'
    BY <1>8 DEF WriteKey, KeyInv, EpochInv, KeyTypeOK
  <2>5. KeysSurvive'
    <3>1. CASE loadedIn[p] = epoch
      <4>1. keyFile = FileOf(making[p], FALSE) /\ keyFile' = FileOf(making[p], TRUE)
        BY <1>8, <3>1 DEF WriteKey, KeyInv, WriterInv
      <4>2. \A k : keyFile # FileOf(k, TRUE)
        BY <4>1, FilesDiffer
      <4> QED
        BY <1>8, <3>1, <4>1, <4>2 DEF WriteKey, KeyInv, KeysSurvive, KeyTypeOK
    <3>2. CASE loadedIn[p] # epoch
      <4>1. \A k : keyFile = FileOf(k, TRUE) => keyFile' = keyFile
        BY <1>8, FilesDiffer DEF WriteKey
      <4>2. p # Service
        BY <1>8, <3>2 DEF WriteKey, KeyInv, WriterInv
      <4> QED
        BY <1>8, <3>2, <4>1, <4>2, KeyStoreAssumption DEF WriteKey, KeyInv, KeysSurvive,
            KeyTypeOK
    <3> QED
      BY <3>1, <3>2
  <2>6. HandlesAreFlushed'
    BY <1>8 DEF WriteKey, KeyInv, HandlesAreFlushed, KeyTypeOK
  <2> QED
    BY <2>1, <2>2, <2>3, <2>4, <2>5, <2>6 DEF KeyInv
<1>9. CASE Generated(p)
  BY <1>9 DEF Generated, KeyInv, KeyTypeOK, UseInv, WriterInv, EpochInv, KeysSurvive,
    HandlesAreFlushed, UsePC, Backend, Record
<1>10. CASE Signed(p)
  BY <1>10 DEF Signed, KeyInv, KeyTypeOK, UseInv, WriterInv, EpochInv, KeysSurvive,
    HandlesAreFlushed, UsePC, Backend, Record
<1>11. CASE CreatePrimary(p)
  <2>1. KeyTypeOK'
    BY <1>11 DEF CreatePrimary, KeyInv, KeyTypeOK, UsePC, Backend, Record, FileOf, WriterInv,
        EpochInv, UseInv
  <2>2. UseInv'
    BY <1>11 DEF CreatePrimary, KeyInv, UseInv, KeyTypeOK, WriterInv
  <2>3. WriterInv'
    BY <1>11 DEF CreatePrimary, KeyInv, WriterInv, UseInv, KeyTypeOK, EpochInv, FileOf
  <2>4. EpochInv'
    BY <1>11 DEF CreatePrimary, KeyInv, EpochInv, KeyTypeOK
  <2>5. KeysSurvive'
    BY <1>11 DEF CreatePrimary, KeyInv, KeysSurvive, UseInv, WriterInv, EpochInv, KeyTypeOK,
        FileOf, Record
  <2>6. HandlesAreFlushed'
    BY <1>11 DEF CreatePrimary, KeyInv, HandlesAreFlushed, KeyTypeOK
  <2> QED
    BY <2>1, <2>2, <2>3, <2>4, <2>5, <2>6 DEF KeyInv
<1>12. CASE TpmFails(p)
  BY <1>12 DEF TpmFails, KeyInv, KeyTypeOK, UseInv, WriterInv, EpochInv, KeysSurvive,
    HandlesAreFlushed, UsePC, Backend, Record
<1>13. CASE TpmGenerated(p)
  BY <1>13 DEF TpmGenerated, KeyInv, KeyTypeOK, UseInv, WriterInv, EpochInv, KeysSurvive,
    HandlesAreFlushed, UsePC, Backend, Record
<1>14. CASE TpmLoad(p)
  <2>1. KeyTypeOK'
    BY <1>14 DEF TpmLoad, KeyInv, KeyTypeOK, UsePC, Backend, Record, FileOf, WriterInv,
        EpochInv, UseInv
  <2>2. UseInv'
    BY <1>14 DEF TpmLoad, KeyInv, UseInv, KeyTypeOK, WriterInv
  <2>3. WriterInv'
    BY <1>14 DEF TpmLoad, KeyInv, WriterInv, UseInv, KeyTypeOK, EpochInv, FileOf
  <2>4. EpochInv'
    BY <1>14 DEF TpmLoad, KeyInv, EpochInv, KeyTypeOK
  <2>5. KeysSurvive'
    BY <1>14 DEF TpmLoad, KeyInv, KeysSurvive, UseInv, WriterInv, EpochInv, KeyTypeOK, FileOf,
        Record
  <2>6. HandlesAreFlushed'
    BY <1>14 DEF TpmLoad, KeyInv, HandlesAreFlushed, KeyTypeOK
  <2> QED
    BY <2>1, <2>2, <2>3, <2>4, <2>5, <2>6 DEF KeyInv
<1>15. CASE TpmSign(p)
  BY <1>15 DEF TpmSign, KeyInv, KeyTypeOK, UseInv, WriterInv, EpochInv, KeysSurvive,
    HandlesAreFlushed, UsePC, Backend, Record
<1>16. CASE TpmFlush(p)
  <2>1. KeyTypeOK'
    BY <1>16 DEF TpmFlush, KeyInv, KeyTypeOK, UsePC, Backend, Record, FileOf, WriterInv,
        EpochInv, UseInv, HandlesAreFlushed
  <2>2. UseInv'
    BY <1>16 DEF TpmFlush, KeyInv, UseInv, KeyTypeOK, WriterInv
  <2>3. WriterInv'
    BY <1>16 DEF TpmFlush, KeyInv, WriterInv, UseInv, KeyTypeOK, EpochInv, FileOf
  <2>4. EpochInv'
    BY <1>16 DEF TpmFlush, KeyInv, EpochInv, KeyTypeOK
  <2>5. KeysSurvive'
    BY <1>16 DEF TpmFlush, KeyInv, KeysSurvive, UseInv, WriterInv, EpochInv, KeyTypeOK, FileOf,
        Record
  <2>6. HandlesAreFlushed'
    BY <1>16 DEF TpmFlush, KeyInv, HandlesAreFlushed, KeyTypeOK
  <2> QED
    BY <2>1, <2>2, <2>3, <2>4, <2>5, <2>6 DEF KeyInv
<1>17. CASE StoreRecord(p)
  <2>1. KeyTypeOK'
    BY <1>17 DEF StoreRecord, KeyInv, KeyTypeOK, UsePC, Backend, Record, FileOf, WriterInv,
        EpochInv, UseInv
  <2>2. UseInv'
    BY <1>17 DEF StoreRecord, KeyInv, UseInv, KeyTypeOK, WriterInv
  <2>3. WriterInv'
    BY <1>17 DEF StoreRecord, KeyInv, WriterInv, UseInv, KeyTypeOK, EpochInv, FileOf
  <2>4. EpochInv'
    BY <1>17 DEF StoreRecord, KeyInv, EpochInv, KeyTypeOK
  <2>5. KeysSurvive'
    BY <1>17 DEF StoreRecord, KeyInv, KeysSurvive, UseInv, WriterInv, EpochInv, KeyTypeOK,
        FileOf, Record
  <2>6. HandlesAreFlushed'
    BY <1>17 DEF StoreRecord, KeyInv, HandlesAreFlushed, KeyTypeOK
  <2> QED
    BY <2>1, <2>2, <2>3, <2>4, <2>5, <2>6 DEF KeyInv
<1>18. CASE StoreFails(p)
  BY <1>18 DEF StoreFails, KeyInv, KeyTypeOK, UseInv, WriterInv, EpochInv, KeysSurvive,
    HandlesAreFlushed, UsePC, Backend, Record
<1>19. CASE ResetRecords
  BY <1>19 DEF ResetRecords, KeyInv, KeyTypeOK, UseInv, WriterInv, EpochInv, KeysSurvive,
    HandlesAreFlushed, UsePC, Backend, Record
<1>20. CASE DestroyAll
  <2>1. KeyTypeOK'
    BY <1>20 DEF DestroyAll, KeyInv, KeyTypeOK, UsePC, Backend, Record, FileOf, WriterInv,
        EpochInv, UseInv
  <2>2. UseInv'
    BY <1>20 DEF DestroyAll, KeyInv, UseInv, KeyTypeOK, WriterInv
  <2>3. WriterInv'
    BY <1>20 DEF DestroyAll, KeyInv, WriterInv, UseInv, KeyTypeOK, EpochInv, FileOf
  <2>4. EpochInv'
    BY <1>20 DEF DestroyAll, KeyInv, EpochInv, KeyTypeOK, Record
  <2>5. KeysSurvive'
    BY <1>20 DEF DestroyAll, KeyInv, KeysSurvive, UseInv, WriterInv, EpochInv, KeyTypeOK,
        FileOf, Record
  <2>6. HandlesAreFlushed'
    BY <1>20 DEF DestroyAll, KeyInv, HandlesAreFlushed, KeyTypeOK
  <2> QED
    BY <2>1, <2>2, <2>3, <2>4, <2>5, <2>6 DEF KeyInv
<1> QED
  BY <1>1, <1>2, <1>3, <1>4, <1>5, <1>6, <1>7, <1>8, <1>9, <1>10, <1>11, <1>12, <1>13, <1>14,
      <1>15, <1>16, <1>17, <1>18, <1>19, <1>20
  DEF KeyStoreStep, Software, Tpm
(* The other things that happen to a process keep the invariant, too: it   *)
(* makes its key store, it is asked for an operation, it ends.             *)
LEMMA CreateKeystoreKeyInv ==
  ASSUME NEW p \in Proc, NEW kind \in Kinds, KeyInv, CreateKeystore(p, kind)
  PROVE  KeyInv'
BY DEF CreateKeystore, Kinds, KeyInv, KeyTypeOK, UseInv, WriterInv, EpochInv, KeysSurvive,
    HandlesAreFlushed, Backend

(* An operation that is asked for has not touched a key yet.               *)
LEMMA AskKeyInv ==
  ASSUME NEW p \in Proc, NEW operation \in {"generate", "sign", "reset"}, KeyInv,
         Ask(p, operation)
  PROVE  KeyInv'
<1> USE DEF Ask, To, KeyInv
<1>1. KeyTypeOK'
  BY DEF KeyTypeOK, UsePC
<1>2. UseInv'
  BY DEF UseInv, KeyTypeOK, Backend
<1>3. WriterInv'
  BY DEF WriterInv, KeyTypeOK
<1>4. EpochInv'
  BY DEF EpochInv, KeyTypeOK
<1>5. KeysSurvive'
  BY DEF KeysSurvive
<1>6. HandlesAreFlushed'
  BY DEF HandlesAreFlushed, KeyTypeOK
<1> QED
  BY <1>1, <1>2, <1>3, <1>4, <1>5, <1>6

(* A process that ends takes its copies and its handles with it.           *)
LEMMA ProcessEndsKeyInv ==
  ASSUME NEW p \in Proc, KeyInv, ProcessEnds(p)
  PROVE  KeyInv'
<1> USE KeyStoreAssumption DEF ProcessEnds, To, KeyInv, NoKey
<1>1. KeyTypeOK'
  BY DEF KeyTypeOK, UsePC, Backend
<1>2. UseInv'
  BY DEF UseInv, KeyTypeOK
<1>3. WriterInv'
  BY DEF WriterInv, KeyTypeOK
<1>4. EpochInv'
  BY DEF EpochInv, KeyTypeOK
<1>5. KeysSurvive'
  BY DEF KeysSurvive, KeyTypeOK
<1>6. HandlesAreFlushed'
  BY DEF HandlesAreFlushed, KeyTypeOK
<1> QED
  BY <1>1, <1>2, <1>3, <1>4, <1>5, <1>6

(* Steps that are no business of the key stores.                           *)
LEMMA QuietKeyInv == KeyInv /\ UNCHANGED keyVars => KeyInv'
BY DEF keyVars, procVars, KeyInv, KeyTypeOK, UseInv, WriterInv, EpochInv, KeysSurvive,
    HandlesAreFlushed

(* A key store writes records of its own backend.                          *)
LEMMA KeyStoreStepOneBackend ==
  ASSUME NEW p \in Proc, KeyInv, OneBackend, KeyStoreStep(p), stateFile' = stateFile
  PROVE  OneBackend'
<1>1. backend' = backend
  BY DEF KeyStoreStep, Software, Tpm, LoadCached, ReadKey, ReadShort, ReadMisses, CreateKey,
      CreateExists, WriteKeyFails, WriteKey, Generated, Signed, CreatePrimary, TpmFails,
      TpmGenerated, TpmLoad, TpmSign, TpmFlush, StoreRecord, StoreFails, ResetRecords, DestroyAll
<1>2. CASE StoreRecord(p)
  <2>1. backend[p] \in {"software", "tpm"} /\ backend[p] = stateFile
    BY <1>2 DEF StoreRecord, KeyInv, UseInv, KeyTypeOK, Backend, OneBackend
  <2>2. cached[p] = NoKey <=> backend[p] = "tpm"
    BY <1>2, <2>1 DEF StoreRecord, KeyInv, UseInv
  <2> QED
    BY <1>1, <1>2, <2>1, <2>2 DEF StoreRecord, OneBackend
<1>3. CASE records' \subseteq records
  BY <1>1, <1>3 DEF OneBackend
<1> QED
  BY <1>2, <1>3 DEF KeyStoreStep, Software, Tpm, LoadCached, ReadKey, ReadShort, ReadMisses,
      CreateKey, CreateExists, WriteKeyFails, WriteKey, Generated, Signed, CreatePrimary,
      TpmFails, TpmGenerated, TpmLoad, TpmSign, TpmFlush, StoreFails, ResetRecords, DestroyAll
-----------------------------------------------------------------------------
(* Signals and UHidDevice.close *)

(* What is below the running activation.                                   *)
LEMMA BelowTop ==
  ASSUME NEW S, NEW s \in Seq(S), s # <<>>
  PROVE  LET below == SubSeq(s, 1, Len(s) - 1) IN
         /\ Len(s) \in Nat \ {0}
         /\ below \in Seq(S) /\ Len(below) = Len(s) - 1
         /\ \A i \in 1..(Len(s) - 1) : below[i] = s[i]
<1>1. Len(s) \in Nat /\ s \in [1..Len(s) -> S]
  BY LenProperties
<1>2. PICK n \in Nat : n = Len(s)
  BY <1>1
<1>3. n # 0
  BY <1>2, EmptySeq
<1>4. \A i \in 1..(n - 1) : s[i] \in S
  BY <1>1, <1>2
<1>5. 1 \in Int /\ n - 1 \in Int /\ (n - 1) - 1 + 1 = n - 1
  OBVIOUS
<1> DEFINE b == SubSeq(s, 1, n - 1)
<1>6. /\ b \in Seq(S)
      /\ Len(b) = IF 1 <= n - 1 THEN (n - 1) - 1 + 1 ELSE 0
      /\ \A i \in 1..((n - 1) - 1 + 1) : b[i] = s[1 + i - 1]
  BY ONLY <1>4, <1>5, SubSeqProperties
<1> HIDE DEF b
<1>7. Len(b) = n - 1
  BY <1>3, <1>6
<1>8. ASSUME NEW i \in 1..(n - 1) PROVE b[i] = s[i]
  <2>1. i \in 1..((n - 1) - 1 + 1) /\ 1 + i - 1 = i
    OBVIOUS
  <2> QED
    BY <1>6, <2>1
<1> QED
  BY <1>2, <1>3, <1>6, <1>7, <1>8 DEF b

(* Another activation in the place of the running one.                     *)
LEMMA TopReplaced ==
  ASSUME NEW S, NEW s \in Seq(S), s # <<>>, NEW x \in S
  PROVE  LET t == Append(SubSeq(s, 1, Len(s) - 1), x) IN
         /\ t \in Seq(S) /\ Len(t) = Len(s) /\ t # <<>>
         /\ t[Len(s)] = x
         /\ \A i \in 1..(Len(s) - 1) : t[i] = s[i]
<1>1. /\ Len(s) \in Nat \ {0}
      /\ SubSeq(s, 1, Len(s) - 1) \in Seq(S) /\ Len(SubSeq(s, 1, Len(s) - 1)) = Len(s) - 1
      /\ \A i \in 1..(Len(s) - 1) : SubSeq(s, 1, Len(s) - 1)[i] = s[i]
  BY BelowTop
<1> DEFINE b == SubSeq(s, 1, Len(s) - 1)
<1>2. b \in Seq(S) /\ x \in S
  BY <1>1
<1> HIDE DEF b
<1>3. /\ Append(b, x) \in Seq(S) /\ Append(b, x) # <<>>
      /\ Len(Append(b, x)) = Len(b) + 1
      /\ \A i \in 1..Len(b) : Append(b, x)[i] = b[i]
      /\ Append(b, x)[Len(b) + 1] = x
  BY ONLY <1>2, AppendProperties
<1> QED
  BY <1>1, <1>3 DEF b

(* What one step of an activation does to the descriptor.                  *)
Activation == {"capture", "destroy", "close"}

(* The running activation and the ones below it.                           *)
LEMMA TopIsAnActivation ==
  ASSUME ServiceInv, frames # <<>>
  PROVE  /\ Len(frames) \in Nat \ {0} /\ Top \in Activation
         /\ Below \in Seq(Activation) /\ Len(Below) = Len(frames) - 1
         /\ \A i \in 1..(Len(frames) - 1) : Below[i] = frames[i]
<1>1. frames \in Seq(Activation)
  BY DEF ServiceInv, ServiceTypeOK, Activation
<1> QED
  BY <1>1, BelowTop, ElementOfSeq DEF Top, Below

(* An activation that returns without the descriptor, or has closed it.    *)
LEMMA ReturnIsSafe ==
  ASSUME ServiceInv, frames # <<>>, Return, devFd' \in {devFd, "closed"}, selfFd' = FALSE,
         devFd' = devFd \/ Holds(Len(frames))
  PROVE  CloseInv' /\ ClosesItsOwn' /\ frames' \in Seq(Activation)
<1>1. /\ Len(frames) \in Nat \ {0} /\ Below \in Seq(Activation) /\ Len(Below) = Len(frames) - 1
      /\ \A i \in 1..(Len(frames) - 1) : Below[i] = frames[i]
  BY TopIsAnActivation
<1>2. frames' = Below /\ Len(frames') = Len(frames) - 1 /\ Len(frames') \in Nat
  BY <1>1 DEF Return
<1>3. \A i \in 1..Len(frames') :
        i \in 1..Len(frames) /\ i # Len(frames) /\ frames'[i] = frames[i]
  BY <1>1, <1>2
<1>4. at'[Service] \in {"off", "opening", "exiting"} => frames' = <<>>
  BY KeyStoreAssumption, <1>2 DEF ServiceInv, ServiceTypeOK, CloseInv, Return
<1>5. \A i \in 1..Len(frames') : Holds(i) => devFd' = devFd /\ devFd = "open"
  BY <1>1, <1>3 DEF ServiceInv, CloseInv, ClosesItsOwn, Holds
<1>6. \A i, j \in 1..Len(frames') : Holds(i)' /\ Holds(j)' => i = j
  BY <1>3 DEF ServiceInv, CloseInv, Holds
<1> QED
  BY <1>1, <1>2, <1>3, <1>4, <1>5, <1>6 DEF CloseInv, ClosesItsOwn, Holds

(* Every step of close(), whoever runs it and whatever it interrupts.      *)
LEMMA CloseStepIsSafe ==
  ASSUME ServiceInv, Capture \/ Destroy \/ Close
  PROVE  CloseInv' /\ ClosesItsOwn' /\ frames' \in Seq(Activation)
<1>1. /\ frames # <<>> /\ frames \in Seq(Activation) /\ Len(frames) \in Nat \ {0}
      /\ Top = frames[Len(frames)] /\ Len(frames) \in 1..Len(frames)
  BY TopIsAnActivation DEF ServiceInv, ServiceTypeOK, Activation, Capture, Destroy, Close, Top
<1>2. CASE (Capture /\ ~selfFd) \/ Close
  <2>1. Return /\ devFd' \in {devFd, "closed"} /\ (devFd' = devFd \/ Holds(Len(frames)))
    BY <1>1, <1>2 DEF Capture, Close, Holds
  <2>2. selfFd' = FALSE
    BY <1>1, <1>2 DEF Capture, Close, ServiceInv, CloseInv, Holds, ServiceTypeOK
  <2> QED
    BY <1>1, <2>1, <2>2, ReturnIsSafe
<1>3. CASE (Capture /\ selfFd) \/ Destroy
  <2>1. \E x \in {"destroy", "close"} : frames' = Append(Below, x)
    BY <1>3 DEF Capture, Destroy
  <2>2. /\ frames' \in Seq(Activation) /\ Len(frames') = Len(frames) /\ frames' # <<>>
        /\ frames'[Len(frames)] \in {"destroy", "close"}
        /\ \A i \in 1..(Len(frames) - 1) : frames'[i] = frames[i]
    BY <1>1, <2>1, TopReplaced DEF Below, Activation
  <2>3. devFd' = devFd /\ devFd = "open" /\ selfFd' = FALSE /\ at' = at
    BY <1>1, <1>3 DEF Capture, Destroy, ServiceInv, CloseInv, ClosesItsOwn, Holds, ServiceTypeOK
  <2>4. \A i \in 1..(Len(frames) - 1) : ~Holds(i)
    BY <1>1, <1>3 DEF Capture, Destroy, ServiceInv, CloseInv, Holds
  <2>5. \A i \in 1..Len(frames') : Holds(i)' => i = Len(frames)
    BY <1>1, <2>2, <2>4 DEF Holds
  <2>6. at'[Service] \notin {"off", "opening", "exiting"}
    BY <1>1, <2>3 DEF ServiceInv, CloseInv
  <2> QED
    BY <2>2, <2>3, <2>5, <2>6 DEF CloseInv, ClosesItsOwn
<1> QED
  BY <1>2, <1>3 DEF ServiceTypeOK, ServiceInv
-----------------------------------------------------------------------------
(* The steps of the service *)

(* Nothing runs and nothing is stored.                                     *)
LEMMA ServiceInitInv == ServiceInit => ServiceInv
<1> SUFFICES ASSUME ServiceInit PROVE ServiceInv
  OBVIOUS
<1>1. KeyInv /\ KeyTypeOK
  BY KeyInitKeyInv DEF ServiceInit, KeyInv
<1>2. ServiceTypeOK
  <2>1. frames \in Seq({"capture", "destroy", "close"})
    BY DEF ServiceInit
  <2>2. signals \in 0..MaxSignals
    BY ServiceAssumption DEF ServiceInit
  <2> QED
    BY <1>1, <2>1, <2>2 DEF ServiceInit, ServiceTypeOK, MainPC
<1>3. InitInv
  BY DEF ServiceInit, InitInv, Kinds
<1>4. CloseInv /\ ClosesItsOwn
  BY DEF ServiceInit, CloseInv, ClosesItsOwn
<1>5. OneBackend
  BY DEF ServiceInit, KeyInit, OneBackend
<1> QED
  BY <1>1, <1>2, <1>3, <1>4, <1>5 DEF ServiceInv

(* The parts of the invariant that a step has no business with.            *)
LEMMA QuietDevice ==
  CloseInv /\ ClosesItsOwn /\ UNCHANGED <<at, deviceVars>> => CloseInv' /\ ClosesItsOwn'
BY DEF deviceVars, CloseInv, ClosesItsOwn, Holds

(* Steps that no init takes.                                               *)
LEMMA QuietInits == InitInv /\ UNCHANGED <<stateFile, init>> => InitInv'
BY DEF InitInv

(* A process that ends.                                                    *)
LEMMA LeavesServiceInv ==
  ASSUME NEW p \in Proc, ServiceInv, Leaves(p)
  PROVE  ServiceInv'
<1>1. KeyInv' /\ KeyTypeOK'
  BY ProcessEndsKeyInv DEF ServiceInv, Leaves, KeyInv
<1>2. ServiceTypeOK'
  <2>1. frames' \in Seq({"capture", "destroy", "close"}) /\ signals' \in 0..MaxSignals
    <3>1. CASE p = Service
      BY <3>1, ServiceAssumption DEF Leaves
    <3>2. CASE p # Service
      BY <3>2 DEF Leaves, deviceVars, ServiceInv, ServiceTypeOK
    <3> QED
      BY <3>1, <3>2
  <2> QED
    BY <1>1, <2>1 DEF ServiceInv, Leaves, ServiceTypeOK, GoTo, MainPC, deviceVars
<1>3. InitInv'
  BY QuietInits DEF ServiceInv, Leaves
<1>4. OneBackend'
  BY DEF ServiceInv, Leaves, ProcessEnds, OneBackend, KeyInv, KeyTypeOK
<1>5. CloseInv' /\ ClosesItsOwn'
  <2>1. CASE p = Service
    BY <2>1 DEF Leaves, CloseInv, ClosesItsOwn, Holds
  <2>2. CASE p # Service
    BY <2>2, KeyStoreAssumption
    DEF Leaves, GoTo, deviceVars, ServiceInv, ServiceTypeOK, CloseInv, ClosesItsOwn, Holds
  <2> QED
    BY <2>1, <2>2
<1> QED
  BY <1>1, <1>2, <1>3, <1>4, <1>5 DEF ServiceInv

(* Every step keeps the invariant.                                         *)
LEMMA ServiceStepInv == ServiceInv /\ [ServiceNext]_allVars => ServiceInv'
<1> SUFFICES ASSUME ServiceInv, [ServiceNext]_allVars PROVE ServiceInv'
  OBVIOUS
<1>1. ASSUME NEW p \in Proc, Killed(p) \/ CommandEnds(p) PROVE ServiceInv'
  BY <1>1, LeavesServiceInv DEF Killed, CommandEnds
<1>2. CASE OpenFails \/ ExitService
  BY <1>2, KeyStoreAssumption, LeavesServiceInv DEF OpenFails, ExitService
<1>3. ASSUME NEW p \in Proc, Start(p) PROVE ServiceInv'
  <2>1. stateFile \in Kinds /\ CreateKeystore(p, stateFile)
    BY <1>3 DEF Start
  <2>2. KeyInv' /\ KeyTypeOK'
    BY <2>1, CreateKeystoreKeyInv DEF ServiceInv, KeyInv
  <2>3. ServiceTypeOK'
    BY <1>3, <2>2 DEF Start, GoTo, deviceVars, ServiceInv, ServiceTypeOK, MainPC
  <2>4. InitInv'
    BY <1>3, QuietInits DEF Start, ServiceInv
  <2>5. OneBackend'
    BY <1>3, <2>1 DEF Start, CreateKeystore, ServiceInv, OneBackend, KeyInv, KeyTypeOK
  <2>6. CloseInv' /\ ClosesItsOwn'
    BY <1>3, KeyStoreAssumption
    DEF Start, GoTo, deviceVars, ServiceInv, ServiceTypeOK, CloseInv, ClosesItsOwn, Holds
  <2> QED
    BY <2>2, <2>3, <2>4, <2>5, <2>6 DEF ServiceInv
<1>4. ASSUME NEW p \in Proc, RunCommand(p) \/ (p = Service /\ FeedStartsWorker) PROVE ServiceInv'
  <2>1. \E operation \in {"generate", "sign", "reset"} : Ask(p, operation)
    BY <1>4 DEF RunCommand, FeedStartsWorker
  <2>2. KeyInv' /\ KeyTypeOK'
    BY <2>1, AskKeyInv DEF ServiceInv, KeyInv
  <2>3. ServiceTypeOK'
    BY <1>4, <2>2 DEF RunCommand, FeedStartsWorker, GoTo, deviceVars, ServiceInv, ServiceTypeOK,
        MainPC
  <2>4. InitInv'
    BY <1>4, QuietInits DEF RunCommand, FeedStartsWorker, ServiceInv
  <2>5. OneBackend'
    BY <1>4, <2>1 DEF RunCommand, FeedStartsWorker, Ask, ServiceInv, OneBackend
  <2>6. CloseInv' /\ ClosesItsOwn'
    BY <1>4, KeyStoreAssumption
    DEF RunCommand, FeedStartsWorker, GoTo, deviceVars, ServiceInv, ServiceTypeOK, CloseInv,
        ClosesItsOwn, Holds
  <2> QED
    BY <2>2, <2>3, <2>4, <2>5, <2>6 DEF ServiceInv
<1>5. ASSUME NEW p \in Proc, KeyStoreWork(p) PROVE ServiceInv'
  <2>1. KeyInv' /\ KeyTypeOK'
    BY <1>5, KeyStoreStepKeyInv DEF KeyStoreWork, ServiceInv, KeyInv
  <2>2. OneBackend'
    BY <1>5, KeyStoreStepOneBackend DEF KeyStoreWork, serviceVars, ServiceInv
  <2>3. ServiceTypeOK'
    BY <1>5, <2>1 DEF KeyStoreWork, serviceVars, ServiceInv, ServiceTypeOK
  <2>4. InitInv' /\ CloseInv' /\ ClosesItsOwn'
    BY <1>5, QuietInits, QuietDevice DEF KeyStoreWork, serviceVars, deviceVars, ServiceInv
  <2> QED
    BY <2>1, <2>2, <2>3, <2>4 DEF ServiceInv
<1>6. ASSUME NEW i \in Setup, InitStep(i) PROVE ServiceInv'
  <2> USE DEF StartInit, InitCreates, InitDies, InitWrites
  <2>1. KeyInv' /\ KeyTypeOK'
    BY <1>6, QuietKeyInv DEF InitStep, ServiceInv, KeyInv
  <2>2. ServiceTypeOK'
    BY <1>6, <2>1 DEF InitStep, deviceVars, ServiceInv, ServiceTypeOK, Kinds
  <2>3. InitInv'
    BY <1>6, ServiceAssumption DEF InitStep, ServiceInv, ServiceTypeOK, InitInv, Kinds
  <2>4. OneBackend'
    BY <1>6, ServiceAssumption
    DEF InitStep, keyVars, procVars, ServiceInv, ServiceTypeOK, InitInv, OneBackend, Kinds,
        KeyInv, KeyTypeOK, Backend
  <2>5. CloseInv' /\ ClosesItsOwn'
    BY <1>6, QuietDevice DEF InitStep, ServiceInv
  <2> QED
    BY <2>1, <2>2, <2>3, <2>4, <2>5 DEF ServiceInv
<1>7. CASE \/ OpenDevice \/ SendSignal \/ HandleSignal
           \/ \E label \in MainPC \ {"off", "opening", "exiting"} : frames = <<>> /\ Goes(label)
  <2>1. UNCHANGED <<keyVars, stateFile, init>>
    BY <1>7 DEF OpenDevice, SendSignal, HandleSignal, Goes
  <2>2. KeyInv' /\ KeyTypeOK' /\ InitInv' /\ OneBackend'
    BY <2>1, QuietKeyInv, QuietInits DEF ServiceInv, KeyInv, OneBackend, keyVars, procVars
  <2>3. CASE OpenDevice
    BY <2>1, <2>2, <2>3, KeyStoreAssumption
    DEF OpenDevice, GoTo, ServiceInv, ServiceTypeOK, MainPC, CloseInv, ClosesItsOwn, Holds
  <2>4. CASE SendSignal
    BY <2>1, <2>2, <2>4, ServiceAssumption
    DEF SendSignal, ServiceInv, ServiceTypeOK, CloseInv, ClosesItsOwn, Holds
  <2>5. CASE HandleSignal
    <3>1. /\ frames' \in Seq(Activation) /\ Len(frames) \in Nat /\ Len(frames') = Len(frames) + 1
          /\ frames'[Len(frames) + 1] = "capture"
          /\ \A i \in 1..Len(frames) : frames'[i] = frames[i]
      BY <2>5, AppendProperties, LenProperties
      DEF HandleSignal, Activation, ServiceInv, ServiceTypeOK
    <3>2. \A i \in 1..Len(frames') : Holds(i)' => i \in 1..Len(frames) /\ Holds(i)
      BY <3>1 DEF Holds
    <3>3. ServiceTypeOK'
      BY <2>1, <2>2, <2>5, <3>1 DEF HandleSignal, ServiceInv, ServiceTypeOK, Activation
    <3>4. CloseInv' /\ ClosesItsOwn'
      BY <2>5, <3>2 DEF HandleSignal, Running, ServiceInv, CloseInv, ClosesItsOwn, Holds
    <3> QED
      BY <2>2, <3>3, <3>4 DEF ServiceInv
  <2>6. ASSUME NEW label \in MainPC \ {"off", "opening", "exiting"}, frames = <<>>, Goes(label)
        PROVE  ServiceInv'
    <3>1. frames = <<>> /\ frames' \in {<<>>, <<"capture">>} /\ at'[Service] = label
      BY <2>6, KeyStoreAssumption DEF Goes, GoTo, ServiceInv, ServiceTypeOK
    <3>2. \A i \in 1..Len(frames') : ~Holds(i)'
      BY <3>1 DEF Holds
    <3>3. <<>> \in Seq(Activation) /\ <<"capture">> \in Seq(Activation)
      BY DEF Activation
    <3>4. frames' \in Seq(Activation)
      BY <3>1, <3>3
    <3>5. ServiceTypeOK'
      BY <2>1, <2>2, <2>6, <3>4 DEF Goes, GoTo, ServiceInv, ServiceTypeOK, Activation
    <3>6. CloseInv' /\ ClosesItsOwn'
      BY <2>6, <3>1, <3>2 DEF Goes, ServiceInv, CloseInv, ClosesItsOwn, Holds
    <3> QED
      BY <2>2, <3>5, <3>6 DEF ServiceInv
  <2> QED
    BY <1>7, <2>3, <2>4, <2>5, <2>6
<1>8. CASE Capture \/ Destroy \/ Close
  <2>1. UNCHANGED <<keyVars, stateFile, init>>
    BY <1>8 DEF Capture, Destroy, Close
  <2>2. KeyInv' /\ KeyTypeOK' /\ InitInv' /\ OneBackend'
    BY <2>1, QuietKeyInv, QuietInits DEF ServiceInv, KeyInv, OneBackend, keyVars, procVars
  <2>3. CloseInv' /\ ClosesItsOwn' /\ frames' \in Seq(Activation)
    BY <1>8, CloseStepIsSafe
  <2>4. ServiceTypeOK'
    BY <1>8, <2>1, <2>2, <2>3
    DEF Capture, Destroy, Close, Return, ServiceInv, ServiceTypeOK, Activation, MainPC
  <2> QED
    BY <2>2, <2>3, <2>4 DEF ServiceInv
<1>9. CASE CheckFlag \/ EnterRead \/ Blocks \/ ReadFails \/ FeedAnswers \/ EventArrives
  BY <1>7, <1>9 DEF CheckFlag, EnterRead, Blocks, ReadFails, FeedAnswers, EventArrives, Main,
      MainPC
<1>10. CASE UNCHANGED allVars
  BY <1>10, QuietKeyInv, QuietInits, QuietDevice
  DEF allVars, serviceVars, deviceVars, keyVars, procVars, ServiceInv, ServiceTypeOK, KeyInv,
      OneBackend
<1> QED
  BY <1>1, <1>2, <1>3, <1>4, <1>5, <1>6, <1>7, <1>8, <1>9, <1>10, KeyStoreAssumption
  DEF ServiceNext, CommandStep, MainStep

-----------------------------------------------------------------------------
(* The list that "howdy remove" keeps, which is defined by recursion over  *)
(* the models: facts about it are proved by looking at the first length    *)
(* for which they fail. *)

(* A set of numbers that is not empty has a least one.                     *)
LEMMA LeastOf ==
  ASSUME NEW T \in SUBSET Nat, T # {}
  PROVE  \E n \in T : \A m \in T : n <= m
<1> DEFINE R == {p \in Nat \X Nat : p[1] < p[2]}
<1>1. IsWellFoundedOn(R, Nat)
  BY NatLessThanWellFounded DEF OpToRel
<1>2. \E n \in T : \A m \in T : ~ (<<m, n>> \in R)
  <2> HIDE DEF R
  <2> QED
    BY <1>1, WFMin
<1>3. PICK n \in T : \A m \in T : ~ (<<m, n>> \in R)
  BY <1>2
<1>4. ASSUME NEW m \in T PROVE n <= m
  <2>1. ~ (m < n) /\ m \in Nat /\ n \in Nat
    BY <1>3
  <2> QED
    BY <2>1
<1> QED
  BY <1>4

(* Ids and scans increase along the list.                                  *)
Ordered(s) == \A i, j \in 1..Len(s) : i < j => s[i].id < s[j].id /\ s[i].scan < s[j].scan

(* One step of the loop of remove.py.                                      *)
Looked(f, models, id, n) ==
  IF n = 0 THEN <<>>
  ELSE IF models[n].id = id THEN f[n - 1]
  ELSE Append(f[n - 1], models[n])

(* The list that remains after the first m models.                         *)
IsRemaining(f, models, id, m) ==
  f = [n \in 0..m |-> Looked(f, models, id, n)]

(* The recursive definition has a solution, because each of its values     *)
(* needs the one before only.                                              *)
LEMMA RemainingExists ==
  ASSUME NEW models, NEW id, NEW m \in Nat
  PROVE  \E f : IsRemaining(f, models, id, m)
<1> DEFINE T == {n \in Nat : ~ \E f : IsRemaining(f, models, id, n)}
<1>1. SUFFICES T = {}
  OBVIOUS
<1>2. SUFFICES ASSUME NEW n \in T, \A k \in T : n <= k PROVE FALSE
  BY LeastOf
<1>3. CASE n = 0
  <2> DEFINE f == [k \in 0..0 |-> <<>>]
  <2>1. IsRemaining(f, models, id, 0)
    BY DEF IsRemaining, Looked
  <2> QED
    BY <1>3, <2>1
<1>4. CASE n # 0
  <2>1. n - 1 \in Nat /\ n - 1 \notin T
    BY <1>2, <1>4
  <2>2. PICK f : IsRemaining(f, models, id, n - 1)
    BY <2>1
  <2> DEFINE g == [k \in 0..n |-> IF k < n THEN f[k] ELSE Looked(f, models, id, n)]
  <2>3. \A k \in 0..n : g[k] = Looked(g, models, id, k)
    <3>1. ASSUME NEW k \in 0..n, k < n PROVE g[k] = Looked(g, models, id, k)
      <4>1. g[k] = Looked(f, models, id, k)
        BY <2>2, <3>1 DEF IsRemaining
      <4>2. k # 0 => g[k - 1] = f[k - 1]
        BY <3>1
      <4> QED
        BY <4>1, <4>2 DEF Looked
    <3>2. g[n] = Looked(f, models, id, n) /\ g[n - 1] = f[n - 1]
      BY <1>4
    <3> QED
      BY <1>4, <3>1, <3>2 DEF Looked
  <2>4. IsRemaining(g, models, id, n)
    BY <2>3 DEF IsRemaining
  <2> QED
    BY <2>4
<1> QED
  BY <1>3, <1>4

(* What has been kept of the first n models.                               *)
Keeps(rest, models, id, n) ==
  /\ rest \in Seq(Model) /\ Ordered(rest)
  /\ \A k \in 1..Len(rest) : \E i \in 1..n : rest[k] = models[i] /\ models[i].id # id
  /\ \A i \in 1..n : models[i].id # id => \E k \in 1..Len(rest) : rest[k] = models[i]

(* One more model is kept.                                                 *)
LEMMA KeepsOneMore ==
  ASSUME NEW models \in Seq(Model), Ordered(models), NEW id, NEW n \in 1..Len(models),
         NEW rest, Keeps(rest, models, id, n - 1), models[n].id # id
  PROVE  Keeps(Append(rest, models[n]), models, id, n)
<1> DEFINE more == Append(rest, models[n])
<1>1. models[n] \in Model /\ Len(models) \in Nat /\ rest \in Seq(Model) /\ Len(rest) \in Nat
  BY ElementOfSeq, LenProperties DEF Keeps
<1>2. /\ more \in Seq(Model) /\ Len(more) = Len(rest) + 1 /\ more[Len(rest) + 1] = models[n]
      /\ \A k \in 1..Len(rest) : more[k] = rest[k]
  BY <1>1, AppendProperties
<1> HIDE DEF more
<1>3. ASSUME NEW k \in 1..Len(rest)
      PROVE  more[k].id < models[n].id /\ more[k].scan < models[n].scan
  <2>1. PICK i \in 1..(n - 1) : rest[k] = models[i]
    BY DEF Keeps
  <2>2. i \in 1..Len(models) /\ i < n
    BY <1>1
  <2> QED
    BY <1>2, <2>1, <2>2 DEF Ordered
<1>4. Ordered(more)
  <2>1. Ordered(rest)
    BY DEF Keeps
  <2> SUFFICES ASSUME NEW i \in 1..Len(more), NEW j \in 1..Len(more), i < j
               PROVE  more[i].id < more[j].id /\ more[i].scan < more[j].scan
    BY DEF Ordered
  <2>2. i \in 1..Len(rest) /\ (j \in 1..Len(rest) \/ j = Len(rest) + 1)
    BY <1>1, <1>2
  <2> QED
    BY <1>2, <1>3, <2>1, <2>2 DEF Ordered
<1>5. ASSUME NEW k \in 1..Len(more)
      PROVE  \E i \in 1..n : more[k] = models[i] /\ models[i].id # id
  <2>1. CASE k = Len(rest) + 1
    BY <1>2, <2>1
  <2>2. CASE k \in 1..Len(rest)
    <3>1. PICK i \in 1..(n - 1) : rest[k] = models[i] /\ models[i].id # id
      BY <2>2 DEF Keeps
    <3> QED
      BY <1>2, <2>2, <3>1
  <2> QED
    BY <1>1, <1>2, <2>1, <2>2
<1>6. ASSUME NEW i \in 1..n, models[i].id # id
      PROVE  \E k \in 1..Len(more) : more[k] = models[i]
  <2>1. CASE i = n
    BY <1>1, <1>2, <2>1
  <2>2. CASE i \in 1..(n - 1)
    <3>1. PICK k \in 1..Len(rest) : rest[k] = models[i]
      BY <1>6, <2>2 DEF Keeps
    <3>2. k \in 1..Len(more)
      BY <1>1, <1>2
    <3> QED
      BY <1>2, <3>1, <3>2
  <2> QED
    BY <2>1, <2>2
<1> QED
  BY <1>2, <1>4, <1>5, <1>6 DEF Keeps, more

(* "howdy remove" keeps the models with other ids, and their order.        *)
LEMMA WithoutKeeps ==
  ASSUME NEW models \in Seq(Model), Ordered(models), NEW id
  PROVE  Keeps(Without(models, id), models, id, Len(models))
<1>1. Len(models) \in Nat
  BY LenProperties
<1>2. PICK f : IsRemaining(f, models, id, Len(models)) /\ Without(models, id) = f[Len(models)]
  <2>1. PICK g : IsRemaining(g, models, id, Len(models))
    BY <1>1, RemainingExists
  <2> QED
    BY <2>1 DEF Without, IsRemaining, Looked
<1> DEFINE T == {n \in 0..Len(models) : ~Keeps(f[n], models, id, n)}
<1>3. SUFFICES T = {}
  BY <1>1, <1>2
<1>4. SUFFICES ASSUME NEW n \in T, \A k \in T : n <= k PROVE FALSE
  <2>1. T \in SUBSET Nat
    BY <1>1
  <2> HIDE DEF T
  <2> QED
    BY <2>1, LeastOf
<1>5. n \in Nat /\ f[n] = Looked(f, models, id, n)
  BY <1>1, <1>2 DEF IsRemaining
<1>6. CASE n = 0
  <2>1. f[n] = <<>>
    BY <1>5, <1>6 DEF Looked
  <2>2. <<>> \in Seq(Model) /\ Len(<<>>) = 0
    BY EmptySeq
  <2>3. Keeps(<<>>, models, id, 0)
    BY <2>2 DEF Keeps, Ordered
  <2> QED
    BY <1>4, <1>6, <2>1, <2>3
<1>7. CASE n # 0
  <2>1. n - 1 \in 0..Len(models) /\ n \in 1..Len(models) /\ Keeps(f[n - 1], models, id, n - 1)
    BY <1>1, <1>4, <1>5, <1>7
  <2>2. CASE models[n].id = id
    <3>1. f[n] = f[n - 1]
      BY <1>5, <1>7, <2>2 DEF Looked
    <3>2. \A i \in 1..n : i \in 1..(n - 1) \/ i = n
      BY <1>5
    <3>3. 1..(n - 1) \subseteq 1..n
      BY <1>5
    <3>4. Keeps(f[n], models, id, n)
      BY <2>1, <2>2, <3>1, <3>2, <3>3 DEF Keeps
    <3> QED
      BY <3>4
  <2>3. CASE models[n].id # id
    BY <1>5, <1>7, <2>1, <2>3, KeepsOneMore DEF Looked
  <2> QED
    BY <2>2, <2>3
<1> QED
  BY <1>6, <1>7

-----------------------------------------------------------------------------
(* The face model file: the inductive invariant. *)

(* A list that commands wrote, of scans that were taken.                   *)
Listed(s, n) ==
  /\ s \in Seq(Model) /\ Ordered(s)
  /\ \A i \in 1..Len(s) : s[i].scan \in 1..n

(* The file, when it can be read, holds what was asked for.                *)
FileInv ==
  /\ Stored => Listed(file, scans)
  /\ file # Torn => ScansIn(Models) = asked

(* The list p read; and, as long as nobody else changed the file, that it  *)
(* is the file, or was until p opened it for writing.                      *)
JobInv(p) ==
  /\ Listed(read[p], scans)
  /\ step[p] = "writing" => job[p] \in {"add", "remove"}
  /\ step[p] = "writing" /\ job[p] = "add" =>
       target[p] \in 1..scans /\ \A i \in 1..Len(read[p]) : read[p][i].scan < target[p]
  /\ job[p] = "remove" => \E i \in 1..Len(read[p]) : read[p][i].id = target[p]
  /\ alone[p] /\ job[p] \in {"add", "remove"} =>
       /\ step[p] = "waiting" => file # Torn /\ Models = read[p]
       /\ step[p] # "idle" => ScansIn(read[p]) = asked

ModelsInv == ModelsTypeOK /\ FileInv /\ \A p \in Runner : JobInv(p)

(* No models are a list.                                                   *)
LEMMA EmptyIsListed == \A n \in Nat : Listed(<<>>, n)
BY EmptySeq DEF Listed, Ordered

(* More scans were taken since.                                            *)
LEMMA ListedKept ==
  ASSUME NEW s, NEW n \in Nat, NEW m \in Nat, n <= m, Listed(s, n)
  PROVE  Listed(s, m)
BY DEF Listed

(* One model more, with the next id and a scan newer than all.             *)
LEMMA AddedIsListed ==
  ASSUME NEW s, NEW n \in Nat, Listed(s, n), NEW k \in 1..n,
         \A i \in 1..Len(s) : s[i].scan < k
  PROVE  LET more == Append(s, [id |-> NextId(s), scan |-> k]) IN
         Listed(more, n) /\ ScansIn(more) = ScansIn(s) \cup {k}
<1> DEFINE new == [id |-> NextId(s), scan |-> k]
           more == Append(s, new)
<1>1. s \in Seq(Model) /\ Len(s) \in Nat /\ (s # <<>> => Len(s) \in 1..Len(s))
  BY LenProperties, EmptySeq DEF Listed
<1>2. NextId(s) \in Nat /\ \A i \in 1..Len(s) : s[i].id < NextId(s)
  <2>1. CASE s = <<>>
    BY <2>1, EmptySeq DEF NextId
  <2>2. CASE s # <<>>
    <3>1. NextId(s) = s[Len(s)].id + 1 /\ s[Len(s)] \in Model
      BY <1>1, <2>2, ElementOfSeq DEF NextId, Last
    <3>2. ASSUME NEW i \in 1..Len(s) PROVE s[i].id <= s[Len(s)].id /\ s[i].id \in Nat
      <4>1. s[i] \in Model
        BY <1>1, ElementOfSeq
      <4>2. i = Len(s) \/ i < Len(s)
        BY <1>1
      <4> QED
        BY <1>1, <2>2, <3>1, <4>1, <4>2 DEF Listed, Ordered, Model
    <3> QED
      BY <3>1, <3>2 DEF Model
  <2> QED
    BY <2>1, <2>2
<1>3. new \in Model /\ new.id = NextId(s) /\ new.scan = k
  BY <1>2 DEF Model
<1> HIDE DEF new
<1>4. /\ more \in Seq(Model) /\ Len(more) = Len(s) + 1 /\ more[Len(s) + 1] = new
      /\ \A i \in 1..Len(s) : more[i] = s[i]
  BY <1>1, <1>3, AppendProperties
<1> HIDE DEF more
<1>5. Ordered(more)
  <2> SUFFICES ASSUME NEW i \in 1..Len(more), NEW j \in 1..Len(more), i < j
               PROVE  more[i].id < more[j].id /\ more[i].scan < more[j].scan
    BY DEF Ordered
  <2>1. i \in 1..Len(s) /\ (j \in 1..Len(s) \/ j = Len(s) + 1)
    BY <1>1, <1>4
  <2> QED
    BY <1>2, <1>3, <1>4, <2>1 DEF Listed, Ordered
<1>6. \A i \in 1..Len(more) : more[i].scan \in 1..n
  BY <1>1, <1>3, <1>4 DEF Listed
<1>7. ScansIn(more) = ScansIn(s) \cup {k}
  <2>1. DOMAIN more = DOMAIN s \cup {Len(s) + 1} /\ DOMAIN s = 1..Len(s)
    BY <1>1, <1>4, LenProperties
  <2> QED
    BY <1>3, <1>4, <2>1 DEF ScansIn
<1> QED
  BY <1>4, <1>5, <1>6, <1>7 DEF Listed, more, new

(* The models with other ids; the scans of those with the id are gone,     *)
(* since no two models have the same.                                      *)
LEMMA RemovedIsListed ==
  ASSUME NEW s, NEW n \in Nat, Listed(s, n), NEW id
  PROVE  /\ Listed(Without(s, id), n)
         /\ ScansIn(Without(s, id)) =
              ScansIn(s) \ {s[i].scan : i \in {j \in DOMAIN s : s[j].id = id}}
<1> DEFINE rest == Without(s, id)
<1>1. Keeps(rest, s, id, Len(s)) /\ s \in Seq(Model) /\ DOMAIN s = 1..Len(s)
  BY WithoutKeeps, LenProperties DEF Listed
<1> HIDE DEF rest
<1>2. rest \in Seq(Model) /\ Ordered(rest) /\ DOMAIN rest = 1..Len(rest)
  BY <1>1, LenProperties DEF Keeps
<1>3. \A k \in 1..Len(rest) : \E i \in 1..Len(s) : rest[k] = s[i] /\ s[i].id # id
  BY <1>1 DEF Keeps
<1>4. \A i \in 1..Len(s) : s[i].id # id => \E k \in 1..Len(rest) : rest[k] = s[i]
  BY <1>1 DEF Keeps
<1>5. Listed(rest, n)
  BY <1>2, <1>3 DEF Listed
<1>6. \A i, j \in 1..Len(s) : s[i].scan = s[j].scan => i = j
  <2> SUFFICES ASSUME NEW i \in 1..Len(s), NEW j \in 1..Len(s), s[i].scan = s[j].scan, i # j
               PROVE  FALSE
    OBVIOUS
  <2>1. s[i].scan \in Nat /\ (i < j \/ j < i) /\ Ordered(s)
    BY <1>1, LenProperties DEF Listed
  <2> QED
    BY <2>1 DEF Ordered
<1>7. ScansIn(rest) = ScansIn(s) \ {s[i].scan : i \in {j \in DOMAIN s : s[j].id = id}}
  <2>1. ASSUME NEW x \in ScansIn(rest)
        PROVE  x \in ScansIn(s) \ {s[i].scan : i \in {j \in DOMAIN s : s[j].id = id}}
    <3>1. PICK i \in 1..Len(s) : x = s[i].scan /\ s[i].id # id
      BY <1>2, <1>3, <2>1 DEF ScansIn
    <3>2. \A j \in 1..Len(s) : s[j].scan = x => s[j].id # id
      BY <1>6, <3>1
    <3> QED
      BY <1>1, <3>1, <3>2 DEF ScansIn
  <2>2. ASSUME NEW x \in ScansIn(s) \ {s[i].scan : i \in {j \in DOMAIN s : s[j].id = id}}
        PROVE  x \in ScansIn(rest)
    <3>1. PICK i \in 1..Len(s) : x = s[i].scan /\ s[i].id # id
      BY <1>1, <2>2 DEF ScansIn
    <3>2. PICK k \in 1..Len(rest) : rest[k] = s[i]
      BY <1>4, <3>1
    <3> QED
      BY <1>2, <3>1, <3>2 DEF ScansIn
  <2> QED
    BY <2>1, <2>2
<1> QED
  BY <1>5, <1>7 DEF rest

-----------------------------------------------------------------------------
(* The steps of the commands on face models *)

(* A step of p leaves the work of the others alone, or the file.           *)
Spares(p) ==
  \A q \in Runner \ {p} :
    /\ job'[q] = job[q] /\ step'[q] = step[q] /\ read'[q] = read[q] /\ target'[q] = target[q]
    /\ alone'[q] => alone[q] /\ file' = file /\ asked' = asked

(* The file and what was asked stay what they are.                         *)
LEMMA SameFile ==
  file' = file =>
    Models' = Models /\ (Stored <=> Stored') /\ (ScansIn(Models) = ScansIn(Models)')
BY DEF Models, Stored, ScansIn

(* What is true of the others stays true.                                  *)
LEMMA OthersKept ==
  ASSUME ModelsInv, NEW p \in Runner, Spares(p), scans' \in Nat, scans <= scans',
         NEW q \in Runner \ {p}
  PROVE  JobInv(q)'
<1>1. scans \in Nat /\ JobInv(q)
  BY FaceModelsAssumption DEF ModelsInv, ModelsTypeOK
<1>2. /\ job'[q] = job[q] /\ step'[q] = step[q] /\ read'[q] = read[q] /\ target'[q] = target[q]
      /\ alone'[q] => alone[q] /\ file' = file /\ asked' = asked
  BY DEF Spares
<1>3. Listed(read'[q], scans')
  BY <1>1, <1>2, ListedKept DEF JobInv
<1>4. target[q] \in 1..scans => target[q] \in 1..scans'
  BY <1>1
<1>5. alone'[q] => Models' = Models
  BY <1>2, SameFile
<1>6. ScansIn(read[q])' = ScansIn(read'[q])
  BY DEF ScansIn
<1>7. ScansIn(read'[q]) = ScansIn(read[q])
  BY <1>2 DEF ScansIn
<1> QED
  BY <1>1, <1>2, <1>3, <1>4, <1>5, <1>7 DEF JobInv, Listed, Ordered, ScansIn

(* A command that has ended, or was never started.                         *)
LEMMA EndedJob ==
  ASSUME NEW p \in Runner, ModelsInv, scans' \in Nat,
         job'[p] = "none", step'[p] = "idle", read'[p] = <<>>
  PROVE  JobInv(p)'
<1>1. Listed(read'[p], scans')
  BY EmptyIsListed
<1> QED
  BY <1>1 DEF JobInv, Listed, Ordered

(* What a step that ends its command leaves of it.                         *)
LEMMA EndsProperties ==
  ASSUME ModelsInv, NEW p \in Runner, NEW how \in {"none", "done", "failed"}, Ends(p, how)
  PROVE  /\ job'[p] = "none" /\ step'[p] = "idle" /\ read'[p] = <<>>
         /\ job' \in [Runner -> {"none", "add", "remove", "clear"}]
         /\ step' \in [Runner -> {"idle", "waiting", "writing"}]
         /\ read' \in [Runner -> Seq(Model)] /\ target' \in [Runner -> Nat]
         /\ linked' \in [Runner -> BOOLEAN]
         /\ ended' \in [Runner -> {"none", "done", "failed"}]
         /\ \A q \in Runner \ {p} :
              /\ job'[q] = job[q] /\ step'[q] = step[q]
              /\ read'[q] = read[q] /\ target'[q] = target[q]
BY EmptySeq DEF ModelsInv, ModelsTypeOK, Ends, Moves

(* Every command starts with the list that is in the file.                 *)
LEMMA BeginsInv ==
  ASSUME ModelsInv, NEW p \in Runner, NEW command \in {"add", "remove", "clear"}, NEW id \in Nat,
         step[p] = "idle", Begins(p, command, id),
         command \in {"add", "remove"} => file # Torn,
         command = "remove" => Stored /\ \E i \in DOMAIN file : file[i].id = id
  PROVE  ModelsInv'
<1>1. /\ file' = file /\ scans' = scans /\ asked' = asked /\ cut' = cut /\ linked' = linked
      /\ job'[p] = command /\ target'[p] = id /\ read'[p] = Models /\ step'[p] = "waiting"
  BY DEF Begins, Moves, ModelsInv, ModelsTypeOK
<1>2. Models \in Seq(Model) /\ Listed(Models, scans) /\ scans \in Nat
  <2>1. scans \in Nat
    BY FaceModelsAssumption DEF ModelsInv, ModelsTypeOK
  <2>2. CASE Stored
    BY <2>1, <2>2 DEF ModelsInv, FileInv, Models, Listed
  <2>3. CASE ~Stored
    BY <2>1, <2>3, EmptyIsListed, EmptySeq DEF Models
  <2> QED
    BY <2>1, <2>2, <2>3
<1>3. ModelsTypeOK'
  BY <1>2 DEF Begins, Moves, ModelsInv, ModelsTypeOK
<1>4. FileInv'
  BY <1>1, SameFile DEF ModelsInv, FileInv, Listed, Ordered
<1>5. Spares(p)
  BY DEF Spares, Begins, Moves, ModelsInv, ModelsTypeOK
<1>6. command = "remove" => \E i \in 1..Len(Models) : Models[i].id = id
  BY <1>2, LenProperties DEF Models
<1>7. Models' = Models /\ (file # Torn => ScansIn(Models) = asked)
  BY <1>1, SameFile DEF ModelsInv, FileInv
<1>8. JobInv(p)'
  BY <1>1, <1>2, <1>6, <1>7 DEF JobInv, Listed, Ordered, ScansIn
<1> QED
  BY <1>1, <1>2, <1>3, <1>4, <1>5, <1>8, OthersKept DEF ModelsInv

(* A command that refuses to start changes nothing.                        *)
LEMMA QuietModels ==
  ASSUME ModelsInv, ended' \in [Runner -> {"none", "done", "failed"}],
         UNCHANGED <<file, cut, job, step, read, target, linked, scans, alone, asked>>
  PROVE  ModelsInv'
<1>1. ModelsTypeOK'
  BY DEF ModelsInv, ModelsTypeOK
<1>2. FileInv'
  BY SameFile DEF ModelsInv, FileInv, Listed, Ordered
<1>3. ASSUME NEW p \in Runner PROVE JobInv(p)'
  BY SameFile DEF ModelsInv, JobInv, Listed, Ordered, ScansIn
<1> QED
  BY <1>1, <1>2, <1>3 DEF ModelsInv

(* It only reports that it failed.                                         *)
LEMMA RefusedInv ==
  ASSUME ModelsInv, NEW p \in Runner, Refused(p)
  PROVE  ModelsInv'
<1>1. ended' \in [Runner -> {"none", "done", "failed"}]
  BY DEF Refused, ModelsInv, ModelsTypeOK
<1> QED
  BY <1>1, QuietModels DEF Refused

(* Starting a command.                                                     *)
LEMMA StartInv ==
  ASSUME ModelsInv, NEW p \in Runner,
         StartAdd(p) \/ StartClear(p) \/ \E id \in Nat : StartRemove(p, id)
  PROVE  ModelsInv'
<1>1. CASE StartAdd(p)
  BY <1>1, RefusedInv, BeginsInv DEF StartAdd
<1>2. CASE StartClear(p)
  BY <1>2, RefusedInv, BeginsInv DEF StartClear
<1>3. ASSUME NEW id \in Nat, StartRemove(p, id) PROVE ModelsInv'
  BY <1>3, RefusedInv, BeginsInv DEF StartRemove, Stored
<1> QED
  BY <1>1, <1>2, <1>3

(* A command that ends with the file as it was.                            *)
LEMMA GivesUpInv ==
  ASSUME ModelsInv, NEW p \in Runner, NEW how \in {"none", "done", "failed"}, Ends(p, how),
         UNCHANGED <<file, cut, scans, alone, asked>>
  PROVE  ModelsInv'
<1>1. scans \in Nat
  BY FaceModelsAssumption DEF ModelsInv, ModelsTypeOK
<1>2. ModelsTypeOK' /\ Spares(p)
  BY EndsProperties DEF ModelsInv, ModelsTypeOK, Spares
<1>3. FileInv'
  BY SameFile DEF ModelsInv, FileInv, Listed, Ordered
<1>4. JobInv(p)'
  BY <1>1, EndsProperties, EndedJob
<1> QED
  BY <1>1, <1>2, <1>3, <1>4, OthersKept DEF ModelsInv

(* A save opens the file, which is torn until it has been written.         *)
LEMMA TruncatesInv ==
  ASSUME ModelsInv, NEW p \in Runner, Truncates(p), step[p] = "waiting",
         job[p] \in {"add", "remove"},
         target' \in [Runner -> Nat], \A q \in Runner \ {p} : target'[q] = target[q],
         \/ scans' = scans /\ target' = target /\ job[p] = "remove"
         \/ scans' = scans + 1 /\ scans < MaxScans /\ target'[p] = scans' /\ job[p] = "add"
  PROVE  ModelsInv'
<1>1. scans \in Nat /\ scans' \in Nat /\ scans <= scans' /\ scans' \in 0..MaxScans
  BY FaceModelsAssumption DEF ModelsInv, ModelsTypeOK
<1>2. /\ file' = Torn /\ job' = job /\ read' = read /\ asked' = asked /\ step'[p] = "writing"
      /\ alone'[p] = alone[p]
  BY DEF Truncates, Disturbs, Moves, ModelsInv, ModelsTypeOK
<1>3. ModelsTypeOK' /\ Spares(p)
  BY <1>1 DEF Truncates, Disturbs, Moves, ModelsInv, ModelsTypeOK, Spares
<1>4. FileInv'
  BY <1>2 DEF FileInv, Stored
<1>5. JobInv(p)'
  <2>1. JobInv(p) /\ Listed(read[p], scans) /\ Listed(read[p], scans')
    BY <1>1, ListedKept DEF ModelsInv, JobInv
  <2>2. job[p] = "add" =>
          /\ target'[p] \in 1..scans'
          /\ \A i \in 1..Len(read[p]) : read[p][i].scan < target'[p]
    BY <1>1, <2>1 DEF Listed
  <2>3. alone[p] => ScansIn(read[p]) = asked
    BY <2>1 DEF JobInv
  <2>4. job[p] = "remove" => \E i \in 1..Len(read[p]) : read[p][i].id = target'[p]
    BY <2>1 DEF JobInv
  <2> QED
    BY <1>2, <2>1, <2>2, <2>3, <2>4 DEF JobInv, Listed, Ordered, ScansIn
<1> QED
  BY <1>1, <1>3, <1>4, <1>5, OthersKept DEF ModelsInv

(* What p writes: the models it read, with the newest or without the one   *)
(* to remove; the scans are those that were asked for.                     *)
LEMMA ResultIsListed ==
  ASSUME ModelsInv, NEW p \in Runner, step[p] = "writing"
  PROVE  Listed(Result(p), scans) /\ ScansIn(Result(p)) = Asked(p)
<1>1. /\ JobInv(p) /\ Listed(read[p], scans) /\ job[p] \in {"add", "remove"} /\ scans \in Nat
      /\ alone[p] => ScansIn(read[p]) = asked
  <2>1. JobInv(p) /\ scans \in Nat
    BY FaceModelsAssumption DEF ModelsInv, ModelsTypeOK
  <2> QED
    BY <2>1 DEF JobInv
<1>2. CASE job[p] = "add"
  <2>1. target[p] \in 1..scans /\ \A i \in 1..Len(read[p]) : read[p][i].scan < target[p]
    BY <1>1, <1>2 DEF JobInv
  <2>2. Listed(Result(p), scans) /\ ScansIn(Result(p)) = ScansIn(read[p]) \cup {target[p]}
    BY <1>1, <1>2, <2>1, AddedIsListed DEF Result
  <2> QED
    BY <1>1, <1>2, <2>2 DEF Asked
<1>3. CASE job[p] = "remove"
  <2>1. /\ Listed(Result(p), scans)
        /\ ScansIn(Result(p)) =
             ScansIn(read[p]) \
               {read[p][i].scan : i \in {j \in DOMAIN read[p] : read[p][j].id = target[p]}}
    BY <1>1, <1>3, RemovedIsListed DEF Result
  <2> QED
    BY <1>1, <1>3, <2>1 DEF Asked
<1> QED
  BY <1>1, <1>2, <1>3

(* A list holds scans that were taken.                                     *)
LEMMA ListedScans ==
  ASSUME ModelsTypeOK, NEW s, Listed(s, scans)
  PROVE  ScansIn(s) \subseteq 1..MaxScans
<1>1. DOMAIN s = 1..Len(s)
  BY LenProperties DEF Listed
<1>2. 1..scans \subseteq 1..MaxScans
  BY FaceModelsAssumption DEF ModelsTypeOK
<1> QED
  BY <1>1, <1>2 DEF Listed, ScansIn

(* Writing the list, wholly or not, into a file that may have been         *)
(* deleted, or rewritten by somebody else.                                 *)
LEMMA WriteInv ==
  ASSUME ModelsInv, NEW p \in Runner, Write(p) \/ WriteFails(p)
  PROVE  ModelsInv'
<1>1. CASE ~linked[p]
  BY <1>1, GivesUpInv DEF Write, WriteFails
<1>2. CASE linked[p]
  <2>1. step[p] = "writing" /\ scans' = scans /\ scans \in Nat /\ Disturbs(p)
    <3>1. scans \in Nat
      BY FaceModelsAssumption DEF ModelsInv, ModelsTypeOK
    <3>2. CASE Write(p)
      BY <1>2, <3>1, <3>2 DEF Write
    <3>3. CASE WriteFails(p)
      BY <1>2, <3>1, <3>3 DEF WriteFails
    <3> QED
      BY <3>2, <3>3
  <2>2. Listed(Result(p), scans) /\ ScansIn(Result(p)) = Asked(p)
    BY <2>1, ResultIsListed
  <2>3. /\ cut' \in BOOLEAN
        /\ \E how \in {"none", "done", "failed"} : Ends(p, how)
        /\ \/ file' = Torn /\ asked' \in {asked, Asked(p)}
           \/ file' = Result(p) /\ asked' = Asked(p)
    <3>1. CASE Write(p)
      BY <1>2, <3>1 DEF Write
    <3>2. CASE WriteFails(p)
      BY <1>2, <3>2 DEF WriteFails, ModelsInv, ModelsTypeOK
    <3> QED
      BY <3>1, <3>2
  <2>4. /\ Result(p) \in Seq(Model) /\ Result(p) \notin {Missing, Torn}
        /\ Asked(p) \subseteq 1..MaxScans
    BY <2>2, FaceModelsAssumption, ListedScans DEF Listed, ModelsInv
  <2>5. FileInv'
    BY <2>1, <2>2, <2>3, <2>4 DEF FileInv, Stored, Models, Listed, Ordered, ScansIn
  <2>6. /\ alone' \in [Runner -> BOOLEAN] /\ \A q \in Runner \ {p} : ~alone'[q]
        /\ file' \in Seq(Model) \cup {Missing, Torn} /\ asked' \subseteq 1..MaxScans
    BY <2>1, <2>3, <2>4 DEF Disturbs, ModelsInv, ModelsTypeOK
  <2>7. ModelsTypeOK' /\ Spares(p)
    BY <2>1, <2>3, <2>6, EndsProperties DEF ModelsInv, ModelsTypeOK, Spares
  <2>8. JobInv(p)'
    BY <2>1, <2>3, EndsProperties, EndedJob
  <2> QED
    BY <2>1, <2>5, <2>7, <2>8, OthersKept DEF ModelsInv
<1> QED
  BY <1>1, <1>2

(* Deleting the file: with it the only model, or all of them.              *)
LEMMA DeleteFileInv ==
  ASSUME ModelsInv, NEW p \in Runner, DeleteFile(p)
  PROVE  ModelsInv'
<1>1. scans' = scans /\ scans \in Nat /\ file' = Missing /\ JobInv(p)
  BY FaceModelsAssumption DEF DeleteFile, ModelsInv, ModelsTypeOK
<1>2. asked' = {}
  <2>1. CASE job[p] = "remove" /\ alone[p]
    <3>1. PICK k \in 1..Len(read[p]) : read[p][k].id = target[p]
      BY <1>1, <2>1 DEF JobInv
    <3>2. Len(read[p]) = 1 /\ k = 1 /\ DOMAIN read[p] = {1}
      <4>1. Len(read[p]) = 1 /\ read[p] \in Seq(Model)
        BY <2>1 DEF DeleteFile, ModelsInv, ModelsTypeOK
      <4> QED
        BY <3>1, <4>1, LenProperties
    <3>3. asked = {read[p][1].scan}
      BY <1>1, <2>1, <3>2 DEF DeleteFile, JobInv, ScansIn
    <3> QED
      BY <2>1, <3>1, <3>2, <3>3 DEF DeleteFile, Asked
  <2>2. CASE ~(job[p] = "remove" /\ alone[p])
    BY <2>2 DEF DeleteFile
  <2> QED
    BY <2>1, <2>2
<1>3. FileInv'
  BY <1>1, <1>2 DEF FileInv, Stored, Models, ScansIn
<1>4. ModelsTypeOK' /\ Spares(p)
  BY <1>2, EmptySeq DEF DeleteFile, Moves, ModelsInv, ModelsTypeOK, Spares
<1>5. JobInv(p)'
  BY <1>1, EndedJob DEF DeleteFile, Moves, ModelsInv, ModelsTypeOK
<1> QED
  BY <1>1, <1>3, <1>4, <1>5, OthersKept DEF ModelsInv

(* Every step of a command.                                                *)
LEMMA JobStepInv ==
  ASSUME ModelsInv, NEW p \in Runner, JobStep(p)
  PROVE  ModelsInv'
<1>1. CASE ScanFails(p) \/ AnswersNo(p) \/ DeleteMisses(p)
  BY <1>1, GivesUpInv DEF ScanFails, AnswersNo, DeleteMisses
<1>2. CASE SaveAdd(p)
  <2>1. scans' \in Nat
    BY <1>2, FaceModelsAssumption DEF SaveAdd, ModelsInv, ModelsTypeOK
  <2> QED
    BY <1>2, <2>1, TruncatesInv DEF SaveAdd, ModelsInv, ModelsTypeOK
<1>3. CASE SaveRemove(p)
  BY <1>3, TruncatesInv DEF SaveRemove, ModelsInv, ModelsTypeOK
<1> QED
  BY <1>1, <1>2, <1>3, WriteInv, DeleteFileInv DEF JobStep

(* No model, no command.                                                   *)
LEMMA ModelsInitInv == ModelsInit => ModelsInv
<1> SUFFICES ASSUME ModelsInit PROVE ModelsInv
  OBVIOUS
<1>1. ModelsTypeOK
  <2>1. 0 \in 0..MaxScans /\ <<>> \in Seq(Model)
    BY EmptySeq, FaceModelsAssumption
  <2> QED
    BY <2>1 DEF ModelsInit, ModelsTypeOK
<1>2. FileInv
  BY DEF ModelsInit, FileInv, Stored, Models, ScansIn
<1>3. ASSUME NEW p \in Runner PROVE JobInv(p)
  BY EmptyIsListed, FaceModelsAssumption DEF ModelsInit, JobInv
<1> QED
  BY <1>1, <1>2, <1>3 DEF ModelsInv


-----------------------------------------------------------------------------
(* The wizard of howdy-gtk *)

(* Slide 5 is entered from slide 4 only, which has no way out but the      *)
(* timeout of a scan that was saved.                                       *)
WizardInv ==
  /\ slide \in Slides /\ timers \in Nat /\ saved \in Nat
  /\ timers > 0 => saved > 0
  /\ EndsEnrolled
  /\ slide = 4 => ~nextOn
  /\ waits = "answer" => slide = 3
  /\ waits \in {"download", "cameras"} => slide < 4

(* Nothing has been shown.                                                 *)
LEMMA WizardInitInv == GtkInit => WizardInv
BY DEF GtkInit, WizardInv, EndsEnrolled, Slides

(* The next slide, or the one after it, is reached from where the wizard   *)
(* is; past the fourth only when a model was saved.                        *)
LEMMA GoNextInv ==
  ASSUME WizardInv, GoNext(slide), slide < 4 \/ saved > 0,
         timers' \in Nat, timers' > 0 => saved > 0, saved' = saved
  PROVE  WizardInv'
<1> DEFINE next == IF slide < 6 THEN slide + 1 ELSE slide
<1>1. next \in 1..6 /\ (next >= 5 => saved > 0)
  BY DEF WizardInv, EndsEnrolled, Slides
<1>2. SlideStarts(next, FALSE)
  BY DEF GoNext
<1> HIDE DEF next
<1> QED
  BY <1>1, <1>2 DEF SlideStarts, WizardInv, EndsEnrolled, Slides

(* Every step keeps the invariant of the wizard.                           *)
LEMMA WizardStepInv ==
  ASSUME WizardInv, [GtkNext]_gtkVars
  PROVE  WizardInv'
<1>1. CASE UNCHANGED wizardVars
  BY <1>1 DEF wizardVars, WizardInv, EndsEnrolled
<1>2. CASE ClickNext
  BY <1>2, GoNextInv DEF ClickNext, WizardInv, Slides, EndsEnrolled
<1>3. CASE WorkEnds
  BY <1>3 DEF WorkEnds, WizardInv, EndsEnrolled, Slides
<1>4. CASE SayYes
  BY <1>4, GoNextInv DEF SayYes, WizardInv
<1>5. CASE SayNo \/ ClickScan \/ RunAdd
  BY <1>5 DEF SayNo, ClickScan, RunAdd, WizardInv, EndsEnrolled
<1>6. CASE AddEnds
  BY <1>6 DEF AddEnds, WizardInv, EndsEnrolled
<1>7. CASE AddFailed \/ CloseWizard
  BY <1>7 DEF AddFailed, CloseWizard, WizardExits, WizardInv, EndsEnrolled
<1>8. CASE NextTimeout
  BY <1>8, GoNextInv DEF NextTimeout, WizardInv
<1>9. CASE OpenWizard \/ ShellRuns \/ GuiChildRuns \/ WindowStep \/ UNCHANGED gtkVars
  BY <1>1, <1>9
  DEF OpenWizard, ShellRuns, GuiChildRuns, WindowStep, OpenWindow, OnModelAdd, CancelDialog,
      ConfirmName, ExecuteAdd, OnModelDelete, ConfirmDelete, ChildEnds, gtkVars
<1> QED
  BY <1>2, <1>3, <1>4, <1>5, <1>6, <1>7, <1>8, <1>9 DEF GtkNext, WizardStep

-----------------------------------------------------------------------------
(* The models tab of howdy-gtk *)

ChildRuns == {"adding", "deleting"}

(* The list is the file as long as only the window changes it and no child *)
(* of the window has begun to; the model asked about is in the list.       *)
WindowInv ==
  /\ step \in [Runner -> {"idle", "waiting", "writing"}]
  /\ ui # "window" => dialog = "none"
  /\ ui = "none" => step[Gui] = "idle"
  /\ ui = "window" /\ dialog \notin ChildRuns => step[Gui] = "idle"
  /\ ui = "window" /\ fresh /\ (dialog \in ChildRuns => step[Gui] = "waiting") => shown = Models
  /\ dialog \in {"confirming", "deleting"} => \E i \in DOMAIN shown : shown[i] = chosen

(* Nothing has been shown, and no command runs.                            *)
LEMMA WindowInitInv == GtkInit => WindowInv
BY FaceModelsAssumption DEF GtkInit, ModelsInit, WindowInv, ChildRuns

(* A command that runs either waits no longer, or never did.               *)
LEMMA JobMoves ==
  ASSUME NEW p \in Runner, JobStep(p)
  PROVE  /\ step[p] # "idle"
         /\ \E label \in {"idle", "writing"} : step' = [step EXCEPT ![p] = label]
BY DEF JobStep, ScanFails, AnswersNo, SaveAdd, SaveRemove, Truncates, Write, WriteFails,
       DeleteFile, DeleteMisses, Ends, Moves

(* A command that starts leaves the file alone.                            *)
LEMMA StartMoves ==
  ASSUME NEW p \in Runner, step \in [Runner -> {"idle", "waiting", "writing"}],
         StartAdd(p) \/ StartClear(p) \/ \E id : StartRemove(p, id)
  PROVE  /\ step[p] = "idle"
         /\ \E label \in {"idle", "waiting"} : step' = [step EXCEPT ![p] = label]
         /\ file' = file
<1>1. CASE StartAdd(p)
  BY <1>1 DEF StartAdd, Refused, Begins, Moves
<1>2. CASE StartClear(p)
  BY <1>2 DEF StartClear, Refused, Begins, Moves
<1>3. ASSUME NEW id, StartRemove(p, id)
      PROVE  /\ step[p] = "idle"
             /\ \E label \in {"idle", "waiting"} : step' = [step EXCEPT ![p] = label]
             /\ file' = file
  BY <1>3 DEF StartRemove, Refused, Begins, Moves
<1> QED
  BY <1>1, <1>2, <1>3

(* The list stays the file while the file stays what it is.                *)
LEMMA ModelsKept == file' = file => Models' = Models
BY DEF Models, Stored

(* Every step keeps the invariant of the models tab.                       *)
LEMMA WindowStepInv ==
  ASSUME WindowInv, [GtkNext]_gtkVars
  PROVE  WindowInv'
<1> USE FaceModelsAssumption DEF WindowInv, ChildRuns
<1>1. CASE ShellRuns
  <2>1. PICK p \in Runner \ {Gui} : ShellStep(p) \/ JobStep(p)
    BY <1>1 DEF ShellRuns
  <2>2. \E label \in {"idle", "waiting", "writing"} : step' = [step EXCEPT ![p] = label]
    BY <2>1, JobMoves, StartMoves DEF ShellStep
  <2>3. step'[Gui] = step[Gui] /\ step' \in [Runner -> {"idle", "waiting", "writing"}]
    BY <2>1, <2>2
  <2>4. UNCHANGED <<ui, dialog, shown, chosen>> /\ fresh' = (fresh /\ file' = file)
    BY <1>1 DEF ShellRuns, OthersChange
  <2> QED
    BY <2>3, <2>4, ModelsKept
<1>2. CASE GuiChildRuns
  <2>1. step[Gui] # "idle"
    BY <1>2, JobMoves DEF GuiChildRuns
  <2>2. step'[Gui] # "waiting" /\ step' \in [Runner -> {"idle", "waiting", "writing"}]
    BY <1>2, JobMoves DEF GuiChildRuns
  <2>3. UNCHANGED <<ui, dialog, shown, chosen, fresh>>
    BY <1>2 DEF GuiChildRuns, windowVars
  <2> QED
    BY <2>1, <2>2, <2>3
<1>3. CASE OpenWindow
  BY <1>3, ModelsKept DEF OpenWindow, LoadModelList, modelVars
<1>4. CASE OnModelAdd \/ CancelDialog \/ ConfirmName
  BY <1>4, ModelsKept DEF OnModelAdd, CancelDialog, ConfirmName, Shows, modelVars
<1>5. CASE ExecuteAdd \/ ConfirmDelete
  <2>1. /\ \E label \in {"idle", "waiting"} : step' = [step EXCEPT ![Gui] = label]
        /\ file' = file
    BY <1>5, StartMoves DEF ExecuteAdd, ConfirmDelete
  <2> QED
    BY <1>5, <2>1, ModelsKept DEF ExecuteAdd, ConfirmDelete, Shows
<1>6. CASE OnModelDelete
  BY <1>6, ModelsKept DEF OnModelDelete, Shows, modelVars
<1>7. CASE ChildEnds
  BY <1>7, ModelsKept DEF ChildEnds, Shows, LoadModelList, modelVars
<1>8. CASE RunAdd
  <2>1. \E label \in {"idle", "waiting"} : step' = [step EXCEPT ![Gui] = label]
    BY <1>8, StartMoves DEF RunAdd
  <2> QED
    BY <1>8, <2>1 DEF RunAdd, Wizard, windowVars
<1>9. CASE \/ OpenWizard \/ ClickNext \/ WorkEnds \/ SayYes \/ SayNo \/ ClickScan
           \/ AddEnds \/ AddFailed \/ NextTimeout \/ CloseWizard
  <2>1. ui' \in {"wizard", "closed"} /\ UNCHANGED <<step, windowVars>> /\ ui # "window"
    BY <1>9
    DEF OpenWizard, ClickNext, WorkEnds, SayYes, SayNo, ClickScan, AddEnds, AddFailed,
        NextTimeout, CloseWizard, WizardExits, Clickable, Wizard, Added, GoNext, SlideStarts,
        modelVars
  <2> QED
    BY <2>1 DEF windowVars
<1>10. CASE UNCHANGED gtkVars
  BY <1>10, ModelsKept DEF gtkVars, modelVars, windowVars
<1> QED
  BY <1>1, <1>2, <1>3, <1>4, <1>5, <1>6, <1>7, <1>8, <1>9, <1>10
  DEF GtkNext, WindowStep, WizardStep

-----------------------------------------------------------------------------
(* All of howdy-gtk, with the shells beside it *)

GtkInv == GtkTypeOK /\ ModelsInv /\ WizardInv /\ WindowInv

(* A step of howdy-gtk or of a shell is a step of a command, or none.      *)
LEMMA GtkStepModels ==
  ASSUME GtkInv, [GtkNext]_gtkVars
  PROVE  ModelsInv'
<1>1. CASE ShellRuns
  <2>1. PICK p \in Runner \ {Gui} : ShellStep(p) \/ JobStep(p)
    BY <1>1 DEF ShellRuns
  <2>2. 0..MaxScans \subseteq Nat
    BY FaceModelsAssumption
  <2> QED
    BY <2>1, <2>2, StartInv, JobStepInv DEF ShellStep, GtkInv
<1>2. CASE GuiChildRuns
  BY <1>2, FaceModelsAssumption, JobStepInv DEF GuiChildRuns, GtkInv
<1>3. CASE ExecuteAdd \/ RunAdd
  BY <1>3, FaceModelsAssumption, StartInv DEF ExecuteAdd, RunAdd, GtkInv
<1>4. CASE ConfirmDelete
  <2>1. PICK i \in DOMAIN shown : shown[i] = chosen
    BY <1>4 DEF ConfirmDelete, Shows, GtkInv, WindowInv
  <2>2. chosen \in Model
    BY <2>1, ElementOfSeq, LenProperties DEF GtkInv, GtkTypeOK
  <2>3. chosen.id \in Nat
    BY <2>2 DEF Model
  <2> QED
    BY <1>4, <2>3, FaceModelsAssumption, StartInv DEF ConfirmDelete, GtkInv
<1>5. CASE UNCHANGED modelVars
  BY <1>5, QuietModels DEF modelVars, GtkInv, ModelsInv, ModelsTypeOK
<1>6. CASE \/ OpenWindow \/ OnModelAdd \/ CancelDialog \/ ConfirmName \/ OnModelDelete
           \/ ChildEnds \/ UNCHANGED gtkVars
  BY <1>5, <1>6
  DEF OpenWindow, OnModelAdd, CancelDialog, ConfirmName, OnModelDelete, ChildEnds, gtkVars
<1>7. CASE \/ OpenWizard \/ ClickNext \/ WorkEnds \/ SayYes \/ SayNo \/ ClickScan
           \/ AddEnds \/ AddFailed \/ NextTimeout \/ CloseWizard
  BY <1>5, <1>7
  DEF OpenWizard, ClickNext, WorkEnds, SayYes, SayNo, ClickScan, AddEnds, AddFailed,
      NextTimeout, CloseWizard
<1> QED
  BY <1>1, <1>2, <1>3, <1>4, <1>6, <1>7 DEF GtkNext, WindowStep, WizardStep

(* The list in the window is one of models, and so is the chosen one.      *)
LEMMA WindowTypes ==
  ASSUME GtkInv, [GtkNext]_gtkVars
  PROVE  /\ dialog' \in Dialogs /\ shown' \in Seq(Model) /\ chosen' \in Model \cup {NoModel}
         /\ fresh' \in BOOLEAN
<1> USE DEF GtkInv, GtkTypeOK, Dialogs
<1>1. Models \in Seq(Model)
  BY EmptySeq DEF ModelsInv, ModelsTypeOK, Models, Stored
<1>2. CASE UNCHANGED windowVars
  BY <1>2 DEF windowVars
<1>3. CASE ShellRuns
  BY <1>3 DEF ShellRuns, OthersChange
<1>4. CASE OpenWindow \/ ChildEnds
  BY <1>1, <1>4 DEF OpenWindow, ChildEnds, LoadModelList, Shows
<1>5. CASE OnModelAdd \/ CancelDialog \/ ConfirmName \/ ExecuteAdd \/ ConfirmDelete
  BY <1>5 DEF OnModelAdd, CancelDialog, ConfirmName, ExecuteAdd, ConfirmDelete, Shows
<1>6. CASE OnModelDelete
  <2>1. chosen' \in Model
    BY <1>6, ElementOfSeq, LenProperties DEF OnModelDelete
  <2> QED
    BY <1>6, <2>1 DEF OnModelDelete, Shows
<1>7. CASE GuiChildRuns \/ WizardStep \/ UNCHANGED gtkVars
  BY <1>2, <1>7
  DEF GuiChildRuns, WizardStep, OpenWizard, ClickNext, WorkEnds, SayYes, SayNo, ClickScan,
      RunAdd, AddEnds, AddFailed, NextTimeout, CloseWizard, gtkVars
<1> QED
  BY <1>3, <1>4, <1>5, <1>6, <1>7 DEF GtkNext, WindowStep

(* The variables of the wizard.                                            *)
LEMMA WizardTypes ==
  ASSUME GtkInv, [GtkNext]_gtkVars
  PROVE  /\ ui' \in {"none", "window", "wizard", "closed"}
         /\ nextOn' \in BOOLEAN /\ waits' \in Waits /\ scan' \in {"none", "dialog", "adding"}
<1> USE DEF GtkInv, GtkTypeOK, Waits
<1>1. CASE UNCHANGED <<ui, wizardVars>>
  BY <1>1 DEF wizardVars
<1>2. CASE \/ ShellRuns \/ GuiChildRuns \/ OnModelAdd \/ CancelDialog \/ ConfirmName
           \/ ExecuteAdd \/ OnModelDelete \/ ConfirmDelete \/ ChildEnds \/ UNCHANGED gtkVars
  BY <1>1, <1>2
  DEF ShellRuns, GuiChildRuns, OnModelAdd, CancelDialog, ConfirmName, ExecuteAdd, OnModelDelete,
      ConfirmDelete, ChildEnds, gtkVars
<1>3. CASE OpenWindow \/ OpenWizard
  BY <1>3 DEF OpenWindow, OpenWizard, wizardVars
<1>4. CASE ClickNext \/ SayYes \/ NextTimeout
  <2>1. \E to : SlideStarts(to, FALSE)
    BY <1>4 DEF ClickNext, SayYes, NextTimeout, GoNext
  <2>2. scan' = scan
    BY <1>4 DEF ClickNext, SayYes, NextTimeout
  <2> QED
    BY <2>1, <2>2 DEF SlideStarts
<1>5. CASE WorkEnds \/ SayNo \/ ClickScan \/ RunAdd \/ AddEnds
  BY <1>5 DEF WorkEnds, SayNo, ClickScan, RunAdd, AddEnds
<1>6. CASE AddFailed \/ CloseWizard
  BY <1>6 DEF AddFailed, CloseWizard, WizardExits
<1> QED
  BY <1>2, <1>3, <1>4, <1>5, <1>6 DEF GtkNext, WindowStep, WizardStep

(* Every step keeps the invariant of howdy-gtk.                            *)
LEMMA GtkStepInv ==
  ASSUME GtkInv, [GtkNext]_gtkVars
  PROVE  GtkInv'
<1>1. ModelsInv' /\ WizardInv' /\ WindowInv'
  BY GtkStepModels, WizardStepInv, WindowStepInv DEF GtkInv
<1>2. ModelsTypeOK' /\ slide' \in Slides /\ timers' \in Nat /\ saved' \in Nat
  BY <1>1 DEF ModelsInv, WizardInv
<1>3. GtkTypeOK'
  BY <1>2, WindowTypes, WizardTypes DEF GtkTypeOK
<1> QED
  BY <1>1, <1>3 DEF GtkInv

(* Nothing has been shown.                                                 *)
LEMMA GtkInitInv == GtkInit => GtkInv
<1> SUFFICES ASSUME GtkInit PROVE GtkInv
  OBVIOUS
<1>1. ModelsInv /\ WizardInv /\ WindowInv
  BY ModelsInitInv, WizardInitInv, WindowInitInv DEF GtkInit
<1>2. GtkTypeOK
  BY <1>1, EmptySeq DEF GtkInit, GtkTypeOK, ModelsInv, Dialogs, Waits, Slides
<1> QED
  BY <1>1, <1>2 DEF GtkInv

-----------------------------------------------------------------------------
(* All commands *)

CommandsInv == ServiceInv /\ GtkInv /\ area \in {"none", "models", "webauthn"}

(* The inductive invariant holds in every reachable state: the two         *)
(* families of commands leave each other alone.                            *)
THEOREM Invariance == Spec => []CommandsInv
<1>1. Init => CommandsInv
  BY ServiceInitInv, GtkInitInv DEF Init, CommandsInv
<1>2. CommandsInv /\ [Next]_<<allVars, gtkVars, area>> => CommandsInv'
  <2> SUFFICES ASSUME CommandsInv, [Next]_<<allVars, gtkVars, area>>
               PROVE  CommandsInv'
    OBVIOUS
  <2>1. [ServiceNext]_allVars /\ [GtkNext]_gtkVars
    BY DEF Next, ChooseCommand
  <2>2. ServiceInv' /\ GtkInv'
    BY <2>1, ServiceStepInv, GtkStepInv DEF CommandsInv
  <2>3. area' \in {"none", "models", "webauthn"}
    BY DEF Next, ChooseCommand, CommandsInv
  <2> QED
    BY <2>2, <2>3 DEF CommandsInv
<1> QED
  BY <1>1, <1>2, PTL DEF Spec

(* Every variable keeps its type.                                          *)
THEOREM TypeCorrect == Spec => []TypeOK
<1>1. CommandsInv => TypeOK
  BY DEF CommandsInv, ServiceInv, GtkInv, TypeOK
<1> QED
  BY <1>1, Invariance, PTL

(* No master key is lost but by a reset: two processes that create it at   *)
(* once, crashes while it is written and full disks included.              *)
THEOREM KeysAlwaysSurvive == Spec => []KeysSurvive
<1>1. CommandsInv => KeysSurvive
  BY DEF CommandsInv, ServiceInv, KeyInv
<1> QED
  BY <1>1, Invariance, PTL

(* No process ever leaves a key of the TPM loaded after its signature.     *)
THEOREM HandlesAreAlwaysFlushed == Spec => []HandlesAreFlushed
<1>1. CommandsInv => HandlesAreFlushed
  BY DEF CommandsInv, ServiceInv, KeyInv
<1> QED
  BY <1>1, Invariance, PTL

(* Any number of inits that run at once agree on one backend.              *)
THEOREM OnlyOneBackend == Spec => []OneBackend
<1>1. CommandsInv => OneBackend
  BY DEF CommandsInv, ServiceInv
<1> QED
  BY <1>1, Invariance, PTL

(* However deep the signal handlers nest, close() closes the descriptor of *)
(* the device and no other.                                                *)
THEOREM CloseIsReentrant == Spec => []ClosesItsOwn
<1>1. CommandsInv => ClosesItsOwn
  BY DEF CommandsInv, ServiceInv
<1> QED
  BY <1>1, Invariance, PTL

(* Commands on the face model file that do not overlap do what they were   *)
(* asked, and ids increase along the file also when they do, for any       *)
(* number of shells and models.                                            *)
THEOREM FileIsAlwaysWhatWasAsked == Spec => []FileIsWhatWasAsked
<1>1. CommandsInv => FileIsWhatWasAsked
  <2> SUFFICES ASSUME CommandsInv PROVE FileIsWhatWasAsked
    OBVIOUS
  <2>1. FileInv
    BY DEF CommandsInv, GtkInv, ModelsInv
  <2>2. Stored => DOMAIN file = 1..Len(file)
    BY <2>1, LenProperties DEF FileInv, Listed
  <2> QED
    BY <2>1, <2>2 DEF FileInv, FileIsWhatWasAsked, Listed, Ordered
<1> QED
  BY <1>1, Invariance, PTL

(* The model whose id the window passes to "howdy remove" is the one it    *)
(* showed, unless a shell changed the file meanwhile.                      *)
THEOREM DeletesTheShown == Spec => []DeletesWhatWasShown
<1>1. CommandsInv => DeletesWhatWasShown
  BY DEF CommandsInv, GtkInv, WindowInv, DeletesWhatWasShown, ChildRuns
<1> QED
  BY <1>1, Invariance, PTL

(* However often the scan button is clicked, and whatever timeouts are     *)
(* left over, the wizard ends with a face model saved.                     *)
THEOREM WizardEndsEnrolled == Spec => []EndsEnrolled
<1>1. CommandsInv => EndsEnrolled
  BY DEF CommandsInv, GtkInv, WizardInv
<1> QED
  BY <1>1, Invariance, PTL
=============================================================================
