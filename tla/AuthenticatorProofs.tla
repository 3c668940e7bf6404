------------------------- MODULE AuthenticatorProofs -------------------------
(***************************************************************************)
(* What holds of the ceremonies beside an administrator for every set of   *)
(* credentials and websites, and every number of face checks and restarts. *)
(***************************************************************************)
EXTENDS Authenticator, SequenceTheorems, TLAPS

-----------------------------------------------------------------------------
(* The inductive invariant. *)

(* Ids that no file has held: of credentials that are drawn and not stored *)
(* yet, or not even drawn.                                                 *)
New == fresh \cup {c \in Cred : c = adminCred \/ (phase = "add" /\ c = current)}

(* What a ceremony has at hand where it is.                                *)
PhaseInv ==
  /\ phase \in {"verifyMake", "generate"} => current \in fresh \ OfAdmin
  /\ phase \in {"add", "attest"} => current \in (Cred \cap keys) \ OfAdmin
  /\ phase = "sign" => current \in Cred
  /\ phase \notin {"verifyGet", "increment", "sign"} => todo = {}
  /\ phase \notin {"increment", "sign"} => signed = <<>>
  /\ phase = "add" => current \notin fresh
  /\ adminCred # NoCred => adminCred \in OfAdmin \ fresh

(* A new id is in no table, and nothing has been signed or asked for it.   *)
NewInv ==
  \A c \in New :
    /\ file[c] = Absent /\ cache[c] = Absent
    /\ c \notin todo
    /\ last[c] = Absent
    /\ misses[c] = 0

(* The file is above the counts that websites have seen, ...               *)
FileInv == \A c \in Cred : file[c] = Absent \/ last[c] <= file[c]

(* ... and a response between the two, so that it can be released.         *)
Releasable(c, n) ==
  /\ c \in Cred \ New
  /\ last[c] < n
  /\ file[c] = Absent \/ n <= file[c]

Creds(s) == {s[i].cred : i \in 1..Len(s)}
Distinct(s) == \A i, j \in 1..Len(s) : s[i].cred = s[j].cred => i = j
AllReleasable(s) == \A i \in 1..Len(s) : Releasable(s[i].cred, s[i].count)

(* The credentials that the ceremony under way may still assert.           *)
Granted ==
  IF phase \in {"increment", "sign"}
    THEN todo \cup Creds(signed) \cup {c \in Cred : phase = "sign" /\ c = current}
    ELSE {}

ResponseInv ==
  /\ Distinct(pending) /\ AllReleasable(pending)
  /\ Distinct(signed) /\ AllReleasable(signed)
  /\ todo \cap Creds(signed) = {}
  /\ phase = "sign" =>
       /\ current \notin todo \cup Creds(signed)
       /\ cache[current] # Absent
       /\ Releasable(current, cache[current])

(* Checks have paid for what waits and for what is being signed.           *)
CreditInv ==
  \A c \in Cred :
    /\ credit[c] >= 0
    /\ c \in Creds(pending) \/ c \in Granted => credit[c] >= 1
    /\ c \in Creds(pending) /\ c \in Granted => credit[c] >= 2

StoredInv ==
  /\ AnsweredIsStored
  /\ phase = "attest" => current \in Stored(file) \cup gone

KeysInv ==
  /\ RecordsHaveKeys
  /\ phase = "destroyKeys" => Stored(file) \subseteq OfAdmin

MissInv ==
  \A c \in Cred :
    misses[c] = 0 \/ (misses[c] = 1 /\ file[c] = Absent /\ cache[c] = Absent /\ c \notin todo)

IInv ==
  /\ TypeOK /\ PhaseInv /\ NewInv /\ FileInv /\ ResponseInv /\ CreditInv
  /\ StoredInv /\ KeysInv /\ MissInv

-----------------------------------------------------------------------------
(* Facts about the tables and the responses. *)

(* A count, or its absence, is a number.                                   *)
LEMMA CountsAreNumbers ==
  ASSUME NEW t \in Table, NEW c \in Cred
  PROVE  t[c] \in Int /\ t[c] <= t[c] /\ (t[c] # Absent => t[c] \in Nat)
BY DEF Table, Absent

(* The operations on a table give a table.                                 *)
LEMMA TablesKept ==
  ASSUME NEW t \in Table, NEW c \in Cred
  PROVE  /\ WithAdded(t, c) \in Table
         /\ t[c] # Absent => WithIncremented(t, c) \in Table
         /\ WithRemoved(t, c) \in Table
         /\ EmptyTable \in Table
BY DEF Table, WithAdded, WithIncremented, WithRemoved, EmptyTable, Absent

(* No responses; and what the release of one changes.                      *)
LEMMA NoResponses == <<>> \in Seq(Response)
BY EmptySeq

LEMMA ReleaseKeepsTypes ==
  ASSUME TypeOK, NEW r \in Response, Release(r)
  PROVE  /\ last' \in Table /\ credit' \in [Cred -> Int] /\ checks' \in 0..MaxChecks
         /\ silent' \in [Cred -> 0..MaxSilent]
<1>1. r.cred \in Cred /\ r.count \in Nat
  BY DEF Response
<1>2. last' \in Table
  BY <1>1 DEF TypeOK, Release, Table
<1>3. credit' \in [Cred -> Int]
  BY <1>1 DEF TypeOK, Release
<1> QED
  BY <1>2, <1>3 DEF TypeOK, Release

(* A silent assertion changes nothing but the number of them.              *)
otherVars == <<storeVars, fresh, keys, phase, requestVars, nextVars, young, adminVars,
               checks, last, credit, answered, misses>>

Silent == \E c \in Cred : SilentAssertion(c)

LEMMA OthersUnchanged == Silent \/ UNCHANGED vars => UNCHANGED otherVars
BY DEF Silent, SilentAssertion, otherVars, vars, gateVars

(* Signing: one response more, and the first of them to be released.       *)
LEMMA SignedProperties ==
  ASSUME TypeOK, current \in Cred, cache[current] # Absent
  PROVE  /\ Signed \in Seq(Response)
         /\ Len(Signed) = Len(signed) + 1
         /\ \A i \in 1..Len(signed) : Signed[i] = signed[i]
         /\ Signed[Len(signed) + 1] = [cred |-> current, count |-> cache[current]]
         /\ Head(Signed) = Signed[1]
         /\ Tail(Signed) \in Seq(Response)
         /\ Len(Tail(Signed)) = Len(signed)
         /\ \A i \in 1..Len(signed) : Tail(Signed)[i] = Signed[i + 1]
<1>1. [cred |-> current, count |-> cache[current]] \in Response /\ signed \in Seq(Response)
  BY DEF TypeOK, Response, Table, Absent
<1>2. /\ Signed \in Seq(Response) /\ Signed # <<>> /\ Len(Signed) = Len(signed) + 1
      /\ \A i \in 1..Len(signed) : Signed[i] = signed[i]
      /\ Signed[Len(signed) + 1] = [cred |-> current, count |-> cache[current]]
  BY <1>1, AppendProperties DEF Signed
<1>3. /\ Tail(Signed) \in Seq(Response) /\ Len(Tail(Signed)) = Len(Signed) - 1
      /\ \A i \in 1..Len(Tail(Signed)) : Tail(Signed)[i] = Signed[i + 1]
  BY <1>2, HeadTailProperties
<1> QED
  BY <1>1, <1>2, <1>3

-----------------------------------------------------------------------------
(* Types, and what a ceremony has at hand. *)

(* Everything starts empty.                                                *)
LEMMA InitInv == Init => IInv
<1> SUFFICES ASSUME Init PROVE IInv
  OBVIOUS
<1> USE AuthenticatorAssumption DEF Init
<1>1. TypeOK
  <2>1. EmptyTable \in Table /\ [c \in Cred |-> Absent] \in Table
    BY DEF EmptyTable, Table
  <2>2. file \in Table /\ cache \in Table /\ last \in Table
    BY <2>1
  <2>3. /\ checks \in 0..MaxChecks /\ credit \in [Cred -> Int] /\ misses \in [Cred -> Nat]
        /\ silent \in [Cred -> 0..MaxSilent]
    OBVIOUS
  <2>4. signed \in Seq(Response) /\ pending \in Seq(Response)
    BY NoResponses
  <2> QED
    BY <2>2, <2>3, <2>4 DEF TypeOK, Phase, Verifying
<1>2. Len(pending) = 0 /\ Len(signed) = 0 /\ New = Cred
  BY DEF New
<1>3. PhaseInv /\ NewInv /\ FileInv
  BY <1>2 DEF PhaseInv, NewInv, FileInv, EmptyTable
<1>4. ResponseInv
  BY <1>2 DEF ResponseInv, Distinct, AllReleasable, Creds
<1>5. CreditInv /\ MissInv
  BY <1>2 DEF CreditInv, MissInv, Granted, Creds
<1>6. StoredInv /\ KeysInv
  BY DEF StoredInv, KeysInv, AnsweredIsStored, RecordsHaveKeys, Stored, EmptyTable
<1> QED
  BY <1>1, <1>3, <1>4, <1>5, <1>6 DEF IInv

(* Every step keeps the types.                                             *)
LEMMA TypeStep ==
  ASSUME TypeOK, PhaseInv, NewInv, ResponseInv, [Next]_vars
  PROVE  TypeOK'
<1> USE AuthenticatorAssumption
    DEF TypeOK, Phase, Verifying, Done, Write, WriteFails, AdminWrites, FaceSeen,
        storeVars, requestVars, nextVars, adminVars, gateVars
<1>1. ASSUME NEW c \in Cred, NEW exclude \in SUBSET Cred, MakeCredential(c, exclude)
      PROVE  TypeOK'
  BY <1>1 DEF MakeCredential
<1>2. ASSUME NEW found \in SUBSET Cred, GetAssertion(found) PROVE TypeOK'
  BY <1>2 DEF GetAssertion
<1>0. ASSUME NEW c \in Cred, SilentAssertion(c) PROVE TypeOK'
  <2>1. silent[c] + 1 \in 0..MaxSilent
    BY <1>0 DEF SilentAssertion
  <2> QED
    BY <1>0, <2>1 DEF SilentAssertion
<1>3. CASE Reset \/ Selection \/ VerifyFails
  BY <1>3, NoResponses DEF Reset, Selection, VerifyFails
<1>4. CASE VerifiedMake \/ VerifiedReset \/ VerifiedSelect
  <2>1. checks' \in 0..MaxChecks
    BY <1>4 DEF VerifiedMake, VerifiedReset, VerifiedSelect
  <2> QED
    BY <1>4, <2>1, NoResponses DEF VerifiedMake, VerifiedReset, VerifiedSelect
<1>5. CASE VerifiedGet
  BY <1>5 DEF VerifiedGet
<1>6. CASE GenerateKey
  BY <1>6 DEF GenerateKey, PhaseInv
<1>7. CASE AddRecord \/ AddFails
  <2>1. WithAdded(file, current) \in Table
    BY <1>7, TablesKept DEF AddRecord, AddFails, PhaseInv
  <2>2. CASE AddRecord
    BY <2>1, <2>2 DEF AddRecord, Stored
  <2>3. CASE AddFails
    BY <2>1, <2>3, NoResponses DEF AddFails
  <2> QED
    BY <1>7, <2>2, <2>3
<1>8. CASE Attest
  BY <1>8, NoResponses DEF Attest, PhaseInv
<1>9. CASE KeyStoreFails \/ GetNextTooLate
  BY <1>9, NoResponses DEF KeyStoreFails, GetNextTooLate
<1>10. ASSUME NEW c \in Cred, Increment(c) \/ IncrementMisses(c) \/ IncrementFails(c)
       PROVE  TypeOK'
  <2>1. file[c] # Absent => WithIncremented(file, c) \in Table
    BY TablesKept
  <2>2. CASE Increment(c)
    BY <2>1, <2>2 DEF Increment, Stored
  <2>3. CASE IncrementMisses(c)
    <3>1. misses' \in [Cred -> Nat]
      BY <2>3 DEF IncrementMisses
    <3> QED
      BY <2>3, <3>1, NoResponses DEF IncrementMisses
  <2>4. CASE IncrementFails(c)
    BY <2>1, <2>4, NoResponses DEF IncrementFails
  <2> QED
    BY <1>10, <2>2, <2>3, <2>4
<1>11. CASE SignMore
  BY <1>11, SignedProperties DEF SignMore, PhaseInv, ResponseInv
<1>12. CASE SignLast
  <2>1. /\ Tail(Signed) \in Seq(Response) /\ Head(Signed) \in Response
    <3>1. Signed \in Seq(Response) /\ Len(Signed) >= 1 /\ Tail(Signed) \in Seq(Response)
          /\ Head(Signed) = Signed[1]
      BY <1>12, SignedProperties, LenProperties DEF SignLast, PhaseInv, ResponseInv
    <3> QED
      BY <3>1, ElementOfSeq, LenProperties
  <2> HIDE DEF Signed
  <2> QED
    BY <1>12, <2>1, NoResponses, ReleaseKeepsTypes DEF SignLast
<1>13. CASE GetNextAssertion
  <2>1. Tail(pending) \in Seq(Response) /\ Head(pending) \in Response
    BY <1>13, HeadTailProperties DEF GetNextAssertion
  <2> QED
    BY <1>13, <2>1, ReleaseKeepsTypes DEF GetNextAssertion
<1>14. CASE DestroyRecords \/ DestroyKeys
  <2>1. EmptyTable \in Table
    BY DEF EmptyTable, Table
  <2>2. CASE DestroyRecords
    BY <2>1, <2>2, NoResponses DEF DestroyRecords, Stored
  <2>3. CASE DestroyKeys
    BY <2>3, NoResponses DEF DestroyKeys
  <2> QED
    BY <1>14, <2>2, <2>3
<1>15. CASE Admin
  <2>1. CASE AdminAdds
    <3>1. WithAdded(file, adminCred) \in Table
      BY <2>1, TablesKept DEF AdminAdds
    <3>2. /\ file' \in Table /\ cache' \in Table /\ gone' \subseteq Cred
          /\ adminCred' \in Cred \cup {NoCred}
      BY <2>1, <3>1 DEF AdminAdds, Stored
    <3> QED
      BY <2>1, <3>2 DEF AdminAdds
  <2>2. CASE AdminGivesUp
    BY <2>2 DEF AdminGivesUp
  <2>3. ASSUME NEW c \in Cred, AdminKey(c) \/ AdminRemoves(c) \/ AdminAuthenticates(c)
        PROVE  TypeOK'
    BY <2>3, TablesKept DEF AdminKey, AdminRemoves, AdminAuthenticates, Stored
  <2> QED
    BY <1>15, <2>1, <2>2, <2>3 DEF Admin
<1>16. CASE TimePasses \/ Restart
  BY <1>16, NoResponses DEF TimePasses, Restart
<1>17. CASE UNCHANGED vars
  BY <1>17 DEF vars
<1> QED
  BY <1>0, <1>1, <1>2, <1>3, <1>4, <1>5, <1>6, <1>7, <1>8, <1>9, <1>10, <1>11, <1>12, <1>13,
     <1>14, <1>15, <1>16, <1>17
  DEF Next, Ceremony

(* Every step leaves what the next one needs.                              *)
LEMMA PhaseStep ==
  ASSUME TypeOK, PhaseInv, [Next]_vars
  PROVE  PhaseInv'
<1> USE AuthenticatorAssumption DEF TypeOK, PhaseInv, Verifying, requestVars, adminVars, Done
<1>1. ASSUME NEW c \in Cred, NEW exclude \in SUBSET Cred, MakeCredential(c, exclude)
      PROVE  PhaseInv'
  BY <1>1 DEF MakeCredential
<1>2. ASSUME NEW found \in SUBSET Cred, GetAssertion(found) PROVE PhaseInv'
  BY <1>2 DEF GetAssertion
<1>3. CASE \/ Reset \/ Selection \/ VerifyFails \/ VerifiedMake \/ VerifiedGet
           \/ VerifiedReset \/ VerifiedSelect
  BY <1>3 DEF Reset, Selection, VerifyFails, VerifiedMake, VerifiedGet, VerifiedReset,
              VerifiedSelect
<1>4. CASE GenerateKey \/ AddRecord \/ AddFails \/ Attest \/ KeyStoreFails
  BY <1>4 DEF GenerateKey, AddRecord, AddFails, Attest, KeyStoreFails
<1>5. ASSUME NEW c \in Cred, Increment(c) \/ IncrementMisses(c) \/ IncrementFails(c)
      PROVE  PhaseInv'
  BY <1>5 DEF Increment, IncrementMisses, IncrementFails
<1>6. CASE SignMore \/ SignLast \/ GetNextAssertion \/ GetNextTooLate
  BY <1>6 DEF SignMore, SignLast, GetNextAssertion, GetNextTooLate
<1>7. CASE DestroyRecords \/ DestroyKeys
  BY <1>7 DEF DestroyRecords, DestroyKeys
<1>8. CASE AdminAdds \/ AdminGivesUp
  BY <1>8 DEF AdminAdds, AdminGivesUp
<1>9. ASSUME NEW c \in Cred, AdminKey(c) \/ AdminRemoves(c) \/ AdminAuthenticates(c)
      PROVE  PhaseInv'
  BY <1>9 DEF AdminKey, AdminRemoves, AdminAuthenticates
<1>10. CASE TimePasses \/ Restart \/ UNCHANGED otherVars
  BY <1>10 DEF TimePasses, Restart, otherVars
<1> QED
  BY <1>1, <1>2, <1>3, <1>4, <1>5, <1>6, <1>7, <1>8, <1>9, <1>10, OthersUnchanged
  DEF Next, Ceremony, Admin, Silent

-----------------------------------------------------------------------------
(* What a step may do to the tables: a new id stays out of them until it   *)
(* is no longer new, an id that is not new comes never back, and the count *)
(* of one that stays does not fall.                                        *)
TablesMove ==
  /\ New' \subseteq New
  /\ \A c \in New' : file'[c] = Absent /\ cache'[c] = Absent
  /\ \A c \in Cred \ New :
       /\ file'[c] = Absent \/ (file[c] # Absent /\ file[c] <= file'[c])
       /\ file[c] = Absent /\ cache[c] = Absent => cache'[c] = Absent
  /\ Stored(file) \cup gone \subseteq Stored(file') \cup gone'

(* Most steps touch no table.                                              *)
LEMMA TablesUntouched ==
  ASSUME TypeOK, NewInv, New' \subseteq New, file' = file, gone' = gone,
         cache' \in {cache, file}
  PROVE  TablesMove
<1>1. \A c \in Cred : file[c] <= file[c]
  BY CountsAreNumbers DEF TypeOK
<1>2. New \subseteq Cred
  BY DEF New, TypeOK
<1> QED
  BY <1>1, <1>2 DEF NewInv, TablesMove, Stored

(* The others make a new table of the file, in which no new id appears.    *)
LEMMA TablesChanged ==
  ASSUME TypeOK, NewInv, NEW t \in Table, New' \subseteq New,
         \A c \in New' : t[c] = Absent,
         \A c \in Cred \ New : t[c] = Absent \/ (file[c] # Absent /\ file[c] <= t[c]),
         Write(t) \/ WriteFails(t) \/ AdminWrites(t)
  PROVE  TablesMove
<1>1. \A c \in Cred : file[c] \in Int /\ cache[c] \in Int /\ t[c] \in Int
  BY DEF TypeOK, Table, Absent
<1>2. New \subseteq Cred
  BY DEF New, TypeOK
<1>3. CASE WriteFails(t)
  BY <1>1, <1>2, <1>3 DEF WriteFails, TablesMove, NewInv
<1>4. CASE Write(t) \/ AdminWrites(t)
  <2>1. file' = t /\ cache' \in {t, cache} /\ gone' = gone \cup (Stored(file) \ Stored(t))
    BY <1>4 DEF Write, AdminWrites
  <2>2. Stored(file) \cup gone \subseteq Stored(file') \cup gone'
    BY <2>1
  <2>3. \A c \in New' : file'[c] = Absent /\ cache'[c] = Absent
    BY <2>1 DEF NewInv
  <2>4. \A c \in Cred \ New :
          /\ file'[c] = Absent \/ (file[c] # Absent /\ file[c] <= file'[c])
          /\ file[c] = Absent /\ cache[c] = Absent => cache'[c] = Absent
    BY <2>1
  <2> QED
    BY <2>2, <2>3, <2>4 DEF TablesMove
<1> QED
  BY <1>3, <1>4

(* A count goes up.                                                        *)
LEMMA TablesIncremented ==
  ASSUME TypeOK, NewInv, New' = New, NEW c \in Cred, file[c] # Absent,
         \/ Write(WithIncremented(file, c)) \/ WriteFails(WithIncremented(file, c))
         \/ AdminWrites(WithIncremented(file, c))
  PROVE  TablesMove
<1>1. WithIncremented(file, c) \in Table
  BY TablesKept DEF TypeOK
<1>2. \A d \in Cred \ {c} : WithIncremented(file, c)[d] = file[d] /\ file[d] <= file[d]
  BY CountsAreNumbers DEF WithIncremented, TypeOK
<1>3. file[c] <= WithIncremented(file, c)[c] /\ c \notin New /\ New \subseteq Cred
  BY DEF WithIncremented, TypeOK, Table, Absent, NewInv, New
<1> QED
  BY <1>1, <1>2, <1>3, TablesChanged DEF NewInv

(* Every step moves the tables so.                                         *)
LEMMA TablesStep ==
  ASSUME TypeOK, PhaseInv, NewInv, [Next]_vars
  PROVE  TablesMove
<1> USE AuthenticatorAssumption
    DEF PhaseInv, requestVars, adminVars, storeVars, Done
<1>1. ASSUME NEW c \in Cred, NEW exclude \in SUBSET Cred, MakeCredential(c, exclude)
      PROVE  TablesMove
  BY <1>1, TablesUntouched DEF MakeCredential, New
<1>2. ASSUME NEW found \in SUBSET Cred, GetAssertion(found) PROVE TablesMove
  BY <1>2, TablesUntouched DEF GetAssertion, New
<1>3. CASE \/ Reset \/ Selection \/ VerifyFails \/ VerifiedMake \/ VerifiedGet
           \/ VerifiedReset \/ VerifiedSelect
  BY <1>3, TablesUntouched
  DEF Reset, Selection, VerifyFails, VerifiedMake, VerifiedGet, VerifiedReset,
      VerifiedSelect, New, Verifying
<1>4. CASE GenerateKey \/ Attest \/ KeyStoreFails
  BY <1>4, TablesUntouched DEF GenerateKey, Attest, KeyStoreFails, New
<1>5. CASE \/ SignMore \/ SignLast \/ GetNextAssertion \/ GetNextTooLate
           \/ DestroyKeys \/ AdminGivesUp \/ TimePasses \/ Restart \/ UNCHANGED otherVars
  BY <1>5, TablesUntouched
  DEF SignMore, SignLast, GetNextAssertion, GetNextTooLate, DestroyKeys, AdminGivesUp,
      TimePasses, Restart, otherVars, New
<1>6. ASSUME NEW c \in Cred, AdminKey(c) \/ IncrementMisses(c) PROVE TablesMove
  BY <1>6, TablesUntouched DEF AdminKey, IncrementMisses, New
<1>7. CASE AddRecord \/ AddFails
  <2>1. current \in Cred /\ current \notin fresh /\ current # adminCred
    BY <1>7 DEF AddRecord, AddFails
  <2>2. New' = New \ {current}
    BY <1>7, <2>1 DEF AddRecord, AddFails, New
  <2>3. \A c \in Cred \ {current} : WithAdded(file, current)[c] \in {Absent, file[c]}
    BY DEF WithAdded
  <2>4. CASE UNCHANGED storeVars
    BY <2>2, <2>4, TablesUntouched
  <2>5. CASE Write(WithAdded(file, current)) \/ WriteFails(WithAdded(file, current))
    <3>1. WithAdded(file, current) \in Table
      BY <2>1, TablesKept DEF TypeOK
    <3>2. current \in New
      BY <1>7, <2>1 DEF AddRecord, AddFails, New
    <3>3. \A c \in New' : WithAdded(file, current)[c] = Absent
      BY <2>2, <2>3 DEF NewInv, New, TypeOK
    <3>4. \A c \in Cred : file[c] <= file[c]
      BY CountsAreNumbers DEF TypeOK
    <3>5. \A c \in Cred \ New :
            \/ WithAdded(file, current)[c] = Absent
            \/ file[c] # Absent /\ file[c] <= WithAdded(file, current)[c]
      BY <2>3, <3>2, <3>4
    <3> QED
      BY <2>2, <2>5, <3>1, <3>3, <3>5, TablesChanged
  <2> QED
    BY <1>7, <2>4, <2>5 DEF AddRecord, AddFails
<1>8. ASSUME NEW c \in Cred, Increment(c) \/ IncrementFails(c) PROVE TablesMove
  <2>1. New' = New
    BY <1>8 DEF Increment, IncrementFails, New
  <2>2. CASE UNCHANGED storeVars
    BY <2>1, <2>2, TablesUntouched
  <2>3. CASE file[c] # Absent
             /\ (Write(WithIncremented(file, c)) \/ WriteFails(WithIncremented(file, c)))
    BY <2>1, <2>3, TablesIncremented
  <2> QED
    BY <1>8, <2>2, <2>3 DEF Increment, IncrementFails
<1>9. CASE DestroyRecords
  <2>1. EmptyTable \in Table /\ \A c \in Cred : EmptyTable[c] = Absent
    BY DEF EmptyTable, Table
  <2>2. New' = New /\ New \subseteq Cred
    BY <1>9 DEF DestroyRecords, New, TypeOK
  <2> QED
    BY <1>9, <2>1, <2>2, TablesUntouched, TablesChanged DEF DestroyRecords
<1>10. CASE AdminAdds
  <2>1. adminCred \in Cred /\ adminCred \notin fresh /\ ~(phase = "add" /\ current = adminCred)
    BY <1>10 DEF AdminAdds, TypeOK
  <2>2. New' = New \ {adminCred} /\ adminCred \in New
    BY <1>10, <2>1 DEF AdminAdds, New
  <2>3. \A c \in Cred \ {adminCred} : WithAdded(file, adminCred)[c] \in {Absent, file[c]}
    BY DEF WithAdded
  <2>4. WithAdded(file, adminCred) \in Table
    BY <2>1, TablesKept DEF TypeOK
  <2>5. \A c \in New' : WithAdded(file, adminCred)[c] = Absent
    BY <2>2, <2>3 DEF NewInv, New, TypeOK
  <2>6. \A c \in Cred \ New :
          \/ WithAdded(file, adminCred)[c] = Absent
          \/ file[c] # Absent /\ file[c] <= WithAdded(file, adminCred)[c]
    <3>1. \A c \in Cred : file[c] <= file[c]
      BY CountsAreNumbers DEF TypeOK
    <3> QED
      BY <2>2, <2>3, <3>1
  <2> QED
    BY <1>10, <2>2, <2>4, <2>5, <2>6, TablesChanged DEF AdminAdds
<1>11. ASSUME NEW c \in Cred, AdminRemoves(c) PROVE TablesMove
  <2>1. New' = New /\ New \subseteq Cred
    BY <1>11 DEF AdminRemoves, New, TypeOK
  <2>2. WithRemoved(file, c) \in Table
    BY TablesKept DEF TypeOK
  <2>3. \A d \in Cred : WithRemoved(file, c)[d] \in {Absent, file[d]}
    BY DEF WithRemoved, TypeOK, Table
  <2>4. \A d \in Cred : file[d] <= file[d]
    BY CountsAreNumbers DEF TypeOK
  <2> QED
    BY <1>11, <2>1, <2>2, <2>3, <2>4, TablesChanged DEF AdminRemoves, NewInv
<1>12. ASSUME NEW c \in Cred, AdminAuthenticates(c) PROVE TablesMove
  <2>1. New' = New
    BY <1>12 DEF AdminAuthenticates, New
  <2> QED
    BY <1>12, <2>1, TablesIncremented DEF AdminAuthenticates
<1> QED
  BY <1>1, <1>2, <1>3, <1>4, <1>5, <1>6, <1>7, <1>8, <1>9, <1>10, <1>11, <1>12, OthersUnchanged
  DEF Next, Ceremony, Admin, Silent

-----------------------------------------------------------------------------
(* The responses that are signed, wait and are released. *)

(* What is true of a list of responses is true of its tail, in which the   *)
(* credential of its head does not occur.                                  *)
LEMMA TailIsReleasable ==
  ASSUME NEW s \in Seq(Response), s # <<>>, Distinct(s), AllReleasable(s)
  PROVE  /\ Head(s) \in Response /\ Releasable(Head(s).cred, Head(s).count)
         /\ Distinct(Tail(s)) /\ AllReleasable(Tail(s))
         /\ Creds(s) = {Head(s).cred} \cup Creds(Tail(s))
         /\ Head(s).cred \notin Creds(Tail(s))
<1>1. /\ Len(s) \in Nat \ {0} /\ Head(s) = s[1] /\ Head(s) \in Response
      /\ Len(Tail(s)) = Len(s) - 1
      /\ \A i \in 1..(Len(s) - 1) : Tail(s)[i] = s[i + 1]
  BY HeadTailProperties, EmptySeq
<1>2. \A i \in 1..Len(Tail(s)) : i + 1 \in 1..Len(s) /\ Tail(s)[i] = s[i + 1]
  BY <1>1
<1>3. Releasable(Head(s).cred, Head(s).count) /\ AllReleasable(Tail(s))
  BY <1>1, <1>2 DEF AllReleasable
<1>4. Distinct(Tail(s)) /\ Head(s).cred \notin Creds(Tail(s))
  BY <1>1, <1>2 DEF Distinct, Creds
<1>5. Creds(s) = {Head(s).cred} \cup Creds(Tail(s))
  <2>1. \A i \in 1..Len(s) : i = 1 \/ (i - 1 \in 1..Len(Tail(s)) /\ Tail(s)[i - 1] = s[i])
    BY <1>1
  <2>2. ASSUME NEW c \in Creds(s) PROVE c \in {Head(s).cred} \cup Creds(Tail(s))
    <3>1. PICK i \in 1..Len(s) : c = s[i].cred
      BY DEF Creds
    <3> QED
      BY <1>1, <2>1, <3>1 DEF Creds
  <2>3. \A c : c \in {Head(s).cred} \cup Creds(Tail(s)) => c \in Creds(s)
    BY <1>1, <1>2 DEF Creds
  <2> QED
    BY <2>2, <2>3
<1> QED
  BY <1>1, <1>3, <1>4, <1>5

(* The response being signed joins the others.                             *)
LEMMA SignedIsReleasable ==
  ASSUME TypeOK, PhaseInv, ResponseInv, phase = "sign"
  PROVE  /\ Signed \in Seq(Response) /\ Signed # <<>>
         /\ Distinct(Signed) /\ AllReleasable(Signed)
         /\ Creds(Signed) = Creds(signed) \cup {current}
<1>1. /\ Signed \in Seq(Response) /\ Len(signed) \in Nat
      /\ Len(Signed) = Len(signed) + 1
      /\ \A i \in 1..Len(signed) : Signed[i] = signed[i]
      /\ Signed[Len(signed) + 1].cred = current
      /\ Signed[Len(signed) + 1].count = cache[current]
  BY SignedProperties, LenProperties DEF PhaseInv, ResponseInv, TypeOK
<1> HIDE DEF Signed
<1>2. /\ Distinct(signed) /\ AllReleasable(signed) /\ current \notin Creds(signed)
      /\ Releasable(current, cache[current])
  BY DEF ResponseInv
<1>3. \A i \in 1..Len(Signed) : i = Len(signed) + 1 \/ i \in 1..Len(signed)
  BY <1>1
<1>4. Signed # <<>>
  BY <1>1, EmptySeq
<1>5. AllReleasable(Signed)
  BY <1>1, <1>2, <1>3 DEF AllReleasable
<1>6. Distinct(Signed)
  BY <1>1, <1>2, <1>3 DEF Distinct, Creds
<1>7. Creds(Signed) = Creds(signed) \cup {current}
  <2>1. \A c : c \in Creds(Signed) => c \in Creds(signed) \cup {current}
    BY <1>1, <1>3 DEF Creds
  <2>2. \A c : c \in Creds(signed) \cup {current} => c \in Creds(Signed)
    BY <1>1 DEF Creds
  <2> QED
    BY <2>1, <2>2
<1> QED
  BY <1>1, <1>4, <1>5, <1>6, <1>7

(* What a step may do to the requests of a ceremony and to the histories.  *)
RequestMove ==
  /\ todo' \subseteq todo \/ todo' \subseteq Stored(cache)
  /\ \A c \in Cred :
       \/ misses'[c] = misses[c]
       \/ /\ c \in todo /\ todo' = {}
          /\ misses'[c] = misses[c] + 1
          /\ file'[c] = Absent /\ cache'[c] = Absent
  /\ \A c \in Cred : last'[c] = last[c] \/ Releasable(c, last'[c])

(* A response that may be released is.                                     *)
LEMMA ReleaseMoves ==
  ASSUME TypeOK, NEW r \in Response, Releasable(r.cred, r.count), Release(r)
  PROVE  \A c \in Cred : last'[c] = last[c] \/ Releasable(c, last'[c])
<1>1. r.cred \in Cred /\ r.count \in Nat
  BY DEF Response
<1> QED
  BY <1>1 DEF Release, TypeOK, Table

(* Every step moves them so.                                               *)
LEMMA RequestStep ==
  ASSUME TypeOK, PhaseInv, ResponseInv, [Next]_vars
  PROVE  RequestMove
<1> USE DEF RequestMove, requestVars, gateVars, Done, FaceSeen
<1>1. ASSUME NEW c \in Cred, NEW exclude \in SUBSET Cred, MakeCredential(c, exclude)
      PROVE  RequestMove
  BY <1>1 DEF MakeCredential
<1>2. ASSUME NEW found \in SUBSET Cred, GetAssertion(found) PROVE RequestMove
  BY <1>2 DEF GetAssertion
<1>3. CASE \/ Reset \/ Selection \/ VerifyFails \/ VerifiedMake \/ VerifiedGet
           \/ VerifiedReset \/ VerifiedSelect
  BY <1>3 DEF Reset, Selection, VerifyFails, VerifiedMake, VerifiedGet, VerifiedReset,
              VerifiedSelect
<1>4. CASE GenerateKey \/ AddRecord \/ AddFails \/ Attest \/ KeyStoreFails
  BY <1>4 DEF GenerateKey, AddRecord, AddFails, Attest, KeyStoreFails
<1>5. ASSUME NEW c \in Cred, Increment(c) \/ IncrementFails(c) PROVE RequestMove
  BY <1>5 DEF Increment, IncrementFails
<1>6. ASSUME NEW c \in Cred, IncrementMisses(c) PROVE RequestMove
  BY <1>6 DEF IncrementMisses, TypeOK
<1>7. CASE SignMore \/ GetNextTooLate
  BY <1>7 DEF SignMore, GetNextTooLate
<1>8. CASE SignLast
  BY <1>8, SignedIsReleasable, TailIsReleasable, ReleaseMoves DEF SignLast
<1>9. CASE GetNextAssertion
  BY <1>9, TailIsReleasable, ReleaseMoves DEF GetNextAssertion, ResponseInv, TypeOK
<1>10. CASE DestroyRecords \/ DestroyKeys
  BY <1>10 DEF DestroyRecords, DestroyKeys
<1>11. CASE AdminAdds \/ AdminGivesUp \/ TimePasses \/ Restart \/ UNCHANGED otherVars
  BY <1>11 DEF AdminAdds, AdminGivesUp, TimePasses, Restart, otherVars
<1>12. ASSUME NEW c \in Cred, AdminKey(c) \/ AdminRemoves(c) \/ AdminAuthenticates(c)
       PROVE  RequestMove
  BY <1>12 DEF AdminKey, AdminRemoves, AdminAuthenticates
<1> QED
  BY <1>1, <1>2, <1>3, <1>4, <1>5, <1>6, <1>7, <1>8, <1>9, <1>10, <1>11, <1>12, OthersUnchanged
  DEF Next, Ceremony, Admin, Silent

(* Nothing is signed for a new id, and it is missed nowhere.               *)
LEMMA NewStep ==
  ASSUME TypeOK, NewInv, TablesMove, RequestMove
  PROVE  NewInv'
<1>1. New \subseteq Cred
  BY DEF New, TypeOK
<1> QED
  BY <1>1 DEF NewInv, TablesMove, RequestMove, Releasable, Stored

(* The file stays above what was released.                                 *)
LEMMA FileStep ==
  ASSUME TypeOK, TypeOK', NewInv, FileInv, TablesMove, RequestMove
  PROVE  FileInv'
<1> SUFFICES ASSUME NEW c \in Cred, file'[c] # Absent
             PROVE  last'[c] <= file'[c]
  BY DEF FileInv
<1>1. file[c] \in Int /\ file'[c] \in Nat /\ last[c] \in Int /\ last'[c] \in Int
  BY CountsAreNumbers DEF TypeOK
<1>2. CASE c \in New
  BY <1>1, <1>2 DEF NewInv, RequestMove, Releasable, Absent
<1>3. CASE c \notin New
  BY <1>1, <1>3 DEF FileInv, TablesMove, RequestMove, Releasable
<1> QED
  BY <1>2, <1>3

(* Whoever missed a record misses it no second time.                       *)
LEMMA MissStep ==
  ASSUME TypeOK, TypeOK', NewInv, MissInv, TablesMove, RequestMove
  PROVE  MissInv'
<1> SUFFICES ASSUME NEW c \in Cred
             PROVE  \/ misses'[c] = 0
                    \/ /\ misses'[c] = 1 /\ c \notin todo'
                       /\ file'[c] = Absent /\ cache'[c] = Absent
  BY DEF MissInv
<1>1. CASE misses'[c] = misses[c]
  BY <1>1 DEF MissInv, NewInv, TablesMove, RequestMove, Stored
<1>2. CASE misses'[c] # misses[c]
  BY <1>2 DEF MissInv, RequestMove
<1> QED
  BY <1>1, <1>2

(* What can be released after a step.                                      *)
StillReleasable(c, n) ==
  /\ c \in Cred \ New'
  /\ last'[c] < n
  /\ file'[c] = Absent \/ n <= file'[c]

(* A response can be released until one with a count as high has been.     *)
LEMMA StaysReleasable ==
  ASSUME TypeOK, TypeOK', TablesMove, NEW c, NEW n \in Int, Releasable(c, n), last'[c] < n
  PROVE  StillReleasable(c, n)
<1>1. file[c] \in Int /\ file'[c] \in Int
  BY CountsAreNumbers DEF TypeOK, Releasable
<1> QED
  BY <1>1 DEF StillReleasable, Releasable, TablesMove

(* The same of a list of them.                                             *)
LEMMA ListStaysReleasable ==
  ASSUME TypeOK, TypeOK', TablesMove, NEW s \in Seq(Response), AllReleasable(s),
         \A i \in 1..Len(s) : last'[s[i].cred] = last[s[i].cred]
  PROVE  \A i \in 1..Len(s) : StillReleasable(s[i].cred, s[i].count)
<1> SUFFICES ASSUME NEW i \in 1..Len(s)
             PROVE  StillReleasable(s[i].cred, s[i].count)
  OBVIOUS
<1>1. s[i] \in Response
  BY ElementOfSeq
<1>2. s[i].count \in Int /\ Releasable(s[i].cred, s[i].count)
  BY <1>1 DEF Response, AllReleasable
<1>3. last'[s[i].cred] < s[i].count
  BY <1>2 DEF Releasable
<1> QED
  BY <1>2, <1>3, StaysReleasable

(* A step that releases nothing, and signs nothing or ends the ceremony.   *)
LEMMA ResponsesKept ==
  ASSUME TypeOK, TypeOK', TablesMove, ResponseInv, last' = last,
         pending' \in {pending, <<>>}, signed' \in {signed, <<>>},
         todo' \cap Creds(signed) = {},
         phase' = "sign" => UNCHANGED <<phase, current, cache, todo, signed>>
  PROVE  ResponseInv'
<1>1. ASSUME NEW s \in Seq(Response), Distinct(s), AllReleasable(s), NEW u \in {s, <<>>}
      PROVE  /\ \A i, j \in 1..Len(u) : u[i].cred = u[j].cred => i = j
             /\ \A i \in 1..Len(u) : StillReleasable(u[i].cred, u[i].count)
  <2>1. CASE u = s
    BY <1>1, <2>1, ListStaysReleasable DEF Distinct
  <2>2. CASE u = <<>>
    BY <2>2
  <2> QED
    BY <2>1, <2>2
<1>2. Distinct(pending)' /\ AllReleasable(pending)'
  <2>1. pending \in Seq(Response) /\ Distinct(pending) /\ AllReleasable(pending)
    BY DEF ResponseInv, TypeOK
  <2>2. /\ \A i, j \in 1..Len(pending') : pending'[i].cred = pending'[j].cred => i = j
        /\ \A i \in 1..Len(pending') : StillReleasable(pending'[i].cred, pending'[i].count)
    BY <1>1, <2>1
  <2> QED
    BY <2>2 DEF Distinct, AllReleasable, Releasable, StillReleasable
<1>3. Distinct(signed)' /\ AllReleasable(signed)'
  <2>1. signed \in Seq(Response) /\ Distinct(signed) /\ AllReleasable(signed)
    BY DEF ResponseInv, TypeOK
  <2>2. /\ \A i, j \in 1..Len(signed') : signed'[i].cred = signed'[j].cred => i = j
        /\ \A i \in 1..Len(signed') : StillReleasable(signed'[i].cred, signed'[i].count)
    BY <1>1, <2>1
  <2> QED
    BY <2>2 DEF Distinct, AllReleasable, Releasable, StillReleasable
<1>4. todo' \cap Creds(signed)' = {}
  BY DEF Creds
<1>5. phase' = "sign" =>
        /\ current' \notin todo' \cup Creds(signed)'
        /\ cache'[current'] # Absent
        /\ Releasable(current, cache[current])'
  <2> SUFFICES ASSUME phase' = "sign"
               PROVE  /\ current' \notin todo' \cup Creds(signed)'
                      /\ cache'[current'] # Absent
                      /\ StillReleasable(current', cache'[current'])
    BY DEF Releasable, StillReleasable
  <2>1. /\ current \notin todo \cup Creds(signed) /\ cache[current] # Absent
        /\ Releasable(current, cache[current])
    BY DEF ResponseInv
  <2>2. cache[current] \in Int
    BY <2>1, CountsAreNumbers DEF TypeOK, Releasable
  <2> QED
    BY <2>1, <2>2, StaysReleasable DEF Creds, Releasable
<1> QED
  BY <1>2, <1>3, <1>4, <1>5 DEF ResponseInv

(* Every step leaves responses that can be released.                       *)
LEMMA ResponseStep ==
  ASSUME TypeOK, TypeOK', PhaseInv, NewInv, FileInv, ResponseInv, TablesMove, [Next]_vars
  PROVE  ResponseInv'
<1> USE DEF requestVars, nextVars, gateVars, storeVars, Done, FaceSeen
<1>0. (signed = <<>> => Creds(signed) = {}) /\ todo \cap Creds(signed) = {}
  BY DEF Creds, ResponseInv
<1>1. ASSUME NEW c \in Cred, NEW exclude \in SUBSET Cred, MakeCredential(c, exclude)
      PROVE  ResponseInv'
  BY <1>0, <1>1, ResponsesKept DEF MakeCredential
<1>2. ASSUME NEW found \in SUBSET Cred, GetAssertion(found) PROVE ResponseInv'
  BY <1>0, <1>2, ResponsesKept DEF GetAssertion, PhaseInv
<1>3. CASE \/ Reset \/ Selection \/ VerifyFails \/ VerifiedMake \/ VerifiedGet
           \/ VerifiedReset \/ VerifiedSelect
  BY <1>0, <1>3, ResponsesKept
  DEF Reset, Selection, VerifyFails, VerifiedMake, VerifiedGet, VerifiedReset, VerifiedSelect
<1>4. CASE GenerateKey \/ AddRecord \/ AddFails \/ Attest \/ KeyStoreFails
  BY <1>0, <1>4, ResponsesKept DEF GenerateKey, AddRecord, AddFails, Attest, KeyStoreFails
<1>5. ASSUME NEW c \in Cred, IncrementMisses(c) \/ IncrementFails(c) PROVE ResponseInv'
  BY <1>0, <1>5, ResponsesKept DEF IncrementMisses, IncrementFails
<1>6. CASE GetNextTooLate \/ DestroyRecords \/ DestroyKeys
  BY <1>0, <1>6, ResponsesKept DEF GetNextTooLate, DestroyRecords, DestroyKeys
<1>7. CASE AdminAdds \/ AdminGivesUp \/ TimePasses \/ Restart \/ UNCHANGED otherVars
  BY <1>0, <1>7, ResponsesKept
  DEF AdminAdds, AdminWrites, AdminGivesUp, TimePasses, Restart, otherVars
<1>8. ASSUME NEW c \in Cred, AdminKey(c) \/ AdminRemoves(c) \/ AdminAuthenticates(c)
      PROVE  ResponseInv'
  BY <1>0, <1>8, ResponsesKept DEF AdminKey, AdminRemoves, AdminAuthenticates, AdminWrites
<1>9. ASSUME NEW c \in Cred, Increment(c) PROVE ResponseInv'
  <2>1. /\ UNCHANGED <<pending, signed, last>> /\ current' = c /\ todo' = todo \ {c}
        /\ cache' = file' /\ file'[c] = file[c] + 1 /\ c \in todo /\ file[c] # Absent
    BY <1>9 DEF Increment, Write, WithIncremented, TypeOK, Table
  <2>2. Distinct(pending)' /\ Distinct(signed)' /\ todo' \cap Creds(signed)' = {}
    BY <2>1 DEF ResponseInv, Distinct, Creds
  <2>3. AllReleasable(pending)' /\ AllReleasable(signed)'
    BY <2>1, ListStaysReleasable
    DEF ResponseInv, AllReleasable, Releasable, StillReleasable, TypeOK
  <2>4. current' \notin todo' \cup Creds(signed)'
    BY <2>1 DEF ResponseInv, Creds
  <2>5. file[c] \in Nat /\ last[c] \in Int
    BY <2>1, CountsAreNumbers DEF TypeOK
  <2>6. last[c] < file[c] + 1 /\ c \in Cred \ New
    BY <2>1, <2>5 DEF FileInv, NewInv
  <2>7. Releasable(current, cache[current])' /\ cache'[current'] # Absent
    BY <2>1, <2>5, <2>6 DEF Releasable, TablesMove, Absent
  <2> QED
    BY <2>2, <2>3, <2>4, <2>7 DEF ResponseInv
<1>10. CASE SignMore
  <2>1. /\ UNCHANGED <<pending, todo, last>> /\ signed' = Signed /\ phase' = "increment"
        /\ phase = "sign"
    BY <1>10 DEF SignMore
  <2>2. /\ Signed \in Seq(Response) /\ Distinct(Signed) /\ AllReleasable(Signed)
        /\ Creds(Signed) = Creds(signed) \cup {current}
    BY <2>1, SignedIsReleasable
  <2> HIDE DEF Signed
  <2>3. Distinct(pending)' /\ Distinct(signed)'
    BY <2>1, <2>2 DEF ResponseInv, Distinct
  <2>4. AllReleasable(pending)' /\ AllReleasable(signed)'
    BY <2>1, <2>2, ListStaysReleasable
    DEF ResponseInv, AllReleasable, Releasable, StillReleasable, TypeOK
  <2>5. todo' \cap Creds(signed)' = {}
    <3>1. Creds(signed)' = Creds(Signed)
      BY <2>1 DEF Creds
    <3> QED
      BY <2>1, <2>2, <3>1 DEF ResponseInv
  <2> QED
    BY <2>1, <2>3, <2>4, <2>5 DEF ResponseInv
<1>11. ASSUME NEW s \in Seq(Response), s # <<>>, Distinct(s), AllReleasable(s),
              Release(Head(s)), pending' = Tail(s), signed' = <<>>, todo' = {}, phase' = "idle"
       PROVE  ResponseInv'
  <2>1. /\ Head(s) \in Response /\ Distinct(Tail(s)) /\ AllReleasable(Tail(s))
        /\ Head(s).cred \notin Creds(Tail(s)) /\ Tail(s) \in Seq(Response)
    BY <1>11, TailIsReleasable, HeadTailProperties
  <2>2. \A i \in 1..Len(Tail(s)) : last'[Tail(s)[i].cred] = last[Tail(s)[i].cred]
    <3> SUFFICES ASSUME NEW i \in 1..Len(Tail(s))
                 PROVE  last'[Tail(s)[i].cred] = last[Tail(s)[i].cred]
      OBVIOUS
    <3>1. Tail(s)[i].cred # Head(s).cred
      BY <2>1 DEF Creds
    <3>2. Tail(s)[i] \in Response
      BY <2>1, ElementOfSeq
    <3> QED
      BY <1>11, <3>1, <3>2 DEF Release, TypeOK, Table, Response
  <2>3. AllReleasable(pending)'
    BY <1>11, <2>1, <2>2, ListStaysReleasable DEF AllReleasable, Releasable, StillReleasable
  <2>4. Distinct(pending)'
    BY <1>11, <2>1 DEF Distinct
  <2>5. Distinct(signed)' /\ AllReleasable(signed)'
    BY <1>11 DEF Distinct, AllReleasable
  <2> QED
    BY <1>11, <2>3, <2>4, <2>5 DEF ResponseInv
<1>12. CASE SignLast
  <2>1. /\ Signed \in Seq(Response) /\ Signed # <<>> /\ Distinct(Signed)
        /\ AllReleasable(Signed)
    BY <1>12, SignedIsReleasable DEF SignLast
  <2> HIDE DEF Signed
  <2> QED
    BY <1>11, <1>12, <2>1 DEF SignLast
<1>13. CASE GetNextAssertion
  BY <1>11, <1>13 DEF GetNextAssertion, ResponseInv, PhaseInv, TypeOK
<1> QED
  BY <1>1, <1>2, <1>3, <1>4, <1>5, <1>6, <1>7, <1>8, <1>9, <1>10, <1>12, <1>13, OthersUnchanged
  DEF Next, Ceremony, Admin, Silent

(* A step that adds nothing to what may be released takes no credit.       *)
LEMMA CreditKept ==
  ASSUME TypeOK, CreditInv, credit' = credit, Creds(pending') \subseteq Creds(pending),
         Granted' \subseteq Granted
  PROVE  CreditInv'
BY DEF CreditInv, Creds

(* Every step keeps the balance.                                           *)
LEMMA CreditStep ==
  ASSUME TypeOK, PhaseInv, ResponseInv, CreditInv, [Next]_vars
  PROVE  CreditInv'
<1> USE DEF requestVars, nextVars, gateVars, Done, FaceSeen
<1>0. /\ \A s : s = <<>> => Creds(s) = {}
      /\ phase' \notin {"increment", "sign"} => Granted' = {}
  BY DEF Creds, Granted
<1>1. ASSUME NEW c \in Cred, NEW exclude \in SUBSET Cred, MakeCredential(c, exclude)
      PROVE  CreditInv'
  BY <1>0, <1>1, CreditKept DEF MakeCredential
<1>2. ASSUME NEW found \in SUBSET Cred, GetAssertion(found) PROVE CreditInv'
  BY <1>0, <1>2, CreditKept DEF GetAssertion
<1>3. CASE \/ Reset \/ Selection \/ VerifyFails \/ VerifiedMake \/ VerifiedReset
           \/ VerifiedSelect
  <2>1. phase' \notin {"increment", "sign"} /\ UNCHANGED <<pending, credit>>
    BY <1>3 DEF Reset, Selection, VerifyFails, VerifiedMake, VerifiedReset, VerifiedSelect
  <2> QED
    BY <1>0, <2>1, CreditKept
<1>4. CASE GenerateKey \/ AddRecord \/ AddFails \/ Attest \/ KeyStoreFails
  BY <1>0, <1>4, CreditKept DEF GenerateKey, AddRecord, AddFails, Attest, KeyStoreFails
<1>5. ASSUME NEW c \in Cred, IncrementMisses(c) \/ IncrementFails(c) PROVE CreditInv'
  BY <1>0, <1>5, CreditKept DEF IncrementMisses, IncrementFails
<1>6. CASE GetNextTooLate \/ DestroyRecords \/ DestroyKeys \/ Restart
  BY <1>0, <1>6, CreditKept DEF GetNextTooLate, DestroyRecords, DestroyKeys, Restart
<1>7. CASE AdminAdds \/ AdminGivesUp \/ TimePasses \/ UNCHANGED otherVars
  <2>1. UNCHANGED <<phase, current, todo, signed, pending, credit>>
    BY <1>7 DEF AdminAdds, AdminGivesUp, TimePasses, otherVars
  <2> QED
    BY <2>1, CreditKept DEF Granted, Creds
<1>8. ASSUME NEW c \in Cred, AdminKey(c) \/ AdminRemoves(c) \/ AdminAuthenticates(c)
      PROVE  CreditInv'
  <2>1. UNCHANGED <<phase, current, todo, signed, pending, credit>>
    BY <1>8 DEF AdminKey, AdminRemoves, AdminAuthenticates
  <2> QED
    BY <2>1, CreditKept DEF Granted, Creds
<1>9. ASSUME NEW c \in Cred, Increment(c) PROVE CreditInv'
  <2>1. /\ phase = "increment" /\ phase' = "sign" /\ c \in todo /\ todo' = todo \ {c}
        /\ current' = c /\ UNCHANGED <<pending, signed, credit>>
    BY <1>9 DEF Increment
  <2> QED
    BY <2>1, CreditKept DEF Granted, Creds
<1>10. CASE SignMore
  <2>1. /\ phase = "sign" /\ phase' = "increment" /\ todo' = todo
        /\ signed' = Signed /\ UNCHANGED <<pending, credit>>
    BY <1>10 DEF SignMore
  <2>2. Creds(Signed) = Creds(signed) \cup {current} /\ current \in Cred
    BY <2>1, SignedIsReleasable DEF PhaseInv
  <2> HIDE DEF Signed
  <2>3. Creds(signed)' = Creds(Signed)
    BY <2>1 DEF Creds
  <2>4. Granted' \subseteq Granted
    BY <2>1, <2>2, <2>3 DEF Granted
  <2> QED
    BY <2>1, <2>4, CreditKept
<1>11. CASE VerifiedGet
  <2>1. /\ phase = "verifyGet" /\ phase' = "increment" /\ UNCHANGED <<pending, todo, signed>>
        /\ credit' = [c \in Cred |-> credit[c] + IF c \in todo THEN 1 ELSE 0]
    BY <1>11 DEF VerifiedGet
  <2>2. Granted' \subseteq todo /\ Granted = {} /\ Creds(pending)' = Creds(pending)
    BY <1>0, <2>1 DEF Granted, PhaseInv, Creds
  <2> QED
    BY <2>1, <2>2 DEF CreditInv, TypeOK
<1>12. ASSUME NEW s \in Seq(Response), s # <<>>, Distinct(s), AllReleasable(s),
              Release(Head(s)), pending' = Tail(s), phase' = "idle",
              \A c \in Creds(s) : credit[c] >= 1
       PROVE  CreditInv'
  <2>1. /\ Head(s).cred \in Cred /\ Head(s).cred \notin Creds(pending')
        /\ Creds(s) = {Head(s).cred} \cup Creds(pending')
    BY <1>12, TailIsReleasable DEF Response
  <2>2. \A c \in Cred : credit[c] \in Nat
    BY DEF CreditInv, TypeOK
  <2>3. \A c \in Cred : credit'[c] = IF c = Head(s).cred THEN credit[c] - 1 ELSE credit[c]
    BY <1>12, <2>1 DEF Release, TypeOK
  <2>4. Granted' = {}
    BY <1>0, <1>12
  <2>5. \A c \in Cred : credit'[c] >= 0 /\ (c \in Creds(pending') => credit'[c] >= 1)
    BY <1>12, <2>1, <2>2, <2>3
  <2>6. Creds(pending') = Creds(pending)'
    BY DEF Creds
  <2> QED
    BY <2>4, <2>5, <2>6 DEF CreditInv
<1>13. CASE SignLast
  <2>1. /\ Signed \in Seq(Response) /\ Signed # <<>> /\ Distinct(Signed)
        /\ AllReleasable(Signed) /\ Creds(Signed) = Creds(signed) \cup {current}
    BY <1>13, SignedIsReleasable DEF SignLast
  <2>2. \A c \in Creds(Signed) : c \in Cred \cap Granted
    <3>1. Creds(Signed) \subseteq Granted
      BY <1>13, <2>1 DEF SignLast, Granted, PhaseInv
    <3>2. \A c \in Creds(Signed) : c \in Cred
      BY <2>1 DEF Creds, AllReleasable, Releasable
    <3> QED
      BY <3>1, <3>2
  <2>3. \A c \in Creds(Signed) : credit[c] >= 1
    BY <2>2 DEF CreditInv, TypeOK
  <2> HIDE DEF Signed
  <2> QED
    BY <1>12, <1>13, <2>1, <2>3 DEF SignLast
<1>14. CASE GetNextAssertion
  <2>1. \A c \in Creds(pending) : c \in Cred
    BY DEF ResponseInv, AllReleasable, Releasable, Creds
  <2>2. \A c \in Creds(pending) : credit[c] >= 1
    BY <2>1 DEF CreditInv, TypeOK
  <2> QED
    BY <1>12, <1>14, <2>2 DEF GetNextAssertion, ResponseInv, TypeOK
<1> QED
  BY <1>1, <1>2, <1>3, <1>4, <1>5, <1>6, <1>7, <1>8, <1>9, <1>10, <1>11, <1>13, <1>14,
     OthersUnchanged
  DEF Next, Ceremony, Admin, Silent

-----------------------------------------------------------------------------
(* The records and their keys *)

(* A registration that is answered has been stored, and a step that takes  *)
(* a record away says so.                                                  *)
LEMMA StoredStep ==
  ASSUME TypeOK, PhaseInv, StoredInv, TablesMove, [Next]_vars
  PROVE  StoredInv'
<1> USE DEF requestVars, Done
<1> DEFINE Known == Stored(file) \cup gone
<1>1. Known \subseteq Known' /\ answered \subseteq Known
  BY DEF TablesMove, StoredInv, AnsweredIsStored, Stored
<1>2. ASSUME answered' \subseteq Known', phase' = "attest" => current' \in Known'
      PROVE  StoredInv'
  BY <1>2 DEF StoredInv, AnsweredIsStored
<1>3. CASE AddRecord
  <2>1. WithAdded(file, current)[current] = 0 /\ current \in Cred
    BY <1>3 DEF AddRecord, PhaseInv, WithAdded
  <2>2. current \in Known'
    BY <1>3, <2>1 DEF AddRecord, Write, Stored, Absent
  <2> QED
    BY <1>1, <1>2, <1>3, <2>2 DEF AddRecord
<1>4. CASE Attest
  <2>1. current \in Known
    BY <1>4 DEF Attest, StoredInv
  <2> QED
    BY <1>1, <1>2, <1>4, <2>1 DEF Attest
<1>5. ASSUME answered' = answered, phase' = "attest" => UNCHANGED <<phase, current>>
      PROVE  StoredInv'
  <2>1. phase' = "attest" => current' \in Known
    BY <1>5 DEF StoredInv
  <2> QED
    BY <1>1, <1>2, <1>5, <2>1
<1> HIDE DEF Known
<1>6. ASSUME NEW c \in Cred, NEW exclude \in SUBSET Cred, MakeCredential(c, exclude)
      PROVE  StoredInv'
  BY <1>5, <1>6 DEF MakeCredential
<1>7. ASSUME NEW found \in SUBSET Cred, GetAssertion(found) PROVE StoredInv'
  BY <1>5, <1>7 DEF GetAssertion
<1>8. CASE \/ Reset \/ Selection \/ VerifyFails \/ VerifiedMake \/ VerifiedGet
           \/ VerifiedReset \/ VerifiedSelect \/ GenerateKey \/ AddFails \/ KeyStoreFails
  BY <1>5, <1>8
  DEF Reset, Selection, VerifyFails, VerifiedMake, VerifiedGet, VerifiedReset, VerifiedSelect,
      GenerateKey, AddFails, KeyStoreFails
<1>9. ASSUME NEW c \in Cred, Increment(c) \/ IncrementMisses(c) \/ IncrementFails(c)
      PROVE  StoredInv'
  BY <1>5, <1>9 DEF Increment, IncrementMisses, IncrementFails
<1>10. CASE \/ SignMore \/ SignLast \/ GetNextAssertion \/ GetNextTooLate
            \/ DestroyRecords \/ DestroyKeys
  BY <1>5, <1>10
  DEF SignMore, SignLast, GetNextAssertion, GetNextTooLate, DestroyRecords, DestroyKeys
<1>11. CASE AdminAdds \/ AdminGivesUp \/ TimePasses \/ Restart \/ UNCHANGED otherVars
  BY <1>5, <1>11 DEF AdminAdds, AdminGivesUp, TimePasses, Restart, otherVars
<1>12. ASSUME NEW c \in Cred, AdminKey(c) \/ AdminRemoves(c) \/ AdminAuthenticates(c)
       PROVE  StoredInv'
  BY <1>5, <1>12 DEF AdminKey, AdminRemoves, AdminAuthenticates
<1> QED
  BY <1>3, <1>4, <1>6, <1>7, <1>8, <1>9, <1>10, <1>11, <1>12, OthersUnchanged
  DEF Next, Ceremony, Admin, Silent

(* A step that adds no record and destroys no key.                         *)
LEMMA KeysKept ==
  ASSUME KeysInv, Stored(file') \subseteq Stored(file), keys \subseteq keys',
         phase' = "destroyKeys" => phase = "destroyKeys"
  PROVE  KeysInv'
BY DEF KeysInv, RecordsHaveKeys, Stored

(* Every step leaves the records of the service their keys.                *)
LEMMA KeysStep ==
  ASSUME TypeOK, PhaseInv, KeysInv, [Next]_vars
  PROVE  KeysInv'
<1> USE DEF requestVars, storeVars, Done
<1>1. ASSUME NEW c \in Cred, NEW exclude \in SUBSET Cred, MakeCredential(c, exclude)
      PROVE  KeysInv'
  BY <1>1, KeysKept DEF MakeCredential
<1>2. ASSUME NEW found \in SUBSET Cred, GetAssertion(found) PROVE KeysInv'
  BY <1>2, KeysKept DEF GetAssertion
<1>3. CASE \/ Reset \/ Selection \/ VerifyFails \/ VerifiedMake \/ VerifiedGet
           \/ VerifiedReset \/ VerifiedSelect
  BY <1>3, KeysKept DEF Reset, Selection, VerifyFails, VerifiedMake, VerifiedGet,
                        VerifiedReset, VerifiedSelect
<1>4. CASE GenerateKey \/ AddFails \/ Attest \/ KeyStoreFails
  BY <1>4, KeysKept DEF GenerateKey, AddFails, WriteFails, Attest, KeyStoreFails
<1>5. CASE AddRecord
  <2>1. /\ current \in keys /\ current \notin OfAdmin /\ keys' = keys
        /\ file' = WithAdded(file, current) /\ phase' # "destroyKeys"
    BY <1>5 DEF AddRecord, PhaseInv, Write
  <2>2. Stored(file)' \subseteq Stored(file) \cup {current}
    BY <2>1 DEF Stored, WithAdded
  <2> QED
    BY <2>1, <2>2 DEF KeysInv, RecordsHaveKeys, Stored
<1>6. ASSUME NEW c \in Cred, Increment(c) PROVE KeysInv'
  BY <1>6, KeysKept DEF Increment, Write, WithIncremented, Stored, TypeOK, Table
<1>7. ASSUME NEW c \in Cred, IncrementMisses(c) \/ IncrementFails(c) PROVE KeysInv'
  BY <1>7, KeysKept DEF IncrementMisses, IncrementFails, WriteFails
<1>8. CASE SignMore \/ SignLast \/ GetNextAssertion \/ GetNextTooLate
  BY <1>8, KeysKept DEF SignMore, SignLast, GetNextAssertion, GetNextTooLate
<1>9. CASE DestroyRecords
  <2>1. Stored(EmptyTable) = {}
    BY DEF Stored, EmptyTable
  <2>2. CASE Write(EmptyTable) /\ phase' = "destroyKeys"
    <3>1. Stored(file)' = {}
      BY <2>1, <2>2 DEF Write, Stored
    <3> QED
      BY <3>1 DEF KeysInv, RecordsHaveKeys
  <2> QED
    BY <1>9, <2>2, KeysKept DEF DestroyRecords, WriteFails
<1>10. CASE DestroyKeys
  BY <1>10 DEF DestroyKeys, KeysInv, RecordsHaveKeys, Stored
<1>11. CASE AdminAdds
  <2>1. /\ adminCred \in OfAdmin /\ UNCHANGED <<keys, phase>>
        /\ file' = WithAdded(file, adminCred)
    BY <1>11 DEF AdminAdds, AdminWrites, PhaseInv
  <2>2. Stored(file)' \subseteq Stored(file) \cup {adminCred}
    BY <2>1 DEF Stored, WithAdded
  <2> QED
    BY <2>1, <2>2 DEF KeysInv, RecordsHaveKeys, Stored
<1>12. ASSUME NEW c \in Cred, AdminRemoves(c) \/ AdminAuthenticates(c) PROVE KeysInv'
  BY <1>12, KeysKept
  DEF AdminRemoves, AdminAuthenticates, AdminWrites, WithRemoved, WithIncremented, Stored,
      TypeOK, Table
<1>13. ASSUME NEW c \in Cred, AdminKey(c) PROVE KeysInv'
  BY <1>13, KeysKept DEF AdminKey
<1>14. CASE AdminGivesUp \/ TimePasses \/ Restart \/ UNCHANGED otherVars
  BY <1>14, KeysKept DEF AdminGivesUp, TimePasses, Restart, otherVars
<1> QED
  BY <1>1, <1>2, <1>3, <1>4, <1>5, <1>6, <1>7, <1>8, <1>9, <1>10, <1>11, <1>12, <1>13, <1>14,
     OthersUnchanged
  DEF Next, Ceremony, Admin, Silent

-----------------------------------------------------------------------------
(* The invariant holds in every reachable state.                           *)
THEOREM Invariance == Spec => []IInv
<1>1. Init => IInv
  BY InitInv
<1>2. IInv /\ [Next]_vars => IInv'
  <2> SUFFICES ASSUME IInv, [Next]_vars PROVE IInv'
    OBVIOUS
  <2>1. TypeOK' /\ PhaseInv'
    BY TypeStep, PhaseStep DEF IInv
  <2>2. TablesMove /\ RequestMove
    BY TablesStep, RequestStep DEF IInv
  <2>3. NewInv' /\ FileInv' /\ MissInv'
    BY <2>1, <2>2, NewStep, FileStep, MissStep DEF IInv
  <2>4. ResponseInv' /\ CreditInv'
    BY <2>1, <2>2, ResponseStep, CreditStep DEF IInv
  <2>5. StoredInv' /\ KeysInv'
    BY <2>2, StoredStep, KeysStep DEF IInv
  <2> QED
    BY <2>1, <2>3, <2>4, <2>5 DEF IInv
<1> QED
  BY <1>1, <1>2, PTL DEF Spec

(* Every variable keeps its type.                                          *)
THEOREM TypeCorrect == Spec => []TypeOK
<1>1. IInv => TypeOK
  BY DEF IInv
<1> QED
  BY <1>1, Invariance, PTL

(* "monotonic, crash-safe sign counter": whatever failed, restarted or     *)
(* was done to the file since a response was signed, its count is above    *)
(* every count a website has seen.                                         *)
THEOREM CountersAlwaysIncrease == Spec => []CountersIncrease
<1>1. IInv => CountersIncrease
  BY DEF IInv, ResponseInv, AllReleasable, Releasable, CountersIncrease
<1> QED
  BY <1>1, Invariance, PTL

(* One successful face check lets out at most one real assertion of each   *)
(* credential it was asked for, whatever silent ones there are between.    *)
THEOREM AssertionsArePaidFor == Spec => []OneAssertionPerCheck
<1>1. IInv => OneAssertionPerCheck
  BY DEF IInv, CreditInv, OneAssertionPerCheck
<1> QED
  BY <1>1, Invariance, PTL

(* A registration that was answered is in the file until somebody removes, *)
(* replaces or resets it.                                                  *)
THEOREM AnsweredStaysStored == Spec => []AnsweredIsStored
<1>1. IInv => AnsweredIsStored
  BY DEF IInv, StoredInv
<1> QED
  BY <1>1, Invariance, PTL

(* A reset that is cut off leaves no record of the service without a key.  *)
THEOREM RecordsKeepKeys == Spec => []RecordsHaveKeys
<1>1. IInv => RecordsHaveKeys
  BY DEF IInv, KeysInv
<1> QED
  BY <1>1, Invariance, PTL

(* A record that somebody else removed makes one ceremony fail, once.      *)
THEOREM MissedOnlyOnce == Spec => []MissesOnce
<1>1. IInv => MissesOnce
  <2> SUFFICES ASSUME IInv, NEW c \in Cred PROVE misses[c] <= 1
    BY DEF MissesOnce
  <2>1. misses[c] = 0 \/ misses[c] = 1
    BY DEF IInv, MissInv
  <2> QED
    BY <2>1
<1> QED
  BY <1>1, Invariance, PTL
=============================================================================
