------------------------ MODULE CredentialStoreProofs ------------------------
(***************************************************************************)
(* What holds of CredentialStore for every set of processes, every set of  *)
(* credentials and every assignment of accounts.                           *)
(***************************************************************************)
EXTENDS CredentialStore, TLAPS

-----------------------------------------------------------------------------
(* The inductive invariant. *)

(* The flock is held exactly by the process inside the critical section.   *)
LockInv == \A p \in Proc : pc[p] \in CriticalPC <=> lock = p

(* What the holder has done so far, against the file nobody else changes.  *)
HolderInv ==
  \A p \in Proc :
    /\ pc[p] \in SavingPC =>
         /\ op[p].kind # "destroy"
         /\ Applies(op[p], file)
         /\ mem[p] = Applied(op[p], file)
    /\ pc[p] = "rename" => tmp = mem[p]
    /\ pc[p] = "return" => file = mem[p]
    /\ pc[p] = "unlink" => op[p].kind = "destroy" /\ mem[p] = EmptyTable

(* A count on its way to the caller is above every count returned before.  *)
ReturnInv ==
  \A p \in Proc :
    pc[p] = "return" /\ op[p].kind = "increment" =>
      /\ mem[p][op[p].cred] # Absent
      /\ \A v \in issued[op[p].cred] : v < mem[p][op[p].cred]

(* Ids are drawn once, and have no history before their rename.            *)
IdsInv ==
  /\ \A p \in Proc : PendingAdd(p) => op[p].cred \notin fresh
  /\ \A p, q \in Proc :
       PendingAdd(p) /\ PendingAdd(q) /\ p # q => op[p].cred # op[q].cred
  /\ \A c \in NotYetStored : file[c] = Absent /\ issued[c] = {}

IInv ==
  /\ TypeOK
  /\ file \in Table
  /\ LockInv
  /\ HolderInv
  /\ ReturnInv
  /\ IdsInv
  /\ FileCoversIssued
  /\ OnePerAccount(file)
-----------------------------------------------------------------------------
(* The operations on tables yield tables.                                  *)
LEMMA AppliedIsTable ==
  ASSUME NEW o \in Op, NEW t \in Table
  PROVE  Applied(o, t) \in Table
<1>1. WithAdded(t, o.cred) \in Table
  BY DEF WithAdded, Table, Absent, Op
<1>2. WithIncremented(t, o.cred) \in Table
  BY DEF WithIncremented, Table, Absent, Op
<1>3. WithRemoved(t, o.cred) \in Table
  BY DEF WithRemoved, Table, Absent, Op
<1>4. EmptyTable \in Table
  BY DEF EmptyTable, Table
<1> QED
  BY <1>1, <1>2, <1>3, <1>4 DEF Applied

(* At most one record per account before the operation, at most one after. *)
LEMMA AppliedKeepsOnePerAccount ==
  ASSUME NEW o \in Op, NEW t \in Table, Applies(o, t), OnePerAccount(t)
  PROVE  OnePerAccount(Applied(o, t))
<1>1. CASE o.kind = "add"
  BY <1>1 DEF Applied, WithAdded, OnePerAccount, Op, Table
<1>2. CASE o.kind = "increment"
  BY <1>2 DEF Applied, Applies, WithIncremented, OnePerAccount, Op, Table
<1>3. CASE o.kind = "remove"
  BY <1>3 DEF Applied, WithRemoved, OnePerAccount, Op, Table
<1>4. CASE o.kind \notin {"add", "increment", "remove"}
  BY <1>4 DEF Applied, EmptyTable, OnePerAccount
<1> QED
  BY <1>1, <1>2, <1>3, <1>4

(* Applied, one kind of operation at a time.                               *)
LEMMA AppliedCases ==
  ASSUME NEW o, NEW t
  PROVE  /\ o.kind = "add" => Applied(o, t) = WithAdded(t, o.cred)
         /\ o.kind = "increment" => Applied(o, t) = WithIncremented(t, o.cred)
         /\ o.kind = "remove" => Applied(o, t) = WithRemoved(t, o.cred)
         /\ o.kind \notin {"add", "increment", "remove"} => Applied(o, t) = EmptyTable
BY DEF Applied

(* The value of op[p] between operations.                                  *)
LEMMA NoOpIsOp == NoOp \in Op
BY CredAssumption DEF NoOp, Op, Kinds

(* The initial state.                                                      *)
LEMMA InitIInv == Init => IInv
BY StoreAssumption, NoOpIsOp
DEF Init, IInv, TypeOK, LockInv, HolderInv, ReturnInv, IdsInv, PendingAdd,
    NotYetStored, FileCoversIssued, OnePerAccount, EmptyTable, Table, Absent,
    PC, CriticalPC, SavingPC

(* Every step of every process keeps the invariant.                        *)
LEMMA StepIInv == IInv /\ [Next]_vars => IInv'
<1> SUFFICES ASSUME IInv, [Next]_vars PROVE IInv'
  OBVIOUS
<1> USE StoreAssumption DEF GoTo, Leave, CriticalPC, SavingPC
<1>1. ASSUME NEW p \in Proc, Start(p) PROVE IInv'
  <2>1. TypeOK' /\ (file \in Table)'
    BY <1>1 DEF Start, IInv, TypeOK, HolderInv, PC, Table, Op, Kinds
  <2>2. LockInv'
    BY <1>1 DEF Start, IInv, TypeOK, LockInv
  <2>3. HolderInv'
    BY <1>1 DEF Start, IInv, TypeOK, LockInv, HolderInv
  <2>4. ReturnInv'
    BY <1>1 DEF Start, IInv, TypeOK, LockInv, ReturnInv
  <2>5. IdsInv'
    BY <1>1 DEF Start, IInv, TypeOK, IdsInv, PendingAdd, NotYetStored
  <2>6. FileCoversIssued'
    BY <1>1 DEF Start, IInv, FileCoversIssued, FileIsWhole
  <2>7. OnePerAccount(file)'
    BY <1>1 DEF Start, IInv
  <2> QED
    BY <2>1, <2>2, <2>3, <2>4, <2>5, <2>6, <2>7 DEF IInv
<1>2. ASSUME NEW p \in Proc, \E c \in Cred : CallAdd(p, c) PROVE IInv'
  <2>1. TypeOK' /\ (file \in Table)'
    BY <1>2 DEF CallAdd, IInv, TypeOK, HolderInv, PC, Table, Op, Kinds, Begin
  <2>2. LockInv'
    BY <1>2 DEF CallAdd, IInv, TypeOK, LockInv, Begin
  <2>3. HolderInv'
    BY <1>2 DEF CallAdd, IInv, TypeOK, LockInv, HolderInv, Begin
  <2>4. ReturnInv'
    BY <1>2 DEF CallAdd, IInv, TypeOK, LockInv, ReturnInv, Begin
  <2>5. IdsInv'
    BY <1>2 DEF CallAdd, IInv, TypeOK, IdsInv, PendingAdd, NotYetStored, Begin
  <2>6. FileCoversIssued'
    BY <1>2 DEF CallAdd, IInv, FileCoversIssued, FileIsWhole, Begin
  <2>7. OnePerAccount(file)'
    BY <1>2 DEF CallAdd, IInv, Begin
  <2> QED
    BY <2>1, <2>2, <2>3, <2>4, <2>5, <2>6, <2>7 DEF IInv
<1>3. ASSUME NEW p \in Proc, \E c \in Cred : CallIncrement(p, c) \/ CallRemove(p, c) PROVE IInv'
  <2>1. TypeOK' /\ (file \in Table)'
    <3>1. PICK c \in Cred : CallIncrement(p, c) \/ CallRemove(p, c)
      BY <1>3
    <3>2. CASE CallIncrement(p, c)
      BY <3>2 DEF CallIncrement, Begin, IInv, TypeOK, PC, Op, Kinds
    <3>3. CASE CallRemove(p, c)
      BY <3>3 DEF CallRemove, Begin, IInv, TypeOK, PC, Op, Kinds
    <3> QED
      BY <3>1, <3>2, <3>3
  <2>2. LockInv'
    BY <1>3 DEF CallIncrement, CallRemove, IInv, TypeOK, LockInv, Begin
  <2>3. HolderInv'
    BY <1>3 DEF CallIncrement, CallRemove, IInv, TypeOK, LockInv, HolderInv, Begin
  <2>4. ReturnInv'
    BY <1>3 DEF CallIncrement, CallRemove, IInv, TypeOK, LockInv, ReturnInv, Begin
  <2>5. IdsInv'
    BY <1>3 DEF CallIncrement, CallRemove, IInv, TypeOK, IdsInv, PendingAdd, NotYetStored, Begin
  <2>6. FileCoversIssued'
    BY <1>3 DEF CallIncrement, CallRemove, IInv, FileCoversIssued, FileIsWhole, Begin
  <2>7. OnePerAccount(file)'
    BY <1>3 DEF CallIncrement, CallRemove, IInv, Begin
  <2> QED
    BY <2>1, <2>2, <2>3, <2>4, <2>5, <2>6, <2>7 DEF IInv
<1>4. ASSUME NEW p \in Proc, CallDestroy(p) PROVE IInv'
  <2>1. TypeOK' /\ (file \in Table)'
    BY <1>4, NoOpIsOp DEF CallDestroy, Begin, IInv, TypeOK, PC, Op, Kinds
  <2>2. LockInv'
    BY <1>4 DEF CallDestroy, IInv, TypeOK, LockInv, Begin
  <2>3. HolderInv'
    BY <1>4 DEF CallDestroy, IInv, TypeOK, LockInv, HolderInv, Begin
  <2>4. ReturnInv'
    BY <1>4 DEF CallDestroy, IInv, TypeOK, LockInv, ReturnInv, Begin
  <2>5. IdsInv'
    BY <1>4 DEF CallDestroy, Begin, IInv, TypeOK, IdsInv, PendingAdd, NotYetStored, NoOp
  <2>6. FileCoversIssued'
    BY <1>4 DEF CallDestroy, IInv, FileCoversIssued, FileIsWhole, Begin
  <2>7. OnePerAccount(file)'
    BY <1>4 DEF CallDestroy, IInv, Begin
  <2> QED
    BY <2>1, <2>2, <2>3, <2>4, <2>5, <2>6, <2>7 DEF IInv
<1>5. ASSUME NEW p \in Proc, Acquire(p) PROVE IInv'
  <2>1. TypeOK' /\ (file \in Table)'
    BY <1>5 DEF Acquire, IInv, TypeOK, HolderInv, PC, Table, Op, Kinds
  <2>2. LockInv'
    BY <1>5 DEF Acquire, IInv, TypeOK, LockInv
  <2>3. HolderInv'
    BY <1>5 DEF Acquire, IInv, TypeOK, LockInv, HolderInv
  <2>4. ReturnInv'
    BY <1>5 DEF Acquire, IInv, TypeOK, LockInv, ReturnInv
  <2>5. IdsInv'
    BY <1>5 DEF Acquire, IInv, TypeOK, IdsInv, PendingAdd, NotYetStored
  <2>6. FileCoversIssued'
    BY <1>5 DEF Acquire, IInv, FileCoversIssued, FileIsWhole
  <2>7. OnePerAccount(file)'
    BY <1>5 DEF Acquire, IInv
  <2> QED
    BY <2>1, <2>2, <2>3, <2>4, <2>5, <2>6, <2>7 DEF IInv
<1>6. ASSUME NEW p \in Proc, LoadAndApply(p) PROVE IInv'
  <2>1. TypeOK' /\ (file \in Table)'
    BY <1>6, AppliedIsTable DEF LoadAndApply, IInv, TypeOK, PC
  <2>2. LockInv'
    BY <1>6 DEF LoadAndApply, IInv, TypeOK, LockInv
  <2>3. HolderInv'
    BY <1>6 DEF LoadAndApply, IInv, TypeOK, LockInv, HolderInv
  <2>4. ReturnInv'
    BY <1>6 DEF LoadAndApply, IInv, TypeOK, LockInv, ReturnInv
  <2>5. IdsInv'
    BY <1>6 DEF LoadAndApply, IInv, TypeOK, IdsInv, PendingAdd, NotYetStored
  <2>6. FileCoversIssued'
    BY <1>6 DEF LoadAndApply, IInv, FileCoversIssued, FileIsWhole
  <2>7. OnePerAccount(file)'
    BY <1>6 DEF LoadAndApply, IInv
  <2> QED
    BY <2>1, <2>2, <2>3, <2>4, <2>5, <2>6, <2>7 DEF IInv
<1>7. ASSUME NEW p \in Proc, LoadAndMiss(p) PROVE IInv'
  <2>1. TypeOK' /\ (file \in Table)'
    BY <1>7, NoOpIsOp DEF LoadAndMiss, IInv, TypeOK, PC
  <2>2. LockInv'
    BY <1>7 DEF LoadAndMiss, IInv, TypeOK, LockInv
  <2>3. HolderInv'
    BY <1>7 DEF LoadAndMiss, IInv, TypeOK, LockInv, HolderInv
  <2>4. ReturnInv'
    BY <1>7 DEF LoadAndMiss, IInv, TypeOK, LockInv, ReturnInv
  <2>5. IdsInv'
    BY <1>7 DEF LoadAndMiss, IInv, TypeOK, IdsInv, PendingAdd, NotYetStored
  <2>6. FileCoversIssued'
    BY <1>7 DEF LoadAndMiss, IInv, FileCoversIssued, FileIsWhole
  <2>7. OnePerAccount(file)'
    BY <1>7 DEF LoadAndMiss, IInv
  <2> QED
    BY <2>1, <2>2, <2>3, <2>4, <2>5, <2>6, <2>7 DEF IInv
<1>8. ASSUME NEW p \in Proc, LoadFails(p) PROVE IInv'
  <2>1. TypeOK' /\ (file \in Table)'
    BY <1>8, NoOpIsOp DEF LoadFails, IInv, TypeOK, PC
  <2>2. LockInv'
    BY <1>8 DEF LoadFails, IInv, TypeOK, LockInv
  <2>3. HolderInv'
    BY <1>8 DEF LoadFails, IInv, TypeOK, LockInv, HolderInv
  <2>4. ReturnInv'
    BY <1>8 DEF LoadFails, IInv, TypeOK, LockInv, ReturnInv
  <2>5. IdsInv'
    BY <1>8 DEF LoadFails, IInv, TypeOK, IdsInv, PendingAdd, NotYetStored
  <2>6. FileCoversIssued'
    BY <1>8 DEF LoadFails, IInv, FileCoversIssued, FileIsWhole
  <2>7. OnePerAccount(file)'
    BY <1>8 DEF LoadFails, IInv
  <2> QED
    BY <2>1, <2>2, <2>3, <2>4, <2>5, <2>6, <2>7 DEF IInv
<1>9. ASSUME NEW p \in Proc, OpenTemp(p) PROVE IInv'
  <2>1. TypeOK' /\ (file \in Table)'
    BY <1>9 DEF OpenTemp, IInv, TypeOK, HolderInv, PC, Table, Op, Kinds
  <2>2. LockInv'
    BY <1>9 DEF OpenTemp, IInv, TypeOK, LockInv
  <2>3. HolderInv'
    BY <1>9 DEF OpenTemp, IInv, TypeOK, LockInv, HolderInv
  <2>4. ReturnInv'
    BY <1>9 DEF OpenTemp, IInv, TypeOK, LockInv, ReturnInv
  <2>5. IdsInv'
    BY <1>9 DEF OpenTemp, IInv, TypeOK, IdsInv, PendingAdd, NotYetStored
  <2>6. FileCoversIssued'
    BY <1>9 DEF OpenTemp, IInv, FileCoversIssued, FileIsWhole
  <2>7. OnePerAccount(file)'
    BY <1>9 DEF OpenTemp, IInv
  <2> QED
    BY <2>1, <2>2, <2>3, <2>4, <2>5, <2>6, <2>7 DEF IInv
<1>10. ASSUME NEW p \in Proc, WriteTemp(p) PROVE IInv'
  <2>1. TypeOK' /\ (file \in Table)'
    BY <1>10 DEF WriteTemp, IInv, TypeOK, HolderInv, PC, Table, Op, Kinds
  <2>2. LockInv'
    BY <1>10 DEF WriteTemp, IInv, TypeOK, LockInv
  <2>3. HolderInv'
    BY <1>10 DEF WriteTemp, IInv, TypeOK, LockInv, HolderInv
  <2>4. ReturnInv'
    BY <1>10 DEF WriteTemp, IInv, TypeOK, LockInv, ReturnInv
  <2>5. IdsInv'
    BY <1>10 DEF WriteTemp, IInv, TypeOK, IdsInv, PendingAdd, NotYetStored
  <2>6. FileCoversIssued'
    BY <1>10 DEF WriteTemp, IInv, FileCoversIssued, FileIsWhole
  <2>7. OnePerAccount(file)'
    BY <1>10 DEF WriteTemp, IInv
  <2> QED
    BY <2>1, <2>2, <2>3, <2>4, <2>5, <2>6, <2>7 DEF IInv
<1>11. ASSUME NEW p \in Proc, Rename(p) PROVE IInv'
  <2>0. file' = Applied(op[p], file) /\ Applies(op[p], file)
    BY <1>11 DEF Rename, IInv, HolderInv
  <2>1. TypeOK' /\ (file \in Table)'
    BY <1>11 DEF Rename, IInv, TypeOK, HolderInv, PC, Table, Op, Kinds
  <2>2. LockInv'
    BY <1>11 DEF Rename, IInv, TypeOK, LockInv
  <2>3. HolderInv'
    BY <1>11 DEF Rename, IInv, TypeOK, LockInv, HolderInv
  <2>4. ReturnInv'
    <3> SUFFICES ASSUME NEW q \in Proc, (pc[q] = "return")', (op[q].kind = "increment")'
                 PROVE  /\ (mem[q][op[q].cred] # Absent)'
                        /\ (\A v \in issued[op[q].cred] : v < mem[q][op[q].cred])'
      BY DEF ReturnInv
    <3>1. q = p
      BY <1>11 DEF Rename, IInv, TypeOK, LockInv
    <3>2. mem[p] = WithIncremented(file, op[p].cred) /\ file[op[p].cred] # Absent
      BY <1>11, <3>1, AppliedCases DEF Rename, IInv, TypeOK, HolderInv, Applies
    <3>3. mem[p][op[p].cred] = file[op[p].cred] + 1 /\ file[op[p].cred] \in Nat
      BY <3>2 DEF IInv, TypeOK, Op, Table, WithIncremented
    <3>4. \A v \in issued[op[p].cred] : v \in Nat /\ v <= file[op[p].cred]
      BY <3>2 DEF IInv, TypeOK, Op, FileCoversIssued, FileIsWhole
    <3> QED
      BY <1>11, <3>1, <3>3, <3>4 DEF Rename, Absent
  <2>5. IdsInv'
    <3>1. NotYetStored' = IF op[p].kind = "add" THEN NotYetStored \ {op[p].cred}
                                                ELSE NotYetStored
      BY <1>11 DEF Rename, IInv, TypeOK, IdsInv, PendingAdd, NotYetStored
    <3>2. ASSUME NEW c \in NotYetStored' PROVE (file[c] = Absent)'
      <4>1. c \in Cred /\ c \in NotYetStored /\ file[c] = Absent
        BY <3>1, <3>2 DEF IInv, TypeOK, IdsInv, NotYetStored, Op
      <4>2. CASE op[p].kind = "add"
        BY <1>11, <4>1, <4>2, <3>1, <3>2, <2>0, AppliedCases DEF WithAdded
      <4>3. CASE op[p].kind = "increment"
        BY <1>11, <4>1, <4>3, <2>0, AppliedCases DEF WithIncremented, Applies, IInv, HolderInv, Table, Rename
      <4>4. CASE op[p].kind \notin {"add", "increment"}
        BY <1>11, <4>1, <4>4, <2>0, AppliedCases DEF WithRemoved, EmptyTable, IInv, Table
      <4> QED
        BY <4>2, <4>3, <4>4
    <3> QED
      BY <1>11, <3>1, <3>2 DEF Rename, IInv, TypeOK, IdsInv, PendingAdd
  <2>6. FileCoversIssued'
    <3> SUFFICES ASSUME NEW c \in Cred, NEW v \in issued[c], file'[c] # Absent
                 PROVE  v <= file'[c]
      BY <1>11 DEF Rename, FileCoversIssued
    <3>1. file[c] # Absent => v <= file[c]
      BY DEF IInv, FileCoversIssued, FileIsWhole
    <3>2. v \in Nat /\ file[c] \in Nat \cup {Absent}
      BY DEF IInv, TypeOK, Table
    <3>3. CASE op[p].kind = "add"
      <4>1. c # op[p].cred
        BY <1>11, <3>3 DEF Rename, IInv, IdsInv, NotYetStored, PendingAdd
      <4> QED
        BY <2>0, <3>1, <3>3, <4>1, AppliedCases DEF WithAdded
    <3>4. CASE op[p].kind = "increment"
      BY <2>0, <3>1, <3>2, <3>4, AppliedCases DEF WithIncremented, IInv, Table, Absent, Applies
    <3>5. CASE op[p].kind \notin {"add", "increment"}
      BY <2>0, <3>1, <3>5, AppliedCases DEF WithRemoved, EmptyTable, IInv, Table
    <3> QED
      BY <3>3, <3>4, <3>5
  <2>7. OnePerAccount(file)'
    BY <2>0, AppliedKeepsOnePerAccount DEF IInv, TypeOK
  <2> QED
    BY <2>1, <2>2, <2>3, <2>4, <2>5, <2>6, <2>7 DEF IInv
<1>12. ASSUME NEW p \in Proc, SaveFails(p) PROVE IInv'
  <2>1. TypeOK' /\ (file \in Table)'
    BY <1>12, NoOpIsOp DEF SaveFails, IInv, TypeOK, PC
  <2>2. LockInv'
    BY <1>12 DEF SaveFails, IInv, TypeOK, LockInv
  <2>3. HolderInv'
    BY <1>12 DEF SaveFails, IInv, TypeOK, LockInv, HolderInv
  <2>4. ReturnInv'
    BY <1>12 DEF SaveFails, IInv, TypeOK, LockInv, ReturnInv
  <2>5. IdsInv'
    BY <1>12 DEF SaveFails, IInv, TypeOK, IdsInv, PendingAdd, NotYetStored
  <2>6. FileCoversIssued'
    BY <1>12 DEF SaveFails, IInv, FileCoversIssued, FileIsWhole
  <2>7. OnePerAccount(file)'
    BY <1>12 DEF SaveFails, IInv
  <2> QED
    BY <2>1, <2>2, <2>3, <2>4, <2>5, <2>6, <2>7 DEF IInv
<1>13. ASSUME NEW p \in Proc, Forget(p) PROVE IInv'
  <2>1. TypeOK' /\ (file \in Table)'
    BY <1>13 DEF Forget, IInv, TypeOK, HolderInv, PC, Table, Op, Kinds, EmptyTable
  <2>2. LockInv'
    BY <1>13 DEF Forget, IInv, TypeOK, LockInv, EmptyTable
  <2>3. HolderInv'
    BY <1>13 DEF Forget, IInv, TypeOK, LockInv, HolderInv, EmptyTable
  <2>4. ReturnInv'
    BY <1>13 DEF Forget, IInv, TypeOK, LockInv, ReturnInv, EmptyTable
  <2>5. IdsInv'
    BY <1>13 DEF Forget, IInv, TypeOK, IdsInv, PendingAdd, NotYetStored, EmptyTable
  <2>6. FileCoversIssued'
    BY <1>13 DEF Forget, IInv, FileCoversIssued, FileIsWhole, EmptyTable
  <2>7. OnePerAccount(file)'
    BY <1>13 DEF Forget, IInv, EmptyTable
  <2> QED
    BY <2>1, <2>2, <2>3, <2>4, <2>5, <2>6, <2>7 DEF IInv
<1>14. ASSUME NEW p \in Proc, Unlink(p) PROVE IInv'
  <2>1. TypeOK' /\ (file \in Table)'
    BY <1>14 DEF Unlink, IInv, TypeOK, HolderInv, PC, Table, Op, Kinds, EmptyTable, Absent
  <2>2. LockInv'
    BY <1>14 DEF Unlink, IInv, TypeOK, LockInv, EmptyTable, Absent
  <2>3. HolderInv'
    BY <1>14 DEF Unlink, IInv, TypeOK, LockInv, HolderInv, EmptyTable, Absent
  <2>4. ReturnInv'
    BY <1>14 DEF Unlink, IInv, TypeOK, LockInv, HolderInv, ReturnInv
  <2>5. IdsInv'
    <3>1. NotYetStored' = NotYetStored
      BY <1>14 DEF Unlink, IInv, TypeOK, PendingAdd, NotYetStored
    <3>2. NotYetStored \in SUBSET Cred
      BY DEF IInv, TypeOK, NotYetStored, Op
    <3> QED
      BY <1>14, <3>1, <3>2 DEF Unlink, IInv, TypeOK, IdsInv, PendingAdd, EmptyTable
  <2>6. FileCoversIssued'
    BY <1>14 DEF Unlink, IInv, FileCoversIssued, FileIsWhole, EmptyTable, Absent
  <2>7. OnePerAccount(file)'
    BY <1>14 DEF Unlink, OnePerAccount, EmptyTable
  <2> QED
    BY <2>1, <2>2, <2>3, <2>4, <2>5, <2>6, <2>7 DEF IInv
<1>15. ASSUME NEW p \in Proc, UnlinkFails(p) PROVE IInv'
  <2>1. TypeOK' /\ (file \in Table)'
    BY <1>15, NoOpIsOp DEF UnlinkFails, IInv, TypeOK, PC
  <2>2. LockInv'
    BY <1>15 DEF UnlinkFails, IInv, TypeOK, LockInv
  <2>3. HolderInv'
    BY <1>15 DEF UnlinkFails, IInv, TypeOK, LockInv, HolderInv
  <2>4. ReturnInv'
    BY <1>15 DEF UnlinkFails, IInv, TypeOK, LockInv, ReturnInv
  <2>5. IdsInv'
    BY <1>15 DEF UnlinkFails, IInv, TypeOK, IdsInv, PendingAdd, NotYetStored
  <2>6. FileCoversIssued'
    BY <1>15 DEF UnlinkFails, IInv, FileCoversIssued, FileIsWhole
  <2>7. OnePerAccount(file)'
    BY <1>15 DEF UnlinkFails, IInv
  <2> QED
    BY <2>1, <2>2, <2>3, <2>4, <2>5, <2>6, <2>7 DEF IInv
<1>16. ASSUME NEW p \in Proc, Return(p) PROVE IInv'
  <2>1. TypeOK' /\ (file \in Table)'
    <3>1. ASSUME op[p].kind = "increment" PROVE mem[p][op[p].cred] \in Nat
      BY <1>16, <3>1 DEF Return, IInv, TypeOK, ReturnInv, Table, Op
    <3> QED
      BY <1>16, <3>1, NoOpIsOp DEF Return, IInv, TypeOK, PC, Op
  <2>2. LockInv'
    BY <1>16 DEF Return, IInv, TypeOK, LockInv
  <2>3. HolderInv'
    BY <1>16 DEF Return, IInv, TypeOK, LockInv, HolderInv
  <2>4. ReturnInv'
    BY <1>16 DEF Return, IInv, TypeOK, LockInv, ReturnInv
  <2>5. IdsInv'
    <3>1. op[p].kind = "increment" => op[p].cred \notin NotYetStored
      BY <1>16 DEF Return, IInv, HolderInv, ReturnInv, IdsInv
    <3>2. NotYetStored' = NotYetStored
      BY <1>16 DEF Return, IInv, TypeOK, PendingAdd, NotYetStored
    <3> QED
      BY <1>16, <3>1, <3>2 DEF Return, IInv, TypeOK, IdsInv, PendingAdd
  <2>6. FileCoversIssued'
    BY <1>16 DEF Return, IInv, TypeOK, HolderInv, FileCoversIssued, FileIsWhole, Table
  <2>7. OnePerAccount(file)'
    BY <1>16 DEF Return, IInv
  <2> QED
    BY <2>1, <2>2, <2>3, <2>4, <2>5, <2>6, <2>7 DEF IInv
<1>17. ASSUME NEW p \in Proc, Crash(p) PROVE IInv'
  <2>1. TypeOK' /\ (file \in Table)'
    BY <1>17, NoOpIsOp DEF Crash, IInv, TypeOK, PC, Table, EmptyTable
  <2>2. LockInv'
    BY <1>17 DEF Crash, IInv, TypeOK, LockInv, EmptyTable
  <2>3. HolderInv'
    BY <1>17 DEF Crash, IInv, TypeOK, LockInv, HolderInv, EmptyTable
  <2>4. ReturnInv'
    BY <1>17 DEF Crash, IInv, TypeOK, LockInv, ReturnInv, EmptyTable
  <2>5. IdsInv'
    BY <1>17 DEF Crash, IInv, TypeOK, IdsInv, PendingAdd, NotYetStored, EmptyTable
  <2>6. FileCoversIssued'
    BY <1>17 DEF Crash, IInv, FileCoversIssued, FileIsWhole, EmptyTable
  <2>7. OnePerAccount(file)'
    BY <1>17 DEF Crash, IInv, EmptyTable
  <2> QED
    BY <2>1, <2>2, <2>3, <2>4, <2>5, <2>6, <2>7 DEF IInv
<1>18. ASSUME NEW p \in Proc, LockFails(p) PROVE IInv'
  <2>1. TypeOK' /\ (file \in Table)'
    BY <1>18, NoOpIsOp DEF LockFails, IInv, TypeOK, PC
  <2>2. LockInv'
    BY <1>18 DEF LockFails, IInv, TypeOK, LockInv
  <2>3. HolderInv'
    BY <1>18 DEF LockFails, IInv, TypeOK, LockInv, HolderInv
  <2>4. ReturnInv'
    BY <1>18 DEF LockFails, IInv, TypeOK, LockInv, ReturnInv
  <2>5. IdsInv'
    BY <1>18 DEF LockFails, IInv, TypeOK, IdsInv, PendingAdd, NotYetStored
  <2>6. FileCoversIssued'
    BY <1>18 DEF LockFails, IInv, FileCoversIssued, FileIsWhole
  <2>7. OnePerAccount(file)'
    BY <1>18 DEF LockFails, IInv
  <2> QED
    BY <2>1, <2>2, <2>3, <2>4, <2>5, <2>6, <2>7 DEF IInv
<1>19. CASE UNCHANGED vars
  <2>1. NotYetStored' = NotYetStored
    BY <1>19 DEF vars, NotYetStored, PendingAdd
  <2> QED
    BY <1>19, <2>1 DEF vars, IInv, TypeOK, LockInv, HolderInv, ReturnInv, IdsInv,
      PendingAdd, FileCoversIssued, FileIsWhole
<1> QED
  BY <1>1, <1>2, <1>3, <1>4, <1>5, <1>6, <1>7, <1>8, <1>9, <1>10, <1>11, <1>12,
     <1>13, <1>14, <1>15, <1>16, <1>17, <1>18, <1>19
  DEF Next, Call, Work

(* The inductive invariant holds in every reachable state.                 *)
THEOREM Invariance == Spec => []IInv
BY InitIInv, StepIInv, PTL DEF Spec

(* Every variable keeps its type; in particular the file is never the      *)
(* missing temporary file, although _save() renames whatever is there.     *)
THEOREM TypeCorrect == Spec => []TypeOK
<1>1. IInv => TypeOK
  BY DEF IInv
<1> QED
  BY <1>1, Invariance, PTL

(* No crash, failed write or second writer leaves a file that does not     *)
(* parse.                                                                  *)
THEOREM FileStaysWhole == Spec => []FileIsWhole
<1>1. IInv => FileIsWhole
  BY StoreAssumption DEF IInv, FileIsWhole
<1> QED
  BY <1>1, Invariance, PTL

(* increment_counter never returns a value for a credential twice,         *)
(* whatever the number of processes and wherever they crash.               *)
THEOREM CounterNeverRepeats == Spec => [](CounterIsNew /\ FileCoversIssued)
<1>1. IInv => CounterIsNew /\ FileCoversIssued
  <2>1. IInv => \A p \in Proc :
          pc[p] = "return" /\ op[p].kind = "increment" => mem[p][op[p].cred] \in Nat
    BY DEF IInv, TypeOK, ReturnInv, Table, Op
  <2> QED
    BY <2>1 DEF IInv, CounterIsNew, ReturnInv
<1> QED
  BY <1>1, Invariance, PTL

(* The file never holds two records of one website and user.               *)
THEOREM AccountsStayDistinct == Spec => []AccountsAreDistinct
<1>1. IInv => AccountsAreDistinct
  BY StoreAssumption DEF IInv, AccountsAreDistinct, FileIsWhole
<1> QED
  BY <1>1, Invariance, PTL

(* The initial state is one of the atomic store.                           *)
LEMMA InitRefines == Init => Atomic!AInit
BY DEF Init, Atomic!AInit, NotYetStored, PendingAdd, EmptyTable, Atomic!EmptyTable,
  Absent, Atomic!Absent, SavingPC

(* Steps that touch neither the file nor the history, and neither draw nor *)
(* lose an id, are stuttering steps of the atomic store.                   *)
LEMMA QuietStep ==
  ASSUME UNCHANGED <<file, issued>>, NotYetStored' = NotYetStored
  PROVE  UNCHANGED Atomic!avars
BY DEF Atomic!avars

(* Every step is a step of the atomic store or stutters there: the rename  *)
(* and the unlink are where the operations happen.                         *)
LEMMA StepRefines == IInv /\ [Next]_vars => [Atomic!ANext]_(Atomic!avars)
<1> SUFFICES ASSUME IInv, [Next]_vars PROVE Atomic!ANext \/ UNCHANGED Atomic!avars
  OBVIOUS
<1> USE StoreAssumption DEF GoTo, Leave, CriticalPC, SavingPC
<1>1. ASSUME NEW p \in Proc,
             \/ Start(p) \/ Acquire(p) \/ LoadAndApply(p) \/ OpenTemp(p)
             \/ WriteTemp(p) \/ Forget(p) \/ UnlinkFails(p)
      PROVE  UNCHANGED Atomic!avars
  <2>1. NotYetStored' = NotYetStored
    BY <1>1 DEF Start, Acquire, LoadAndApply, OpenTemp, WriteTemp, Forget,
      UnlinkFails, NotYetStored, PendingAdd, IInv, TypeOK, HolderInv
  <2> QED
    BY <1>1, <2>1, QuietStep DEF Start, Acquire, LoadAndApply, OpenTemp, WriteTemp,
      Forget, UnlinkFails
<1>2. ASSUME NEW p \in Proc, Call(p)
      PROVE  UNCHANGED Atomic!avars
  <2>1. NotYetStored' = NotYetStored
    <3>1. CASE \E c \in Cred : CallAdd(p, c)
      BY <1>2, <3>1 DEF CallAdd, Begin, NotYetStored, PendingAdd, IInv, TypeOK
    <3>2. CASE \E c \in Cred : CallIncrement(p, c)
      BY <1>2, <3>2 DEF CallIncrement, Begin, NotYetStored, PendingAdd, IInv, TypeOK
    <3>3. CASE \E c \in Cred : CallRemove(p, c)
      BY <1>2, <3>3 DEF CallRemove, Begin, NotYetStored, PendingAdd, IInv, TypeOK
    <3>4. CASE CallDestroy(p)
      BY <1>2, <3>4 DEF CallDestroy, Begin, NotYetStored, PendingAdd, IInv, TypeOK, NoOp
    <3> QED
      BY <1>2, <3>1, <3>2, <3>3, <3>4 DEF Call
  <2> QED
    BY <1>2, <2>1, QuietStep DEF Call, CallAdd, CallIncrement, CallRemove, CallDestroy, Begin
(* Leaving an add without a rename, by a failure or a crash, wastes its id. *)
<1>3. ASSUME NEW p \in Proc,
             LockFails(p) \/ LoadAndMiss(p) \/ LoadFails(p) \/ SaveFails(p) \/ Crash(p)
      PROVE  Atomic!ANext \/ UNCHANGED Atomic!avars
  <2>1. UNCHANGED <<file, issued, fresh>> /\ pc' = [pc EXCEPT ![p] = pc'[p]]
        /\ pc'[p] \in {"idle", "off"} /\ op' = [op EXCEPT ![p] = NoOp]
    BY <1>3 DEF LockFails, LoadAndMiss, LoadFails, SaveFails, Crash, IInv, TypeOK
  <2>2. CASE PendingAdd(p)
    <3>1. NotYetStored' = NotYetStored \ {op[p].cred} /\ op[p].cred \in NotYetStored
          /\ op[p].cred \in Cred
      BY <2>1, <2>2 DEF NotYetStored, PendingAdd, IInv, TypeOK, IdsInv, Op
    <3>2. Atomic!AWaste(op[p].cred)
      BY <2>1, <3>1 DEF Atomic!AWaste
    <3> QED
      BY <3>1, <3>2 DEF Atomic!ANext
  <2>3. CASE ~PendingAdd(p)
    <3>1. NotYetStored' = NotYetStored
      BY <2>1, <2>3 DEF NotYetStored, PendingAdd, IInv, TypeOK
    <3> QED
      BY <2>1, <3>1, QuietStep
  <2> QED
    BY <2>2, <2>3
<1>4. ASSUME NEW p \in Proc, Rename(p)
      PROVE  Atomic!ANext
  <2>1. /\ file' = Applied(op[p], file) /\ Applies(op[p], file)
        /\ op[p].kind # "destroy" /\ op[p].cred \in Cred
    BY <1>4 DEF Rename, IInv, TypeOK, HolderInv, Op
  <2>2. NotYetStored' = IF op[p].kind = "add" THEN NotYetStored \ {op[p].cred}
                                              ELSE NotYetStored
    BY <1>4 DEF Rename, IInv, TypeOK, IdsInv, PendingAdd, NotYetStored
  <2>3. UNCHANGED issued
    BY <1>4 DEF Rename
  <2>4. CASE op[p].kind = "add"
    <3>1. file' = Atomic!WithAdded(file, op[p].cred)
      BY <2>1, <2>4, AppliedCases DEF WithAdded, Atomic!WithAdded, Absent, Atomic!Absent
    <3>2. op[p].cred \in NotYetStored
      BY <1>4, <2>4 DEF Rename, NotYetStored, PendingAdd
    <3> QED
      BY <2>1, <2>2, <2>3, <2>4, <3>1, <3>2 DEF Atomic!ANext, Atomic!AAdd
  <2>5. CASE op[p].kind = "increment"
    BY <2>1, <2>2, <2>3, <2>5, AppliedCases DEF Applies, WithIncremented, Absent,
      Atomic!WithIncremented, Atomic!Absent, Atomic!ANext, Atomic!AIncrement
  <2>6. CASE op[p].kind = "remove"
    BY <2>1, <2>2, <2>3, <2>6, AppliedCases DEF Applies, WithRemoved, Absent,
      Atomic!WithRemoved, Atomic!Absent, Atomic!ANext, Atomic!ARemove
  <2>7. CASE op[p].kind = "none"
    BY <2>1, <2>2, <2>3, <2>7, AppliedCases DEF EmptyTable, Absent,
      Atomic!EmptyTable, Atomic!Absent, Atomic!ANext, Atomic!ADestroy
  <2> QED
    BY <2>1, <2>4, <2>5, <2>6, <2>7 DEF IInv, TypeOK, Op, Kinds
<1>5. ASSUME NEW p \in Proc, Unlink(p)
      PROVE  Atomic!ANext
  <2>1. NotYetStored' = NotYetStored
    BY <1>5 DEF Unlink, IInv, TypeOK, NotYetStored, PendingAdd
  <2> QED
    BY <1>5, <2>1 DEF Unlink, EmptyTable, Absent, Atomic!EmptyTable, Atomic!Absent,
      Atomic!ANext, Atomic!ADestroy
<1>6. ASSUME NEW p \in Proc, Return(p)
      PROVE  Atomic!ANext \/ UNCHANGED Atomic!avars
  <2>1. NotYetStored' = NotYetStored
    BY <1>6 DEF Return, IInv, TypeOK, NotYetStored, PendingAdd
  <2>2. CASE op[p].kind = "increment"
    <3> DEFINE c == op[p].cred
    <3>1. c \in Cred /\ file[c] \in Nat /\ mem[p][c] = file[c]
      BY <1>6, <2>2 DEF Return, IInv, TypeOK, HolderInv, ReturnInv, Table, Op
    <3>2. \A v \in issued[c] : v < file[c]
      BY <1>6, <2>2, <3>1 DEF Return, IInv, ReturnInv
    <3>3. file[c] \in 0..file[c] /\ file[c] \notin issued[c]
      BY <3>1, <3>2
    <3>4. issued' = [issued EXCEPT ![c] = @ \cup {file[c]}] /\ file' = file
      BY <1>6, <2>2, <3>1 DEF Return
    <3>5. Atomic!AIssue(c)
      BY <2>1, <3>1, <3>3, <3>4 DEF Atomic!AIssue
    <3> QED
      BY <3>1, <3>5 DEF Atomic!ANext
  <2>3. CASE op[p].kind # "increment"
    BY <1>6, <2>1, <2>3, QuietStep DEF Return
  <2> QED
    BY <2>2, <2>3
<1>7. CASE UNCHANGED vars
  <2>1. NotYetStored' = NotYetStored
    BY <1>7 DEF vars, NotYetStored, PendingAdd
  <2> QED
    BY <1>7, <2>1, QuietStep DEF vars
<1> QED
  BY <1>1, <1>2, <1>3, <1>4, <1>5, <1>6, <1>7 DEF Next, Work

(* The processes, with their private copies, temporary file, failures and  *)
(* crashes, implement the table with atomic operations.                    *)
THEOREM Refinement == Spec => ImplementsAtomicStore
BY InitRefines, StepRefines, Invariance, PTL DEF Spec, ImplementsAtomicStore, Atomic!ASpec
=============================================================================
