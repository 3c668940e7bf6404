--------------------------- MODULE CredentialStore ---------------------------
(***************************************************************************)
(* One user's credentials file (howdy/src/webauthn/store.py) and the       *)
(* processes that share it: the service, long-lived, and runs of           *)
(* "howdy webauthn" (howdy/src/cli/webauthn.py).  Each has a private copy  *)
(* of the table, read when it starts and again inside every mutating       *)
(* operation, and shares with the others the file, the temporary file and  *)
(* the flock on the sidecar.                                               *)
(*                                                                         *)
(* Inside a process the operations are sequential: the service runs one    *)
(* CTAP command at a time.  A step is one system call on what is shared.   *)
(* A crash kills one process at any point; the kernel drops its flock and  *)
(* keeps the files.                                                        *)
(***************************************************************************)
EXTENDS StoreTable

CONSTANTS Proc,       \* the processes
          Daemon,     \* the one that serves CTAP requests
          NoProc,     \* nobody holds the flock
          Torn,       \* contents of a file that is being written
          NoFile,     \* no temporary file
          MaxCount    \* bound: no increment is requested of a counter this high

ASSUME StoreAssumption ==
  /\ Daemon \in Proc
  /\ NoProc \notin Proc
  /\ Torn \notin Table /\ NoFile \notin Table /\ Torn # NoFile
  /\ MaxCount \in Nat

Kinds == {"none", "add", "increment", "remove", "destroy"}
Op == [kind : Kinds, cred : Cred]
NoOp == [kind |-> "none", cred |-> CHOOSE c \in Cred : TRUE]

PC == {"off", "idle", "waiting", "locked", "save", "write", "rename",
       "unlink", "return"}

(* Where a process is inside "with self._locked()". *)
CriticalPC == {"locked", "save", "write", "rename", "unlink", "return"}
(* Where the copy is modified and the file not yet. *)
SavingPC == {"save", "write", "rename"}

VARIABLES file,    \* contents of the credentials file; a missing file reads as
                   \* the empty table
          tmp,     \* contents of the temporary file, Torn or NoFile
          lock,    \* holder of the flock
          mem,     \* mem[p]: self._credentials of process p
          pc,      \* pc[p]: what p does next
          op,      \* op[p]: the operation p is in
          fresh,   \* ids nobody has drawn
          issued   \* history: issued[c], the values increment_counter returned
vars == <<file, tmp, lock, mem, pc, op, fresh, issued>>

Init ==
  /\ file = EmptyTable
  /\ tmp = NoFile
  /\ lock = NoProc
  /\ mem = [p \in Proc |-> EmptyTable]
  /\ pc = [p \in Proc |-> "off"]
  /\ op = [p \in Proc |-> NoOp]
  /\ fresh = Cred
  /\ issued = [c \in Cred |-> {}]

GoTo(p, label) == pc' = [pc EXCEPT ![p] = label]

(* Mutant of Leave: the lock file is kept open. *)
LeaveLocked(p) ==
  /\ GoTo(p, "idle")
  /\ op' = [op EXCEPT ![p] = NoOp]
  /\ UNCHANGED lock

(* Leaving the with block, normally or by an exception, releases the flock. *)
Leave(p) ==
  /\ GoTo(p, "idle")
  /\ op' = [op EXCEPT ![p] = NoOp]
  /\ lock' = NoProc

-----------------------------------------------------------------------------
(* CredentialStore(path) reads the file without taking the lock.  A torn   *)
(* file does not parse: StoreError, and the process does not come up.      *)
Start(p) ==
  /\ pc[p] = "off"
  /\ file # Torn
  /\ mem' = [mem EXCEPT ![p] = file]
  /\ GoTo(p, "idle")
  /\ UNCHANGED <<file, tmp, lock, op, fresh, issued>>

Begin(p, o) ==
  /\ pc[p] = "idle"
  /\ GoTo(p, "waiting")
  /\ op' = [op EXCEPT ![p] = o]
  /\ UNCHANGED <<file, tmp, lock, mem, issued>>

(* make_credential in the service, "howdy webauthn register" in the CLI:   *)
(* draw an id, then add.                                                   *)
CallAdd(p, c) ==
  /\ c \in fresh
  /\ fresh' = fresh \ {c}
  /\ Begin(p, [kind |-> "add", cred |-> c])

(* _assert_credential on a record that find_for_rp found in the copy.      *)
CallIncrement(p, c) ==
  /\ mem[p][c] # Absent
  /\ file # Torn => file[c] < MaxCount
  /\ Begin(p, [kind |-> "increment", cred |-> c])
  /\ UNCHANGED fresh

(* "howdy webauthn remove": an index into the copy, resolved to an id.     *)
CallRemove(p, c) ==
  /\ p # Daemon
  /\ mem[p][c] # Absent
  /\ Begin(p, [kind |-> "remove", cred |-> c])
  /\ UNCHANGED fresh

(* authenticatorReset. *)
CallDestroy(p) ==
  /\ p = Daemon
  /\ Begin(p, [NoOp EXCEPT !.kind = "destroy"])
  /\ UNCHANGED fresh

Call(p) ==
  \/ \E c \in Cred : CallAdd(p, c) \/ CallIncrement(p, c) \/ CallRemove(p, c)
  \/ CallDestroy(p)

(* _locked() raises OSError: no directory, no permission, no descriptor.   *)
LockFails(p) ==
  /\ pc[p] = "waiting"
  /\ GoTo(p, "idle")
  /\ op' = [op EXCEPT ![p] = NoOp]
  /\ UNCHANGED <<file, tmp, lock, mem, fresh, issued>>

(* flock(LOCK_EX) returns. *)
Acquire(p) ==
  /\ pc[p] = "waiting"
  /\ lock = NoProc
  /\ lock' = p
  /\ GoTo(p, "locked")
  /\ UNCHANGED <<file, tmp, mem, op, fresh, issued>>

(* The operation has a record to work on. *)
Applies(o, t) == o.kind \in {"increment", "remove"} => t[o.cred] # Absent

Applied(o, t) ==
  CASE o.kind = "add"       -> WithAdded(t, o.cred)
    [] o.kind = "increment" -> WithIncremented(t, o.cred)
    [] o.kind = "remove"    -> WithRemoved(t, o.cred)
    [] OTHER                -> EmptyTable

(* Mutant of LoadAndApply: the copy is trusted and load() left out. *)
ApplyToCopy(p) ==
  /\ pc[p] = "locked"
  /\ op[p].kind # "destroy"
  /\ Applies(op[p], mem[p])
  /\ mem' = [mem EXCEPT ![p] = Applied(op[p], mem[p])]
  /\ GoTo(p, "save")
  /\ UNCHANGED <<file, tmp, lock, op, fresh, issued>>

(* Mutant of LoadAndApply: a new count waits for the next save. *)
ApplyUnsaved(p) ==
  /\ pc[p] = "locked"
  /\ op[p].kind # "destroy"
  /\ file # Torn
  /\ Applies(op[p], file)
  /\ mem' = [mem EXCEPT ![p] = Applied(op[p], file)]
  /\ GoTo(p, IF op[p].kind = "increment" THEN "return" ELSE "save")
  /\ UNCHANGED <<file, tmp, lock, op, fresh, issued>>

(* load(), then the change to self._credentials. *)
LoadAndApply(p) ==
  /\ pc[p] = "locked"
  /\ op[p].kind # "destroy"
  /\ file # Torn
  /\ Applies(op[p], file)
  /\ mem' = [mem EXCEPT ![p] = Applied(op[p], file)]
  /\ GoTo(p, "save")
  /\ UNCHANGED <<file, tmp, lock, op, fresh, issued>>

(* Mutant of LoadAndMiss: an unknown credential yields -1, not StoreError. *)
MissReturnsAbsent(p) ==
  /\ pc[p] = "locked"
  /\ op[p].kind # "destroy"
  /\ file # Torn
  /\ ~Applies(op[p], file)
  /\ mem' = [mem EXCEPT ![p] = file]
  /\ issued' = [issued EXCEPT ![op[p].cred] = @ \cup {Absent}]
  /\ Leave(p)
  /\ UNCHANGED <<file, tmp, fresh>>

(* The record is gone: increment_counter raises StoreError and remove      *)
(* returns False, both with the copy just loaded.                          *)
LoadAndMiss(p) ==
  /\ pc[p] = "locked"
  /\ op[p].kind # "destroy"
  /\ file # Torn
  /\ ~Applies(op[p], file)
  /\ mem' = [mem EXCEPT ![p] = file]
  /\ Leave(p)
  /\ UNCHANGED <<file, tmp, fresh, issued>>

(* load() raises StoreError, because reading fails or nothing parses.      *)
LoadFails(p) ==
  /\ pc[p] = "locked"
  /\ op[p].kind # "destroy"
  /\ Leave(p)
  /\ UNCHANGED <<file, tmp, mem, fresh, issued>>

(* _save(): open and truncate, write and fsync, rename. *)
OpenTemp(p) ==
  /\ pc[p] = "save"
  /\ tmp' = Torn
  /\ GoTo(p, "write")
  /\ UNCHANGED <<file, lock, mem, op, fresh, issued>>

WriteTemp(p) ==
  /\ pc[p] = "write"
  /\ tmp' = mem[p]
  /\ GoTo(p, "rename")
  /\ UNCHANGED <<file, lock, mem, op, fresh, issued>>

Rename(p) ==
  /\ pc[p] = "rename"
  /\ file' = tmp
  /\ tmp' = NoFile
  /\ GoTo(p, "return")
  /\ UNCHANGED <<lock, mem, op, fresh, issued>>

(* An OSError in _save() leaves the change in the copy.  Opening is outside *)
(* the try, so a failed open does not remove the temporary file.           *)
SaveFails(p) ==
  /\ pc[p] \in SavingPC
  /\ tmp' = IF pc[p] = "save" THEN tmp ELSE NoFile
  /\ Leave(p)
  /\ UNCHANGED <<file, mem, fresh, issued>>

(* destroy_all() empties the copy without loading and unlinks the file.    *)
Forget(p) ==
  /\ pc[p] = "locked"
  /\ op[p].kind = "destroy"
  /\ mem' = [mem EXCEPT ![p] = EmptyTable]
  /\ GoTo(p, "unlink")
  /\ UNCHANGED <<file, tmp, lock, op, fresh, issued>>

Unlink(p) ==
  /\ pc[p] = "unlink"
  /\ file' = EmptyTable
  /\ GoTo(p, "return")
  /\ UNCHANGED <<tmp, lock, mem, op, fresh, issued>>

UnlinkFails(p) ==
  /\ pc[p] = "unlink"
  /\ Leave(p)
  /\ UNCHANGED <<file, tmp, mem, fresh, issued>>

(* The operation returns; increment_counter with the count in the copy.    *)
Return(p) ==
  /\ pc[p] = "return"
  /\ issued' = IF op[p].kind = "increment"
               THEN [issued EXCEPT ![op[p].cred] = @ \cup {mem[p][op[p].cred]}]
               ELSE issued
  /\ Leave(p)
  /\ UNCHANGED <<file, tmp, mem, fresh>>

(* The process ends, killed or by itself. *)
Crash(p) ==
  /\ pc[p] # "off"
  /\ GoTo(p, "off")
  /\ op' = [op EXCEPT ![p] = NoOp]
  /\ mem' = [mem EXCEPT ![p] = EmptyTable]
  /\ lock' = IF lock = p THEN NoProc ELSE lock
  /\ UNCHANGED <<file, tmp, fresh, issued>>

-----------------------------------------------------------------------------
(* What p does with the flock in hand. *)
Work(p) ==
  \/ LoadAndApply(p) \/ LoadAndMiss(p) \/ LoadFails(p)
  \/ OpenTemp(p) \/ WriteTemp(p) \/ Rename(p) \/ SaveFails(p)
  \/ Forget(p) \/ Unlink(p) \/ UnlinkFails(p)
  \/ Return(p)

Next ==
  \E p \in Proc :
    \/ Start(p) \/ Call(p) \/ LockFails(p) \/ Acquire(p) \/ Work(p) \/ Crash(p)

Spec == Init /\ [][Next]_vars

(* A process that is not stopped keeps running, and the kernel wakes the   *)
(* waiters of a lock that is released over and over.                       *)
Fairness == \A p \in Proc : WF_vars(Work(p)) /\ SF_vars(Acquire(p))

FairSpec == Spec /\ Fairness
-----------------------------------------------------------------------------
TypeOK ==
  /\ file \in Table \cup {Torn}
  /\ tmp \in Table \cup {Torn, NoFile}
  /\ lock \in Proc \cup {NoProc}
  /\ mem \in [Proc -> Table]
  /\ pc \in [Proc -> PC]
  /\ op \in [Proc -> Op]
  /\ fresh \in SUBSET Cred
  /\ issued \in [Cred -> SUBSET Nat]

(* The credentials file is at every instant the complete output of one     *)
(* _save(): neither a crash in the middle of writing nor two writers of    *)
(* the one temporary name ever leave a file that load() cannot parse.      *)
FileIsWhole == file # Torn

(* The value increment_counter is about to return for a credential was     *)
(* never returned before, by any process, whatever crashed in between:     *)
(* "a crash can skip counter values but never repeat one".                 *)
CounterIsNew ==
  \A p \in Proc :
    pc[p] = "return" /\ op[p].kind = "increment" =>
      mem[p][op[p].cred] \notin issued[op[p].cred]

(* No returned value is ahead of the file, so that the next reader of the  *)
(* file continues above every value a website has seen.                    *)
FileCoversIssued ==
  \A c \in Cred : \A v \in issued[c] :
    FileIsWhole => file[c] = Absent \/ v <= file[c]

(* The file is at every instant the complete output of one _save(), and    *)
(* however registrations and removals of several processes interleave, it  *)
(* never holds two records for the same website and user.                  *)
AccountsAreDistinct == FileIsWhole /\ OnePerAccount(file)

(* The ids that no file has contained: not drawn, or drawn by an add that  *)
(* has not reached its rename.                                             *)
PendingAdd(p) ==
  op[p].kind = "add" /\ pc[p] \in {"waiting", "locked"} \cup SavingPC
NotYetStored == fresh \cup {op[p].cred : p \in {q \in Proc : PendingAdd(q)}}

(* The processes together behave like a table with atomic operations: no   *)
(* update is lost, no removed record comes back, no operation takes effect *)
(* in part, and a returned count is one the table holds.                   *)
Atomic == INSTANCE AtomicStore
            WITH creds <- file, unused <- NotYetStored, issued <- issued
ImplementsAtomicStore == Atomic!ASpec

(* A process that asks for the flock gets it and finishes its operation,   *)
(* whatever the others do, fail at or die in.                              *)
EveryCallReturns ==
  \A p \in Proc : pc[p] = "waiting" ~> pc[p] \in {"idle", "off"}
=============================================================================
