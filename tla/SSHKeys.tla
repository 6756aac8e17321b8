------------------------------ MODULE SSHKeys ------------------------------
(***************************************************************************)
(* The panel's store of SSH keys (sshkeys.Store): a list in memory, whose  *)
(* lock is held until a change is on the disk, and a file that each change *)
(* truncates and writes anew.  A write can fail at the open or later, the  *)
(* process can die in the middle, and a panel that does not find a whole   *)
(* file refuses to start.  What the process has written outlives it: the   *)
(* loss of power, and of what the kernel had not written yet, is left out. *)
(***************************************************************************)
EXTENDS Naturals

CONSTANTS
  Ids,         \* the random ids of the keys: no two are the same
  MaxCrashes   \* ends of the process: a bound

ASSUME MaxCrashesAssumption == MaxCrashes \in Nat

VARIABLES
  panelUp,     \* the process has started
  listed,      \* its list, s.keys
  onDisk,      \* ssh_keys.json
  saving,      \* the change that holds the lock
  given,       \* ids given out
  crashes,     \* ends of the process so far
  promised,    \* keys whose Add was answered 201 and that nobody has asked to delete
  deleted,     \* keys whose Delete was answered 204
  unsure       \* keys with a change that failed or was cut off, until one is saved
               \* while they are off the list

storeVars == << panelUp, listed, onDisk, saving, given, crashes, promised, deleted, unsure >>

Missing == [kind |-> "missing", keys |-> {}]
Whole(ks) == [kind |-> "whole", keys |-> ks]
Torn == [kind |-> "torn", keys |-> {}]

NoSave == [change |-> "none"]
Saves == [change : {"add", "delete"}, key : Ids, opened : BOOLEAN]

StoreInit ==
  /\ panelUp = TRUE /\ listed \in SUBSET Ids
  /\ onDisk \in {Whole(listed)} \union (IF listed = {} THEN {Missing} ELSE {})
  /\ saving = NoSave /\ given = listed /\ crashes = 0
  /\ promised = listed /\ deleted = {} /\ unsure = {}

\* The lock is free.
Free == panelUp /\ saving = NoSave

Saving(c, k) == saving' = [change |-> c, key |-> k, opened |-> FALSE]

\* The list has the key before the file does.
Add(k) ==
  /\ Free /\ k \notin given
  /\ given' = given \union {k}
  /\ listed' = listed \union {k}
  /\ Saving("add", k)
  /\ UNCHANGED << panelUp, onDisk, crashes, promised, deleted, unsure >>

Delete(k) ==
  /\ Free /\ k \in listed
  /\ listed' = listed \ {k}
  /\ Saving("delete", k)
  /\ promised' = promised \ {k}
  /\ UNCHANGED << panelUp, onDisk, given, crashes, deleted, unsure >>

\* A key that is not on the list counts as deleted, and nothing is written.
DeleteUnlisted(k) ==
  /\ Free /\ k \in given \ listed
  /\ deleted' = deleted \union {k}
  /\ UNCHANGED << panelUp, listed, onDisk, saving, given, crashes, promised, unsure >>

\* Add is answered 201, Delete 204.
Acknowledged ==
  /\ saving' = NoSave
  /\ promised' = IF saving.change = "add" THEN promised \union {saving.key} ELSE promised
  /\ deleted' = IF saving.change = "delete" THEN deleted \union {saving.key} ELSE deleted

\* The error is dropped.
ReportedAsDone == Acknowledged /\ UNCHANGED unsure

\* The error is returned and answered with 500; the list stays as it was changed.
Reported ==
  /\ saving' = NoSave
  /\ unsure' = unsure \union {saving.key}
  /\ UNCHANGED << promised, deleted >>

Opening == saving # NoSave /\ ~ saving.opened
Writing == saving # NoSave /\ saving.opened

OpenFails ==
  /\ Opening /\ Reported
  /\ UNCHANGED << panelUp, listed, onDisk, given, crashes >>

Truncate ==
  /\ Opening
  /\ saving' = [saving EXCEPT !.opened = TRUE]
  /\ onDisk' = Torn
  /\ UNCHANGED << panelUp, listed, given, crashes, promised, deleted, unsure >>

Write ==
  /\ Writing /\ Acknowledged
  /\ onDisk' = Whole(listed)
  /\ unsure' = unsure \intersect listed
  /\ UNCHANGED << panelUp, listed, given, crashes >>

\* The write or the close fails: some of the bytes are there, or all of them.
WriteFails ==
  /\ Writing /\ Reported
  /\ onDisk' \in {Torn, Whole(listed)}
  /\ UNCHANGED << panelUp, listed, given, crashes >>

\* The process ends, wherever it is.
Crash ==
  /\ panelUp /\ crashes < MaxCrashes
  /\ crashes' = crashes + 1
  /\ panelUp' = FALSE /\ listed' = {} /\ saving' = NoSave
  /\ unsure' = IF saving = NoSave THEN unsure ELSE unsure \union {saving.key}
  /\ UNCHANGED << onDisk, given, promised, deleted >>

\* An error of the parser is dropped.
NewStoreAnyway ==
  /\ ~ panelUp
  /\ panelUp' = TRUE /\ listed' = onDisk.keys
  /\ UNCHANGED << onDisk, saving, given, crashes, promised, deleted, unsure >>

\* A file that is not there is an empty list; one that does not parse ends the process
\* again, until somebody repairs the file.
NewStore ==
  /\ ~ panelUp /\ onDisk # Torn
  /\ panelUp' = TRUE /\ listed' = onDisk.keys
  /\ UNCHANGED << onDisk, saving, given, crashes, promised, deleted, unsure >>

StoreNext ==
  \/ \E k \in Ids : Add(k) \/ Delete(k) \/ DeleteUnlisted(k)
  \/ OpenFails \/ Truncate \/ Write \/ WriteFails \/ Crash \/ NewStore

StoreSpec == StoreInit /\ [][StoreNext]_storeVars
-----------------------------------------------------------------------------
StoreTypeOK ==
  /\ panelUp \in BOOLEAN /\ listed \in SUBSET Ids
  /\ onDisk \in [kind : {"missing", "whole", "torn"}, keys : SUBSET Ids]
  /\ saving \in {NoSave} \union Saves
  /\ given \in SUBSET Ids /\ crashes \in 0..MaxCrashes
  /\ promised \in SUBSET Ids /\ deleted \in SUBSET Ids /\ unsure \in SUBSET Ids

\* A key the panel said it has (201), and that nobody has asked to delete, is on the list
\* of this process and of every later one that starts, whatever writes of other keys
\* failed in between: AddSSHKey, Store.Add, NewStore.
PromisedIsKept == panelUp => promised \subseteq listed

\* A deletion the panel acknowledged (204) does not come undone by a later change, failed
\* or not, nor by a restart - but where the acknowledged call was the repetition of one
\* whose write had failed, and found the key off the list already (store.go:69):
\* DeleteSSHKey, Store.Delete.
DeletedStaysAway == (deleted \ unsure) \intersect listed = {}

\* The same of every deletion that was acknowledged.
AnsweredStaysAway == deleted \intersect listed = {}
=============================================================================
