----------------------------- MODULE KeyPicker -----------------------------
(***************************************************************************)
(* InstanceSSHKeys of InstanceDetailPage.tsx: the panel's keys with a tick *)
(* each, ticked once when the two queries behind them have come, and       *)
(* written over the instance's authorized_keys when the user applies them. *)
(* The handlers of sshkeys.go are on the other side: one reads the file    *)
(* line by line, the other writes it anew.                                 *)
(***************************************************************************)
EXTENDS Naturals

CONSTANTS
  PanelKeys,   \* the keys of the panel
  OtherLine,   \* a line of the file that is none of them
  MaxWrites    \* changes of the file by others: a bound

ASSUME PanelKeysAssumption == PanelKeys # {} /\ OtherLine \notin PanelKeys
ASSUME MaxWritesAssumption == MaxWrites \in Nat

Lines == PanelKeys \union {OtherLine}

VARIABLES
  file,        \* the lines of authorized_keys
  writes,      \* changes by others so far
  storeLoaded, \* the page has the panel's keys
  keyLines,    \* what it has of the file: no answer, a list, or null
  reading,     \* a read of the file is under way
  initialized, \* the ticks were set
  selected,    \* the ticks
  applying,    \* the ticks on their way to the server
  unticked,    \* keys the user has ever unticked on this page
  disturbed,   \* others have written, or before the ticks were set a read did not bring
               \* what the file has or an apply was pressed
  crashed      \* a render has failed and taken the page with it

keysVars == << file, writes, storeLoaded, keyLines, reading, initialized, selected,
               applying, unticked, disturbed, crashed >>

NoAnswer == [kind |-> "none", lines |-> {}]
Listed(ls) == [kind |-> "list", lines |-> ls]
NullAnswer == [kind |-> "null", lines |-> {}]

KeysInit ==
  /\ file \in SUBSET Lines /\ writes = 0
  /\ storeLoaded = FALSE /\ keyLines = NoAnswer /\ reading = TRUE
  /\ initialized = FALSE /\ selected = {} /\ applying = {}
  /\ unticked = {} /\ disturbed = FALSE /\ crashed = FALSE

\* isLoading: no data yet, and a read under way.
IsLoading == keyLines = NoAnswer /\ reading

\* GetInstanceSSHKeys: a file that Incus does not hand out is an empty list; one that
\* has no line is a nil slice, null in the answer.
GetInstanceSSHKeys == {Listed({}), IF file = {} THEN NullAnswer ELSE Listed(file)}

\* A tick for every key whose line the page has; data that are not there count as an
\* empty list.
Ticked(answer) == answer.lines \intersect PanelKeys

\* The effect without its look at isLoading.
InitialisesEarly ==
  /\ initialized' = (initialized \/ storeLoaded')
  /\ selected' = IF initialized' /\ ~ initialized THEN Ticked(keyLines') ELSE selected

\* The effect on the two queries: once, when there are keys and no first load is
\* under way.
Initialises ==
  /\ initialized' = (initialized \/ (storeLoaded' /\ ~ IsLoading'))
  /\ selected' = IF initialized' /\ ~ initialized THEN Ticked(keyLines') ELSE selected

\* The default of instanceKeyLines is for undefined, not for null: with a key to look
\* for, null.some fails.
Renders == crashed' = (storeLoaded' /\ keyLines' = NullAnswer)

StoreLoads ==
  /\ ~ crashed /\ ~ storeLoaded
  /\ storeLoaded' = TRUE
  /\ UNCHANGED << file, writes, keyLines, reading, applying, unticked, disturbed >>
  /\ Initialises /\ Renders

ReadAnswered ==
  /\ ~ crashed /\ reading
  /\ reading' = FALSE
  /\ keyLines' \in GetInstanceSSHKeys
  /\ disturbed' = (disturbed \/ (~ initialized /\ keyLines'.lines # file))
  /\ UNCHANGED << file, writes, storeLoaded, applying, unticked >>
  /\ Initialises /\ Renders

\* The read and its repetition fail: the page keeps what it has.
ReadFails ==
  /\ ~ crashed /\ reading
  /\ reading' = FALSE
  /\ disturbed' = (disturbed \/ ~ initialized)
  /\ UNCHANGED << file, writes, storeLoaded, keyLines, applying, unticked >>
  /\ Initialises /\ Renders

\* The window gets the focus.
ReadAgain ==
  /\ ~ crashed /\ ~ reading
  /\ reading' = TRUE
  /\ UNCHANGED << file, writes, storeLoaded, keyLines, initialized, selected, applying,
                  unticked, disturbed, crashed >>

Toggle(k) ==
  /\ ~ crashed /\ storeLoaded
  /\ selected' = IF k \in selected THEN selected \ {k} ELSE selected \union {k}
  /\ unticked' = IF k \in selected THEN unticked \union {k} ELSE unticked
  /\ UNCHANGED << file, writes, storeLoaded, keyLines, reading, initialized, applying,
                  disturbed, crashed >>

\* The button is there from the first render on; it asks only that no other apply is
\* on its way.
PressApply ==
  /\ ~ crashed /\ applying = {}
  /\ applying' = {selected}
  /\ disturbed' = (disturbed \/ ~ initialized)
  /\ UNCHANGED << file, writes, storeLoaded, keyLines, reading, initialized, selected,
                  unticked, crashed >>

\* PutInstanceSSHKeys overwrites the file with the keys it is given, and the page reads
\* the file again.
PutInstanceSSHKeys(ids) ==
  /\ file' = ids
  /\ applying' = {} /\ reading' = (reading \/ ~ crashed)
  /\ UNCHANGED << writes, storeLoaded, keyLines, initialized, selected, unticked,
                  disturbed, crashed >>

ApplyFails ==
  /\ applying # {}
  /\ applying' = {}
  /\ UNCHANGED << file, writes, storeLoaded, keyLines, reading, initialized, selected,
                  unticked, disturbed, crashed >>

OthersWrite ==
  /\ writes < MaxWrites
  /\ writes' = writes + 1
  /\ file' \in SUBSET Lines
  /\ disturbed' = TRUE
  /\ UNCHANGED << storeLoaded, keyLines, reading, initialized, selected, applying,
                  unticked, crashed >>

KeysNext ==
  \/ StoreLoads \/ ReadAnswered \/ ReadFails \/ ReadAgain \/ PressApply \/ ApplyFails
  \/ OthersWrite
  \/ \E k \in PanelKeys : Toggle(k)
  \/ \E ids \in applying : PutInstanceSSHKeys(ids)

KeysSpec == KeysInit /\ [][KeysNext]_keysVars
-----------------------------------------------------------------------------
KeysTypeOK ==
  /\ file \in SUBSET Lines /\ writes \in 0..MaxWrites
  /\ storeLoaded \in BOOLEAN /\ reading \in BOOLEAN /\ initialized \in BOOLEAN
  /\ keyLines \in [kind : {"none", "list", "null"}, lines : SUBSET Lines]
  /\ selected \in SUBSET PanelKeys /\ unticked \in SUBSET PanelKeys
  /\ applying \subseteq SUBSET PanelKeys
  /\ disturbed \in BOOLEAN /\ crashed \in BOOLEAN

\* What an apply would take away: keys of the panel that it was not given.
TakenAway(ids) == (file \intersect PanelKeys) \ ids

\* Ticks that were set, and set from what the file had, do not take a key from the
\* instance that the user has not unticked at some time - through loads in any order,
\* reads that fail later on, and one apply after another.  (An apply pressed before
\* the ticks are set takes them all, as does one after a first read that failed.)
TakesOnlyUnticked ==
  ~ disturbed => \A ids \in applying : TakenAway(ids) \subseteq unticked

\* "返回 key 行列表": the answer is a list of lines, and the page can show it.
PageStaysUp == ~ crashed
=============================================================================
