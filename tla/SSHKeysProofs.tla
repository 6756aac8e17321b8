---------------------------- MODULE SSHKeysProofs ----------------------------
(***************************************************************************)
(* Proofs about the SSH keys, for any keys of the panel: that an apply of  *)
(* KeyPicker takes away no key the user has not unticked, that the store   *)
(* keeps what it has promised, and the types of both.                      *)
(***************************************************************************)
EXTENDS KeyPicker, SSHKeys, TLAPS

-----------------------------------------------------------------------------
(* Types *)

Answers == [kind : {"none", "list", "null"}, lines : SUBSET Lines]

\* What the handler answers is an answer.
LEMMA AnswersTyped ==
  ASSUME file \in SUBSET Lines
  PROVE  GetInstanceSSHKeys \subseteq Answers /\ NoAnswer \in Answers
BY DEF GetInstanceSSHKeys, Listed, NullAnswer, NoAnswer, Answers

\* The effect on the queries sets ticks that keys of the panel can have.
LEMMA InitialisesTyped ==
  ASSUME storeLoaded' \in BOOLEAN, initialized \in BOOLEAN, selected \in SUBSET PanelKeys,
         Initialises
  PROVE  initialized' \in BOOLEAN /\ selected' \in SUBSET PanelKeys
BY DEF Initialises, Ticked

\* Any step keeps the types.
LEMMA TypeStep ==
  ASSUME KeysTypeOK, [KeysNext]_keysVars
  PROVE  KeysTypeOK'
<1>1. CASE StoreLoads
  BY <1>1, InitialisesTyped DEF StoreLoads, KeysTypeOK, Renders
<1>2. CASE ReadAnswered
  <2>1. keyLines' \in Answers
    BY <1>2, AnswersTyped DEF ReadAnswered, KeysTypeOK
  <2> QED
    BY <1>2, <2>1, InitialisesTyped DEF ReadAnswered, KeysTypeOK, Renders, Answers
<1>3. CASE ReadFails
  BY <1>3, InitialisesTyped DEF ReadFails, KeysTypeOK, Renders
<1>4. CASE ReadAgain
  BY <1>4 DEF ReadAgain, KeysTypeOK
<1>5. CASE PressApply
  BY <1>5 DEF PressApply, KeysTypeOK
<1>6. CASE ApplyFails
  BY <1>6 DEF ApplyFails, KeysTypeOK
<1>7. CASE OthersWrite
  BY <1>7, MaxWritesAssumption DEF OthersWrite, KeysTypeOK
<1>8. ASSUME NEW k \in PanelKeys, Toggle(k) PROVE KeysTypeOK'
  BY <1>8 DEF Toggle, KeysTypeOK
<1>9. ASSUME NEW ids \in applying, PutInstanceSSHKeys(ids) PROVE KeysTypeOK'
  BY <1>9 DEF PutInstanceSSHKeys, KeysTypeOK, Lines
<1>10. CASE UNCHANGED keysVars
  BY <1>10 DEF keysVars, KeysTypeOK
<1> QED
  BY <1>1, <1>2, <1>3, <1>4, <1>5, <1>6, <1>7, <1>8, <1>9, <1>10 DEF KeysNext

\* The file and what the page has of it, the ticks and what is applied keep to their types.
THEOREM KeysTypeCorrect == KeysSpec => []KeysTypeOK
<1>1. KeysInit => KeysTypeOK
  <2> SUFFICES ASSUME KeysInit
               PROVE  KeysTypeOK
    OBVIOUS
  <2>1. NoAnswer \in Answers /\ 0 \in 0..MaxWrites
    BY MaxWritesAssumption, AnswersTyped DEF KeysInit
  <2> QED
    BY <2>1 DEF KeysInit, KeysTypeOK, Answers
<1>2. KeysTypeOK /\ [KeysNext]_keysVars => KeysTypeOK'
  BY TypeStep
<1> QED
  BY <1>1, <1>2, PTL DEF KeysSpec
-----------------------------------------------------------------------------
(* Only what was unticked *)

\* Before the ticks are set nothing is applied, and the page has what the file has or is
\* still waiting for it; afterwards the file, what is applied and the ticks differ by
\* keys that were unticked.
Undisturbed ==
  /\ ~ initialized =>
       /\ applying = {}
       /\ IF keyLines = NoAnswer THEN reading ELSE keyLines.lines = file
  /\ initialized => TakenAway(selected) \subseteq unticked
  /\ \A ids \in applying :
       TakenAway(ids) \subseteq unticked /\ ids \ selected \subseteq unticked

KeysInvariant == ~ disturbed => Undisturbed

\* When the effect runs with the file's lines at hand, what follows is undisturbed.
LEMMA InitialisesSound ==
  ASSUME KeysTypeOK, KeysTypeOK', Undisturbed, Initialises,
         UNCHANGED << file, applying, unticked >>,
         ~ initialized => IF keyLines' = NoAnswer THEN reading' ELSE keyLines'.lines = file
  PROVE  Undisturbed'
<1>1. CASE initialized
  BY <1>1 DEF Initialises, Undisturbed, TakenAway, KeysTypeOK
<1>2. CASE ~ initialized /\ ~ initialized'
  BY <1>2 DEF Initialises, Undisturbed, TakenAway, KeysTypeOK
<1>3. CASE ~ initialized /\ initialized'
  <2>1. keyLines'.lines = file /\ selected' = file \intersect PanelKeys
    BY <1>3 DEF Initialises, IsLoading, Ticked, KeysTypeOK
  <2> QED
    BY <1>3, <2>1 DEF Undisturbed, TakenAway
<1> QED
  BY <1>1, <1>2, <1>3 DEF KeysTypeOK

\* Any step keeps it.
LEMMA KeysStep ==
  ASSUME KeysTypeOK, KeysTypeOK', KeysInvariant, [KeysNext]_keysVars
  PROVE  KeysInvariant'
<1> SUFFICES ASSUME ~ disturbed'
             PROVE  Undisturbed'
  BY DEF KeysInvariant
<1> USE DEF KeysInvariant
<1>1. CASE StoreLoads
  <2>1. Undisturbed /\ Initialises /\ UNCHANGED << file, applying, unticked >>
    BY <1>1 DEF StoreLoads
  <2>2. ~ initialized => IF keyLines' = NoAnswer THEN reading' ELSE keyLines'.lines = file
    BY <1>1, <2>1 DEF StoreLoads, Undisturbed, NoAnswer
  <2> QED
    BY <2>1, <2>2, InitialisesSound
<1>2. CASE ReadAnswered
  <2>1. Undisturbed /\ Initialises /\ UNCHANGED << file, applying, unticked >>
    BY <1>2 DEF ReadAnswered, KeysTypeOK
  <2>2. keyLines' # NoAnswer
    BY <1>2 DEF ReadAnswered, GetInstanceSSHKeys, Listed, NullAnswer, NoAnswer
  <2>3. ~ initialized => keyLines'.lines = file
    BY <1>2 DEF ReadAnswered
  <2> QED
    BY <2>1, <2>2, <2>3, InitialisesSound
<1>3. CASE ReadFails
  <2>1. /\ Undisturbed /\ Initialises /\ UNCHANGED << file, applying, unticked >>
        /\ initialized
    BY <1>3 DEF ReadFails, KeysTypeOK
  <2> QED
    BY <2>1, InitialisesSound
<1>4. CASE ReadAgain
  BY <1>4 DEF ReadAgain, Undisturbed, TakenAway, NoAnswer
<1>5. CASE PressApply
  <2>1. Undisturbed /\ initialized
    BY <1>5 DEF PressApply, KeysTypeOK
  <2> QED
    BY <1>5, <2>1 DEF PressApply, Undisturbed, TakenAway
<1>6. CASE ApplyFails
  BY <1>6 DEF ApplyFails, Undisturbed, TakenAway, NoAnswer
<1>7. CASE OthersWrite
  BY <1>7 DEF OthersWrite
<1>8. ASSUME NEW k \in PanelKeys, Toggle(k) PROVE Undisturbed'
  BY <1>8 DEF Toggle, Undisturbed, TakenAway, NoAnswer, KeysTypeOK
<1>9. ASSUME NEW ids \in applying, PutInstanceSSHKeys(ids) PROVE Undisturbed'
  <2>1. Undisturbed /\ initialized /\ ids \ selected \subseteq unticked
    BY <1>9 DEF PutInstanceSSHKeys, Undisturbed
  <2> QED
    BY <1>9, <2>1 DEF PutInstanceSSHKeys, Undisturbed, TakenAway
<1>10. CASE UNCHANGED keysVars
  BY <1>10 DEF keysVars, Undisturbed, TakenAway, NoAnswer
<1> QED
  BY <1>1, <1>2, <1>3, <1>4, <1>5, <1>6, <1>7, <1>8, <1>9, <1>10 DEF KeysNext

\* Ticks set from what the file had never take a key from the instance that was not
\* unticked, however often they are applied and read again.
THEOREM OnlyUntickedTaken == KeysSpec => []TakesOnlyUnticked
<1>1. KeysInit => KeysInvariant
  BY DEF KeysInit, KeysInvariant, Undisturbed
<1>2. KeysTypeOK /\ KeysTypeOK' /\ KeysInvariant /\ [KeysNext]_keysVars => KeysInvariant'
  BY KeysStep
<1>3. KeysInvariant => TakesOnlyUnticked
  BY DEF KeysInvariant, Undisturbed, TakesOnlyUnticked
<1> QED
  BY <1>1, <1>2, <1>3, KeysTypeCorrect, PTL DEF KeysSpec
-----------------------------------------------------------------------------
(* The store *)

\* Any step of the store keeps its types.
LEMMA StoreTypeStep ==
  ASSUME StoreTypeOK, [StoreNext]_storeVars
  PROVE  StoreTypeOK'
<1> USE DEF StoreTypeOK
<1>1. ASSUME NEW k \in Ids, Add(k) PROVE StoreTypeOK'
  BY <1>1 DEF Add, Free, Saving, Saves
<1>2. ASSUME NEW k \in Ids, Delete(k) PROVE StoreTypeOK'
  BY <1>2 DEF Delete, Free, Saving, Saves
<1>3. ASSUME NEW k \in Ids, DeleteUnlisted(k) PROVE StoreTypeOK'
  BY <1>3 DEF DeleteUnlisted
<1>4. saving # NoSave => saving \in Saves /\ saving.key \in Ids
  BY DEF Saves
<1>5. CASE OpenFails
  BY <1>4, <1>5 DEF OpenFails, Opening, Reported
<1>6. CASE Truncate
  BY <1>4, <1>6 DEF Truncate, Opening, Torn, Saves
<1>7. CASE Write
  BY <1>4, <1>7 DEF Write, Writing, Acknowledged, Whole
<1>8. CASE WriteFails
  BY <1>4, <1>8 DEF WriteFails, Writing, Reported, Torn, Whole
<1>9. CASE Crash
  <2>1. crashes' \in 0..MaxCrashes
    BY <1>9, MaxCrashesAssumption DEF Crash
  <2>2. unsure' \in SUBSET Ids
    BY <1>4, <1>9 DEF Crash
  <2> QED
    BY <1>9, <2>1, <2>2 DEF Crash
<1>10. CASE NewStore
  BY <1>10 DEF NewStore
<1>11. CASE UNCHANGED storeVars
  BY <1>11 DEF storeVars
<1> QED
  BY <1>1, <1>2, <1>3, <1>5, <1>6, <1>7, <1>8, <1>9, <1>10, <1>11 DEF StoreNext

\* The list, the file and the change under way keep to their types.
THEOREM StoreTypeCorrect == StoreSpec => []StoreTypeOK
<1>1. StoreInit => StoreTypeOK
  BY MaxCrashesAssumption DEF StoreInit, StoreTypeOK, Whole, Missing
<1>2. StoreTypeOK /\ [StoreNext]_storeVars => StoreTypeOK'
  BY StoreTypeStep
<1> QED
  BY <1>1, <1>2, PTL DEF StoreSpec

\* What a process that starts now would have on its list.
Sound(ks) == promised \subseteq ks /\ (deleted \ unsure) \intersect ks = {}

\* The keys on the disk that the list has not: their deletion failed, or is under way.
Behind == onDisk.keys \ listed

StoreInvariant ==
  /\ panelUp => Sound(listed)
  /\ ~ panelUp => listed = {} /\ saving = NoSave
  /\ onDisk # Torn => Sound(onDisk.keys)
  /\ panelUp => Behind \subseteq unsure \union (IF saving = NoSave THEN {} ELSE {saving.key})
  /\ saving # NoSave => saving.key \in given
  /\ deleted \subseteq given /\ listed \subseteq given /\ onDisk.keys \subseteq given
  /\ saving # NoSave => (saving.change = "add" <=> saving.key \in listed)
  /\ Writing => onDisk = Torn

\* Any step of the store keeps it.
LEMMA StoreStep ==
  ASSUME StoreTypeOK, StoreInvariant, [StoreNext]_storeVars
  PROVE  StoreInvariant'
<1> USE DEF StoreTypeOK, StoreInvariant, Sound, Behind
<1>1. ASSUME NEW k \in Ids, Add(k) PROVE StoreInvariant'
  BY <1>1 DEF Add, Free, Saving, NoSave, Writing
<1>2. ASSUME NEW k \in Ids, Delete(k) PROVE StoreInvariant'
  BY <1>2 DEF Delete, Free, Saving, NoSave, Writing
<1>3. ASSUME NEW k \in Ids, DeleteUnlisted(k) PROVE StoreInvariant'
  BY <1>3 DEF DeleteUnlisted, Free, Writing
<1>4. saving # NoSave => saving \in Saves /\ panelUp
  OBVIOUS
<1>5. CASE OpenFails
  BY <1>4, <1>5 DEF OpenFails, Opening, Reported, Writing
<1>6. CASE Truncate
  BY <1>4, <1>6 DEF Truncate, Opening, Torn, Saves, NoSave, Writing
<1>7. CASE Write
  <2>1. saving \in Saves /\ saving # NoSave /\ panelUp
    BY <1>4, <1>7 DEF Write, Writing
  <2>2. /\ UNCHANGED << panelUp, listed, given >>
        /\ onDisk'.keys = listed /\ saving' = NoSave /\ unsure' = unsure \intersect listed
    BY <1>7 DEF Write, Acknowledged, Whole
  <2>3. promised' \subseteq listed
    BY <1>7, <2>1 DEF Write, Acknowledged
  <2>4. deleted' \subseteq given /\ (deleted' \ unsure') \intersect listed = {}
    <3>1. CASE saving.change = "add"
      BY <1>7, <2>1, <2>2, <3>1 DEF Write, Acknowledged
    <3>2. CASE saving.change = "delete"
      <4>1. saving.key \notin listed /\ deleted' = deleted \union {saving.key}
        BY <1>7, <2>1, <3>2 DEF Write, Acknowledged
      <4>2. (deleted' \ unsure') \intersect listed = {}
        BY <2>1, <2>2, <4>1
      <4>3. saving.key \in given
        BY <2>1
      <4> QED
        BY <4>1, <4>2, <4>3
    <3> QED
      BY <2>1, <3>1, <3>2 DEF Saves
  <2> QED
    BY <2>1, <2>2, <2>3, <2>4 DEF Writing
<1>8. CASE WriteFails
  BY <1>4, <1>8 DEF WriteFails, Writing, Reported, Torn, Whole
<1>9. CASE Crash
  BY <1>4, <1>9 DEF Crash, Writing
<1>10. CASE NewStore
  BY <1>10 DEF NewStore, Writing
<1>11. CASE UNCHANGED storeVars
  BY <1>11 DEF storeVars, Writing
<1> QED
  BY <1>1, <1>2, <1>3, <1>5, <1>6, <1>7, <1>8, <1>9, <1>10, <1>11 DEF StoreNext

\* The invariant holds throughout.
LEMMA StoreInvariantHolds == StoreSpec => []StoreInvariant
<1>1. StoreInit => StoreInvariant
  BY DEF StoreInit, StoreInvariant, Sound, Behind, Whole, Missing, Torn, Writing
<1>2. StoreTypeOK /\ StoreInvariant /\ [StoreNext]_storeVars => StoreInvariant'
  BY StoreStep
<1> QED
  BY <1>1, <1>2, StoreTypeCorrect, PTL DEF StoreSpec

\* A key that was acknowledged stays on the list until somebody asks to delete it, through
\* failed writes and restarts.
THEOREM PromisesAreKept == StoreSpec => []PromisedIsKept
<1>1. StoreInvariant => PromisedIsKept
  BY DEF StoreInvariant, Sound, PromisedIsKept
<1> QED
  BY <1>1, StoreInvariantHolds, PTL

\* A deletion that was acknowledged does not come undone, but for a repetition that found
\* the key off the list.
THEOREM DeletionsStay == StoreSpec => []DeletedStaysAway
<1>1. StoreInvariant => DeletedStaysAway
  BY DEF StoreInvariant, Sound, DeletedStaysAway
<1> QED
  BY <1>1, StoreInvariantHolds, PTL
=============================================================================
