-------------------------- MODULE SharedPreferences --------------------------
(***************************************************************************)
(* app/SharedPreferencesImpl: a map in memory, editors that collect        *)
(* modifications, and a file that commit() replaces with the help of a     *)
(* backup.  Everything happens under mLock; what makes it hard is that the *)
(* program may be killed, or the machine lose power, between two calls of  *)
(* the file system, and that these calls may fail.                         *)
(*                                                                         *)
(* A power loss reveals the files as they were at any moment since the     *)
(* directory was last synchronised, in the order of the operations, and    *)
(* with contents that were not synchronised cut off.                       *)
(***************************************************************************)
EXTENDS Integers, FiniteSets

CONSTANTS
  Keys, Values,  \* a value is a Variant: [type, v]
  Editors, Listeners,
  IntMod,        \* 2^32
  Floats,        \* the numbers that a float can be, in some unit
  Micro,         \* 10^-6 in that unit
  None,
  MaxPending,    \* bound: modifications in the editors
  MaxCommits,    \* bound: commits that store something
  MaxFaults      \* bound: calls of the file system that fail

ASSUME SharedPreferencesAssumption ==
  /\ IntMod \in Nat \ {0} /\ Micro \in Nat \ {0} /\ Floats \subseteq Int /\ None \notin Values
  /\ MaxPending \in Nat /\ MaxCommits \in Nat /\ MaxFaults \in Nat

VARIABLES
  \* the file system
  files,         \* [file, backup: None or [map, whole, synced]]
  past,          \* the files that a power loss may reveal
  \* the object
  sync,          \* the mode is not MODE_NO_SYNC
  mMap,          \* None while the program is not running
  mListeners,
  mModifications, mClearMap,  \* per editor
  pc,            \* the next step of commit() or of the constructor
  modifiedKeys,  \* commit()'s local variable
  heard,         \* per listener: the values of the keys it has been told of
  quiet,         \* keys that have changed without a word to the listeners
  \* history
  committed,     \* the map of the last commit that returned true
  attempts,      \* the maps of later commits
  faults,        \* calls that have failed
  lossy,         \* has one failed that the code does not answer for?
  commits        \* commits that stored

fileVars == <<files, past>>
editVars == <<mModifications, mClearMap>>
history == <<committed, attempts, commits>>
listenVars == <<mListeners, heard, quiet>>
vars == <<sync, fileVars, mMap, listenVars, editVars, pc, modifiedKeys, history, faults, lossy>>

Map == UNION {[ks -> Values] : ks \in SUBSET Keys}
NoEntries == [k \in {} |-> None]

\* nullptr is neither a map nor a file.
ASSUME NoneAssumption == None \notin Map \cup [map: Map, whole: BOOLEAN, synced: BOOLEAN]

(***************************************************************************)
(* writeMap and readMap.  Longs go through an int.  Floats are written     *)
(* with "%f", six digits after the point, and come back as the float that  *)
(* is nearest to those.  The parser takes no text from an element that     *)
(* holds nothing but white space: such a string comes back empty, and a    *)
(* set comes back without it.  Line ends become line feeds.                *)
(***************************************************************************)
ToInt(n) == LET m == n % IntMod IN IF m >= IntMod \div 2 THEN m - IntMod ELSE m

Rounded(x) == ((x + Micro \div 2) \div Micro) * Micro
Distance(x, y) == IF x < y THEN y - x ELSE x - y
ToFloat(x) == CHOOSE f \in Floats : \A g \in Floats :
                Distance(f, Rounded(x)) <= Distance(g, Rounded(x))

\* Strings that stand for those of their kind.
Blank == {"", " "}
Text(s) == IF s \in Blank THEN "" ELSE IF s \in {"a\rb", "a\r\nb"} THEN "a\nb" ELSE s

Written(v) == CASE v.type = "long" -> [v EXCEPT !.v = ToInt(@)]
                [] v.type = "float" -> [v EXCEPT !.v = ToFloat(@)]
                [] v.type = "string" -> [v EXCEPT !.v = Text(@)]
                [] v.type = "set" -> [v EXCEPT !.v = {Text(s) : s \in @ \ Blank}]
                [] OTHER -> v  \* booleans and ints

\* What is written of a value is a value.
ASSUME WrittenAssumption == \A v \in Values : Written(v) \in Values

\* The map that comes back.
Stored(map) == [k \in DOMAIN map |-> Written(map[k])]

Content(map) == [map |-> Stored(map), whole |-> TRUE, synced |-> FALSE]

Partial == [map |-> NoEntries, whole |-> FALSE, synced |-> FALSE]

\* A file that is missing, empty or cut off gives an empty map.
readMap(f) == IF f # None /\ f.whole THEN f.map ELSE NoEntries

\* What loadSharedPrefs() finds in the given files.
Loaded(fs) == readMap(IF fs.backup # None THEN fs.backup ELSE fs.file)

\* The files after a power loss.
Torn(f) == {f} \cup IF f # None /\ ~f.synced THEN {Partial} ELSE {}
Images(fs) == [file: Torn(fs.file), backup: Torn(fs.backup)]

(***************************************************************************)
(* The file system: an operation may fail.  The code does not answer for a *)
(* backup that cannot be removed or restored, or for a disk that is full   *)
(* when the file is written (SaveFile does not look).                      *)
(***************************************************************************)
Fails(unanswered) ==
  /\ faults < MaxFaults
  /\ faults' = faults + 1 /\ lossy' = (lossy \/ unanswered)

Works == UNCHANGED <<faults, lossy>>

Files(fs) == files' = fs /\ past' = past \cup {fs}

\* Synchronised contents are so in whatever a power loss reveals.
Synced(f) == IF f = None THEN None ELSE [f EXCEPT !.synced = TRUE]
FileSynced(fs) == [fs EXCEPT !.file = Synced(@)]

\* The constructor has found no file, or one that an earlier program left.
Init ==
  /\ files \in [file: {None} \cup {Synced(Content(m)) : m \in Map}, backup: {None}]
  /\ past = {files}
  /\ sync \in BOOLEAN /\ mMap = readMap(files.file) /\ mListeners = {} /\ quiet = {}
  /\ mModifications = [e \in Editors |-> NoEntries]
  /\ mClearMap = [e \in Editors |-> FALSE]
  /\ pc = "idle" /\ modifiedKeys = {}
  /\ heard = [l \in Listeners |-> NoEntries]
  /\ committed = mMap /\ attempts = {} /\ commits = 0
  /\ faults = 0 /\ lossy = FALSE

(***************************************************************************)
(* Editors and listeners.                                                  *)
(***************************************************************************)
Unlocked == pc = "idle"

\* putString() and its kind; None removes the key.
Put(e, k, v) ==
  /\ Unlocked
  /\ Cardinality({p \in Editors \X Keys : p[2] \in DOMAIN mModifications[p[1]]}) < MaxPending
  /\ mModifications' = [mModifications EXCEPT
       ![e] = [j \in DOMAIN @ \cup {k} |-> IF j = k THEN v ELSE @[j]]]
  /\ UNCHANGED <<sync, fileVars, mMap, listenVars, mClearMap, pc, modifiedKeys, history, faults,
                 lossy>>

Clear(e) ==
  /\ Unlocked
  /\ mClearMap' = [mClearMap EXCEPT ![e] = TRUE]
  /\ UNCHANGED <<sync, fileVars, mMap, listenVars, mModifications, pc, modifiedKeys, history,
                 faults, lossy>>

Register(l) ==
  /\ Unlocked
  /\ mListeners' = mListeners \cup {l}
  /\ UNCHANGED <<sync, fileVars, mMap, editVars, pc, modifiedKeys, heard, quiet, history, faults,
                 lossy>>

Unregister(l) ==
  /\ Unlocked
  /\ mListeners' = mListeners \ {l} /\ heard' = [heard EXCEPT ![l] = NoEntries]
  /\ UNCHANGED <<sync, fileVars, mMap, editVars, pc, modifiedKeys, quiet, history, faults, lossy>>

\* The value of key k if it has the type that is asked for.
get(k, type, defValue) ==
  IF k \in DOMAIN mMap /\ mMap[k].type = type THEN mMap[k] ELSE defValue

(***************************************************************************)
(* commit(): modifications are applied to the map, after clear().          *)
(***************************************************************************)
Base(e) == IF mClearMap[e] THEN NoEntries ELSE mMap

Applied(e) ==
  LET b == Base(e)  m == mModifications[e]
      keys == (DOMAIN b \cup DOMAIN m) \ {k \in DOMAIN m : m[k] = None}
  IN  [k \in keys |-> IF k \in DOMAIN m THEN m[k] ELSE b[k]]

\* Variant: removals are not reported.
ModifiedValues(e) ==
  LET b == Base(e)  m == mModifications[e] IN
  {k \in DOMAIN m : m[k] # None /\ (k \notin DOMAIN b \/ b[k] # m[k])}

\* The keys whose modification makes a difference; not those that clear() removes.
Modified(e) ==
  LET b == Base(e)  m == mModifications[e] IN
  {k \in DOMAIN m : IF m[k] = None THEN k \in DOMAIN b
                    ELSE k \notin DOMAIN b \/ b[k] # m[k]}

Commit(e) ==
  LET changes == Modified(e) # {} \/ Base(e) # mMap IN
  /\ Unlocked
  /\ changes => commits < MaxCommits
  /\ mMap' = Applied(e)
  /\ modifiedKeys' = IF changes THEN Modified(e) ELSE {}
  /\ mModifications' = [mModifications EXCEPT ![e] = NoEntries]
  /\ mClearMap' = [mClearMap EXCEPT ![e] = FALSE]
  /\ pc' = IF changes THEN "backup" ELSE "idle"  \* false
  /\ commits' = IF changes THEN commits + 1 ELSE commits
  /\ attempts' = IF changes THEN attempts \cup {Applied(e)} ELSE attempts
  /\ quiet' = (quiet \cup {k \in DOMAIN mMap : k \notin DOMAIN Base(e)}) \ Modified(e)
  /\ UNCHANGED <<sync, fileVars, mListeners, heard, committed, faults, lossy>>

\* A commit that returns false has changed the map and told nobody.
ReturnFalse == pc' = "idle" /\ modifiedKeys' = {} /\ quiet' = quiet \cup modifiedKeys

\* Variant: the new file is written over the old one.
BackupNever ==
  /\ pc = "backup"
  /\ pc' = "write" /\ Works /\ UNCHANGED <<fileVars, quiet>>
  /\ UNCHANGED <<sync, mMap, mListeners, heard, editVars, modifiedKeys, history>>

\* storeSharedPrefs(): the file becomes the backup, unless there is one.
Backup ==
  /\ pc = "backup"
  /\ \/ /\ files.file = None
        /\ pc' = "write" /\ Works /\ UNCHANGED <<fileVars, quiet, modifiedKeys>>
     \/ /\ files.file # None /\ files.backup = None
        /\ \/ /\ Files([file |-> None, backup |-> files.file]) /\ Works
              /\ pc' = "write" /\ UNCHANGED <<quiet, modifiedKeys>>
           \/ Fails(FALSE) /\ ReturnFalse /\ UNCHANGED fileVars
     \/ /\ files.file # None /\ files.backup # None
        /\ \/ Files([files EXCEPT !.file = None]) /\ Works
           \/ Fails(TRUE) /\ UNCHANGED fileVars
        /\ pc' = "write" /\ UNCHANGED <<quiet, modifiedKeys>>
  /\ UNCHANGED <<sync, mMap, mListeners, heard, editVars, history>>

\* writeMap() opens the file, or fails to.
Write ==
  /\ pc = "write"
  /\ \/ Files([files EXCEPT !.file = Partial]) /\ pc' = "fill" /\ Works
     \/ Fails(FALSE) /\ pc' = "failed" /\ UNCHANGED fileVars
  /\ UNCHANGED <<sync, mMap, listenVars, editVars, modifiedKeys, history>>

Fill ==
  /\ pc = "fill"
  /\ pc' = "sync"
  /\ \/ Files([files EXCEPT !.file = Content(mMap)]) /\ Works
     \/ Fails(TRUE) /\ UNCHANGED fileVars
  /\ UNCHANGED <<sync, mMap, listenVars, editVars, modifiedKeys, history>>

\* SaveFile() synchronises the contents, whatever the mode and the outcome.
SyncFile ==
  /\ pc = "sync"
  /\ pc' = "cleanup"
  /\ \/ /\ files' = FileSynced(files) /\ Works
        /\ past' = {IF fs.file = files.file THEN FileSynced(fs) ELSE fs : fs \in past}
     \/ Fails(TRUE) /\ UNCHANGED fileVars
  /\ UNCHANGED <<sync, mMap, listenVars, editVars, modifiedKeys, history>>

\* The new file is complete: the backup goes.
Cleanup ==
  /\ pc = "cleanup"
  /\ pc' = "syncDir"
  /\ \/ Files([files EXCEPT !.backup = None]) /\ Works
     \/ files.backup # None /\ Fails(TRUE) /\ UNCHANGED fileVars
  /\ UNCHANGED <<sync, mMap, listenVars, editVars, modifiedKeys, history>>

\* commit() is about to return true.
SyncDir ==
  /\ pc = "syncDir"
  /\ \/ past' = (IF sync THEN {files} ELSE past) /\ Works
     \/ sync /\ Fails(TRUE) /\ UNCHANGED past
  /\ committed' = mMap /\ attempts' = {}
  /\ pc' = IF mListeners # {} THEN "notify" ELSE "idle"
  /\ modifiedKeys' = IF mListeners # {} THEN modifiedKeys ELSE {}
  /\ quiet' = IF mListeners # {} THEN quiet ELSE quiet \cup modifiedKeys
  /\ UNCHANGED <<sync, files, mMap, mListeners, heard, editVars, commits>>

\* The listeners are told of every modified key; those that cannot be reached
\* (RemoteException) are removed.
Notify ==
  /\ pc = "notify"
  /\ \E gone \in SUBSET mListeners :
       /\ mListeners' = mListeners \ gone
       /\ heard' = [l \in Listeners |->
            IF l \in gone THEN NoEntries
            ELSE IF l \in mListeners
              THEN [k \in DOMAIN heard[l] \cup modifiedKeys |->
                      IF k \notin modifiedKeys THEN heard[l][k]
                      ELSE IF k \in DOMAIN mMap THEN mMap[k] ELSE None]
              ELSE heard[l]]
  /\ pc' = "idle" /\ modifiedKeys' = {}
  /\ UNCHANGED <<sync, fileVars, mMap, quiet, editVars, history, faults, lossy>>

\* The file could not be opened: what there is of it is removed.
Failed ==
  /\ pc = "failed" /\ ReturnFalse
  /\ \/ files' = [files EXCEPT !.file = None] /\ Works
     \/ files.file # None /\ Fails(TRUE) /\ UNCHANGED files
  /\ past' = IF sync THEN {files'} ELSE past \cup {files'}
  /\ UNCHANGED <<sync, mMap, mListeners, heard, editVars, history>>

(***************************************************************************)
(* The end of the program, and the constructor of the next one.            *)
(***************************************************************************)
Down ==
  /\ mMap' = None /\ mListeners' = {} /\ pc' = "down" /\ modifiedKeys' = {}
  /\ mModifications' = [e \in Editors |-> NoEntries]
  /\ mClearMap' = [e \in Editors |-> FALSE]
  /\ heard' = [l \in Listeners |-> NoEntries]
  /\ quiet' = {}
  /\ UNCHANGED <<sync, history, faults>>

Kill == pc # "down" /\ Down /\ UNCHANGED <<fileVars, lossy>>

PowerLoss ==
  /\ pc # "down" /\ Down
  /\ \E fs \in UNION {Images(f) : f \in past} :
       files' = [file |-> Synced(fs.file), backup |-> Synced(fs.backup)]
  /\ past' = {files'} /\ lossy' = (lossy \/ ~sync)

\* loadSharedPrefs(): with a backup the file goes ...
Load ==
  /\ pc = "down"
  /\ \/ /\ files.backup # None
        /\ pc' = "restore"
        /\ \/ Files([files EXCEPT !.file = None]) /\ Works
           \/ files.file # None /\ Fails(FALSE) /\ UNCHANGED fileVars
        /\ UNCHANGED mMap
     \/ /\ files.backup = None
        /\ pc' = "idle" /\ mMap' = readMap(files.file) /\ Works /\ UNCHANGED fileVars
  /\ UNCHANGED <<sync, listenVars, editVars, modifiedKeys, history>>

\* Variant: the file is read although the backup was to be restored.
RestoreLate ==
  /\ pc = "restore"
  /\ pc' = "idle" /\ Works /\ Files([file |-> files.backup, backup |-> None])
  /\ mMap' = readMap(files.file)
  /\ UNCHANGED <<sync, listenVars, editVars, modifiedKeys, history>>

\* ... and the backup takes its place.
Restore ==
  /\ pc = "restore"
  /\ pc' = "idle"
  /\ \/ Files([file |-> files.backup, backup |-> None]) /\ Works
        /\ mMap' = readMap(files.backup)
     \/ Fails(TRUE) /\ mMap' = readMap(files.file) /\ UNCHANGED fileVars
  /\ UNCHANGED <<sync, listenVars, editVars, modifiedKeys, history>>

Store == Backup \/ Write \/ Fill \/ SyncFile \/ Cleanup \/ SyncDir \/ Notify \/ Failed

Next ==
  \/ \E e \in Editors, k \in Keys, v \in Values \cup {None} : Put(e, k, v)
  \/ \E e \in Editors : Clear(e) \/ Commit(e)
  \/ \E l \in Listeners : Register(l) \/ Unregister(l)
  \/ Store
  \/ Kill \/ PowerLoss \/ Load \/ Restore

Spec == Init /\ [][Next]_vars

(***************************************************************************)
(* Properties.                                                             *)
(***************************************************************************)
FileContent == [map: Map, whole: BOOLEAN, synced: BOOLEAN] \cup {None}

\* Every variable holds a value of its kind.
TypeOK ==
  /\ files \in [file: FileContent, backup: FileContent] /\ files \in past
  /\ mMap \in Map \cup {None} /\ (mMap = None) = (pc \in {"down", "restore"})
  /\ mListeners \subseteq Listeners /\ quiet \subseteq Keys
  /\ \A e \in Editors : DOMAIN mModifications[e] \subseteq Keys
  /\ committed \in Map /\ attempts \subseteq Map

\* The maps that the next program may find: the last one for which commit()
\* returned true and those of later commits, as they are or as they come back.
Known == {committed} \cup attempts
Found == Known \cup {Stored(m) : m \in Known}

\* What is on the disk is, at every moment, the last map for which commit()
\* returned true or that of a later commit; never an empty, mixed or partial one.
\* It is what the next program finds after a kill and, unless the mode is
\* MODE_NO_SYNC, after a power loss.
Recovers ==
  ~lossy => \A fs \in IF sync THEN UNION {Images(f) : f \in past} ELSE {files} : Loaded(fs) \in Found

\* The getters answer as if the last commit that returned true, or one that was
\* tried since, had just been made: across restarts, every key with its type and
\* with its value, or at most what one writing has made of the value.
ReadsBack ==
  Unlocked /\ ~lossy => \E m \in Known :
    /\ DOMAIN mMap = DOMAIN m
    /\ \A k \in DOMAIN m : get(k, m[k].type, None) \in {m[k], Written(m[k])}

\* The last that a listener heard of a key is what the key has, however many
\* editors commit, but for keys removed by clear() or changed by a commit that failed.
LastHeardIsCurrent ==
  Unlocked => \A l \in mListeners : \A k \in DOMAIN heard[l] \ quiet :
    heard[l][k] = IF k \in DOMAIN mMap THEN mMap[k] ELSE None
=============================================================================
