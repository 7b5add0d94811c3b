----------------------- MODULE SharedPreferencesProofs -----------------------
(***************************************************************************)
(* Preferences survive for every set of keys, values, editors and          *)
(* listeners and any number of commits, kills, power losses and failing    *)
(* calls; what writeMap makes of a value has only to be a value again.     *)
(***************************************************************************)
EXTENDS SharedPreferences, TLAPS

FilePair == [file: FileContent, backup: FileContent]
Changes == UNION {[ks -> Values \cup {None}] : ks \in SUBSET Keys}
Place == {"idle", "backup", "write", "fill", "sync", "cleanup", "syncDir", "notify",
          "failed", "down", "restore"}

\* The file that loadSharedPrefs() reads.
Seen(fs) == IF fs.backup # None THEN fs.backup ELSE fs.file

\* File f gives a map of C now and after a power loss: it is complete and synchronised,
\* or an empty map is one of C.
Keeps(f, C) ==
  /\ f # None /\ f.whole => f.map \in C
  /\ NoEntries \in C \/ (f # None /\ f.whole /\ f.synced)

\* The pairs of files that the next program may meet.
View == IF sync THEN past ELSE {files}

\* Every variable holds a value of its kind.
Kinds ==
  /\ files \in FilePair /\ past \subseteq FilePair /\ files \in past
  /\ sync \in BOOLEAN /\ lossy \in BOOLEAN /\ pc \in Place
  /\ mMap \in Map \cup {None} /\ (mMap = None <=> pc \in {"down", "restore"})
  /\ committed \in Map /\ attempts \subseteq Map
  /\ mModifications \in [Editors -> Changes] /\ mClearMap \in [Editors -> BOOLEAN]
  /\ mListeners \subseteq Listeners /\ quiet \subseteq Keys /\ modifiedKeys \subseteq Keys
  /\ DOMAIN heard = Listeners

\* What storeSharedPrefs() has made of the file when it comes to each of its steps.
Stages ==
  /\ pc \in {"write", "failed"} => files.file = None
  /\ pc = "fill" => files.file = Partial
  /\ pc = "sync" => files.file = Content(mMap)
  /\ pc \in {"cleanup", "syncDir"} => files.file = Synced(Content(mMap))
  /\ pc = "syncDir" => files.backup = None
  /\ pc = "restore" => files.backup # None
  /\ pc \in {"backup", "write", "fill", "sync", "cleanup", "syncDir"} => mMap \in Known

\* The map in memory and whatever the next program may read are known.
Kept ==
  /\ mMap # None => mMap \in Found
  /\ \A fs \in View : Keeps(Seen(fs), Found)

\* What a listener last heard of a key is current, or about to be told, or quiet.
Told ==
  /\ pc \in {"idle", "down", "restore"} => modifiedKeys = {}
  /\ pc \in {"down", "restore"} => mListeners = {}
  /\ \A l \in Listeners : l \notin mListeners => DOMAIN heard[l] = {}
  /\ \A l \in mListeners : \A k \in DOMAIN heard[l] \ (quiet \cup modifiedKeys) :
       heard[l][k] = IF k \in DOMAIN mMap THEN mMap[k] ELSE None

\* The inductive invariant.
Inv == Kinds /\ Told /\ (~ lossy => Stages /\ Kept)

(***************************************************************************)
(* Maps and files.                                                         *)
(***************************************************************************)

\* A map is a function from some of the keys to values.
LEMMA MapFacts ==
  /\ \A m \in Map : /\ DOMAIN m \subseteq Keys /\ \A k \in DOMAIN m : m[k] \in Values
                    /\ m = [k \in DOMAIN m |-> m[k]] /\ m # None
  /\ \A ks \in SUBSET Keys : \A m \in [ks -> Values] : m \in Map
  /\ NoEntries \in Map /\ DOMAIN NoEntries = {}
<1>1. \A m \in Map : \E ks \in SUBSET Keys : m \in [ks -> Values]
  BY DEF Map
<1>2. \A ks \in SUBSET Keys : \A m \in [ks -> Values] : m \in Map
  BY DEF Map
<1>3. NoEntries \in [{} -> Values] /\ DOMAIN NoEntries = {}
  BY DEF NoEntries
<1>4. \A m \in Map : m # None
  BY NoneAssumption
<1> QED BY <1>1, <1>2, <1>3, <1>4

\* The files that commit() writes are files.
LEMMA FileFacts ==
         /\ None \in FileContent
         /\ Partial \in FileContent /\ Partial # None /\ ~ Partial.whole
         /\ \A m \in Map : /\ Content(m) \in FileContent /\ Content(m) # None
                           /\ Content(m).map = Stored(m) /\ Content(m).whole
         /\ \A f \in FileContent :
              /\ f # None => /\ f.map \in Map /\ f.whole \in BOOLEAN /\ f.synced \in BOOLEAN
                             /\ Synced(f).map = f.map /\ Synced(f).whole = f.whole
                             /\ Synced(f).synced
              /\ Synced(f) \in FileContent /\ (Synced(f) = None <=> f = None)
              /\ readMap(f) \in Map
<1>1. \A r \in [map: Map, whole: BOOLEAN, synced: BOOLEAN] : r # None
  BY NoneAssumption
<1>2. Partial \in [map: Map, whole: BOOLEAN, synced: BOOLEAN] /\ ~ Partial.whole
  BY MapFacts DEF Partial
<1>3. ASSUME NEW m \in Map
      PROVE  /\ Content(m) \in [map: Map, whole: BOOLEAN, synced: BOOLEAN]
             /\ Content(m).map = Stored(m) /\ Content(m).whole
  <2>1. Stored(m) \in [DOMAIN m -> Values] /\ DOMAIN m \in SUBSET Keys
    BY MapFacts, WrittenAssumption DEF Stored
  <2>2. Stored(m) \in Map
    BY <2>1, MapFacts
  <2> QED BY <2>2 DEF Content
<1>4. ASSUME NEW f \in FileContent, f # None
      PROVE  /\ f \in [map: Map, whole: BOOLEAN, synced: BOOLEAN]
             /\ Synced(f).map = f.map /\ Synced(f).whole = f.whole /\ Synced(f).synced
             /\ Synced(f) \in [map: Map, whole: BOOLEAN, synced: BOOLEAN]
  BY <1>4 DEF FileContent, Synced
<1>5. \A f \in FileContent : readMap(f) \in Map
  BY <1>4, MapFacts DEF readMap
<1>6. Synced(None) = None /\ None \in FileContent
  BY DEF Synced, FileContent
<1> QED BY <1>1, <1>2, <1>3, <1>4, <1>5, <1>6 DEF FileContent

\* A file that keeps a map keeps it through a power loss and when it is synchronised.
LEMMA KeepsFacts ==
  ASSUME NEW f \in FileContent, NEW C, Keeps(f, C)
  PROVE  /\ readMap(f) \in C /\ Keeps(Synced(f), C)
         /\ \A g \in Torn(f) : /\ readMap(g) \in C /\ Keeps(Synced(g), C)
                               /\ g \in FileContent /\ (g = None <=> f = None)
<1>1. readMap(f) \in C
  BY DEF Keeps, readMap
<1>2. Keeps(Synced(f), C)
  BY FileFacts DEF Keeps
<1>3. ASSUME NEW g \in Torn(f), g # f
      PROVE  g = Partial /\ NoEntries \in C /\ f # None
  BY <1>3 DEF Torn, Keeps
<1>4. readMap(Partial) = NoEntries /\ (NoEntries \in C => Keeps(Synced(Partial), C))
  BY FileFacts DEF Keeps, readMap
<1> QED BY <1>1, <1>2, <1>3, <1>4, FileFacts

(***************************************************************************)
(* Editors and commit().                                                   *)
(***************************************************************************)

\* The modifications of an editor are a function from keys to values or None.
LEMMA ChangesFacts ==
  /\ \A m \in Changes : /\ DOMAIN m \subseteq Keys
                        /\ \A k \in DOMAIN m : m[k] \in Values \cup {None}
  /\ \A ks \in SUBSET Keys : \A m \in [ks -> Values \cup {None}] : m \in Changes
  /\ NoEntries \in Changes
<1>1. \A m \in Changes : \E ks \in SUBSET Keys : m \in [ks -> Values \cup {None}]
  BY DEF Changes
<1>2. \A ks \in SUBSET Keys : \A m \in [ks -> Values \cup {None}] : m \in Changes
  BY DEF Changes
<1>3. NoEntries \in [{} -> Values \cup {None}]
  BY DEF NoEntries
<1> QED BY <1>1, <1>2, <1>3

\* commit() makes a map of the map in memory and the modifications: the same one if
\* no key is modified and none cleared, and one that differs only in these keys.
LEMMA AppliedFacts ==
  ASSUME Kinds, NEW e \in Editors, pc = "idle"
  PROVE  /\ Applied(e) \in Map /\ Modified(e) \subseteq Keys
         /\ Modified(e) = {} /\ Base(e) = mMap => Applied(e) = mMap
         /\ \A k : /\ k \notin Modified(e)
                   /\ ~ (k \in DOMAIN mMap /\ k \notin DOMAIN Base(e))
                   => /\ k \in DOMAIN Applied(e) <=> k \in DOMAIN mMap
                      /\ k \in DOMAIN mMap => Applied(e)[k] = mMap[k]
<1> DEFINE b == Base(e)
           m == mModifications[e]
           keys == (DOMAIN b \cup DOMAIN m) \ {k \in DOMAIN m : m[k] = None}
<1>1. mMap \in Map
  BY DEF Kinds
<1>2. b \in Map /\ (b = mMap \/ DOMAIN b = {})
  BY <1>1, MapFacts DEF Base
<1>3. DOMAIN m \subseteq Keys /\ \A k \in DOMAIN m : m[k] \in Values \cup {None}
  BY ChangesFacts DEF Kinds
<1>4. Applied(e) = [k \in keys |-> IF k \in DOMAIN m THEN m[k] ELSE b[k]]
  BY DEF Applied
<1>5. Modified(e) = {k \in DOMAIN m : IF m[k] = None THEN k \in DOMAIN b
                                      ELSE k \notin DOMAIN b \/ b[k] # m[k]}
  BY DEF Modified
<1>6. DOMAIN b \subseteq Keys /\ (\A k \in DOMAIN b : b[k] \in Values)
  BY <1>2, MapFacts
<1>7. mMap = [k \in DOMAIN mMap |-> mMap[k]]
  BY <1>1, MapFacts
<1>8. Base(e) = b
  OBVIOUS
<1> HIDE DEF b, m
<1>9. Applied(e) \in Map
  <2>1. keys \in SUBSET Keys /\ Applied(e) \in [keys -> Values]
    BY <1>3, <1>4, <1>6
  <2> HIDE DEF keys
  <2> QED BY <2>1, MapFacts
<1>10. ASSUME NEW k, k \notin Modified(e), ~ (k \in DOMAIN mMap /\ k \notin DOMAIN b)
       PROVE  /\ k \in keys <=> k \in DOMAIN mMap
              /\ k \in DOMAIN mMap => (IF k \in DOMAIN m THEN m[k] ELSE b[k]) = mMap[k]
  BY <1>2, <1>5, <1>10
<1>11. \A k : k \notin Modified(e) /\ ~ (k \in DOMAIN mMap /\ k \notin DOMAIN b)
                   => /\ k \in DOMAIN Applied(e) <=> k \in DOMAIN mMap
                      /\ k \in DOMAIN mMap => Applied(e)[k] = mMap[k]
  <2> HIDE DEF keys
  <2> QED BY <1>4, <1>10
<1>12. ASSUME Modified(e) = {}, b = mMap PROVE Applied(e) = mMap
  <2>1. \A k : (k \in keys <=> k \in DOMAIN mMap)
               /\ (k \in DOMAIN mMap => (IF k \in DOMAIN m THEN m[k] ELSE b[k]) = mMap[k])
    BY <1>10, <1>12
  <2>2. keys = DOMAIN mMap
    BY <2>1
  <2> HIDE DEF keys
  <2> QED BY <1>4, <1>7, <2>1, <2>2
<1>13. Modified(e) \subseteq Keys
  BY <1>3, <1>5
<1> QED BY <1>8, <1>9, <1>11, <1>12, <1>13

\* Every step keeps the kinds, if the values can be stored.
LEMMA KindsStep ==
  ASSUME Kinds, [Next]_vars
  PROVE  Kinds'
<1> USE DEF Files, Works, Fails
<1>1. CASE UNCHANGED vars
  BY <1>1 DEF vars, Kinds, fileVars, editVars, listenVars, history
<1>2. ASSUME NEW e \in Editors, NEW k \in Keys, NEW v \in Values \cup {None}, Put(e, k, v)
      PROVE  Kinds'
  <2>1. PICK m : m = mModifications[e]
    OBVIOUS
  <2>2. mModifications' = [mModifications EXCEPT ![e] =
           [j \in DOMAIN m \cup {k} |-> IF j = k THEN v ELSE m[j]]]
    BY <1>2, <2>1 DEF Put
  <2>3. m \in Changes
    BY <2>1 DEF Kinds
  <2>4. [j \in DOMAIN m \cup {k} |-> IF j = k THEN v ELSE m[j]]
           \in [DOMAIN m \cup {k} -> Values \cup {None}]
    BY <2>3, ChangesFacts
  <2>5. DOMAIN m \cup {k} \in SUBSET Keys
    BY <2>3, ChangesFacts
  <2>6. [j \in DOMAIN m \cup {k} |-> IF j = k THEN v ELSE m[j]] \in Changes
    BY <2>4, <2>5, ChangesFacts
  <2>7. mModifications' \in [Editors -> Changes]
    BY <2>2, <2>6 DEF Kinds
  <2> QED BY <1>2, <2>7 DEF Put, Kinds, fileVars, listenVars, history
<1>3. ASSUME NEW e \in Editors, Clear(e) PROVE Kinds'
  <2>1. mClearMap' \in [Editors -> BOOLEAN]
    BY <1>3 DEF Clear, Kinds
  <2> QED BY <1>3, <2>1 DEF Clear, Kinds, fileVars, listenVars, history
<1>4. ASSUME NEW e \in Editors, Commit(e) PROVE Kinds'
  <2>1. /\ mMap' = Applied(e) /\ Applied(e) \in Map /\ Modified(e) \subseteq Keys
        /\ attempts' \subseteq Map /\ mMap \in Map /\ pc = "idle"
    BY <1>4, AppliedFacts DEF Commit, Unlocked, Kinds
  <2>2. mMap' # None /\ pc' \in {"backup", "idle"}
    BY <1>4, <2>1, MapFacts DEF Commit
  <2>3. /\ mModifications' \in [Editors -> Changes] /\ mClearMap' \in [Editors -> BOOLEAN]
    BY <1>4, ChangesFacts DEF Commit, Kinds
  <2>4. quiet' \subseteq Keys /\ modifiedKeys' \subseteq Keys
    BY <1>4, <2>1, MapFacts DEF Commit, Kinds
  <2>5. UNCHANGED <<sync, files, past, mListeners, heard, committed, lossy>>
    BY <1>4 DEF Commit, fileVars
  <2> QED BY <2>1, <2>2, <2>3, <2>4, <2>5 DEF Kinds, Place
<1>5. ASSUME NEW l \in Listeners, Register(l) \/ Unregister(l) PROVE Kinds'
  <2>1. mListeners' \subseteq Listeners /\ DOMAIN heard' = Listeners
    BY <1>5 DEF Register, Unregister, Kinds
  <2> QED BY <1>5, <2>1 DEF Register, Unregister, Kinds, fileVars, editVars, history
<1>6. ASSUME NEW fs \in FilePair, Files(fs) PROVE files' \in FilePair /\ past' \subseteq FilePair /\ files' \in past'
  BY <1>6 DEF Kinds
<1>7. ASSUME UNCHANGED <<files, past>>
      PROVE  files' \in FilePair /\ past' \subseteq FilePair /\ files' \in past'
  BY <1>7 DEF Kinds
<1>8. /\ files = [file |-> files.file, backup |-> files.backup]
      /\ files.file \in FileContent /\ files.backup \in FileContent
      /\ \A f \in FileContent : [files EXCEPT !.file = f] \in FilePair
      /\ \A f \in FileContent : [files EXCEPT !.backup = f] \in FilePair
      /\ \A f, g \in FileContent : [file |-> f, backup |-> g] \in FilePair
  BY DEF Kinds, FilePair
<1>9. None \in FileContent /\ Partial \in FileContent
  BY FileFacts
<1>10. ASSUME Fails(TRUE) \/ Fails(FALSE) \/ Works PROVE lossy' \in BOOLEAN
  BY <1>10 DEF Kinds
<1>11. CASE Backup
  <2>1. files' \in FilePair /\ past' \subseteq FilePair /\ files' \in past'
    BY <1>6, <1>7, <1>8, <1>9, <1>11 DEF Backup, fileVars
  <2>2. lossy' \in BOOLEAN
    BY <1>10, <1>11 DEF Backup
  <2>3. /\ pc = "backup" /\ pc' \in {"write", "idle"}
        /\ quiet' \subseteq Keys /\ modifiedKeys' \subseteq Keys
    BY <1>11 DEF Backup, ReturnFalse, Kinds
  <2> QED BY <1>11, <2>1, <2>2, <2>3 DEF Backup, Kinds, Place, editVars, history
<1>12. CASE Write \/ Fill \/ Cleanup
  <2>1. files' \in FilePair /\ past' \subseteq FilePair /\ files' \in past'
    <3>1. pc = "fill" => Content(mMap) \in FileContent
      BY FileFacts DEF Kinds
    <3> QED BY <1>6, <1>7, <1>8, <1>9, <1>12, <3>1 DEF Write, Fill, Cleanup, fileVars
  <2>2. lossy' \in BOOLEAN
    BY <1>10, <1>12 DEF Write, Fill, Cleanup
  <2>3. pc \in {"write", "fill", "cleanup"} /\ pc' \in {"fill", "failed", "sync", "syncDir"}
    BY <1>12 DEF Write, Fill, Cleanup
  <2> QED BY <1>12, <2>1, <2>2, <2>3
          DEF Write, Fill, Cleanup, Kinds, Place, editVars, history, listenVars
<1>13. CASE SyncFile
  <2>1. \A fs \in FilePair : FileSynced(fs) \in FilePair
    BY FileFacts DEF FilePair, FileSynced
  <2>2. files' \in FilePair /\ past' \subseteq FilePair /\ files' \in past'
    BY <1>7, <1>13, <2>1 DEF SyncFile, Kinds, fileVars
  <2>3. lossy' \in BOOLEAN
    BY <1>10, <1>13 DEF SyncFile
  <2> QED BY <1>13, <2>2, <2>3 DEF SyncFile, Kinds, Place, editVars, history, listenVars
<1>14. CASE SyncDir
  <2>1. past' \subseteq FilePair /\ files' \in past' /\ files' = files
    BY <1>14 DEF SyncDir, Kinds
  <2>2. lossy' \in BOOLEAN
    BY <1>10, <1>14 DEF SyncDir
  <2>3. /\ pc' \in {"notify", "idle"} /\ quiet' \subseteq Keys /\ modifiedKeys' \subseteq Keys
        /\ committed' \in Map /\ attempts' = {} /\ pc = "syncDir"
    BY <1>14 DEF SyncDir, Kinds
  <2> QED BY <1>14, <2>1, <2>2, <2>3 DEF SyncDir, Kinds, Place, editVars
<1>15. CASE Notify
  <2>1. mListeners' \subseteq Listeners /\ DOMAIN heard' = Listeners
    BY <1>15 DEF Notify, Kinds
  <2> QED BY <1>15, <2>1 DEF Notify, Kinds, Place, fileVars, editVars, history
<1>16. CASE Failed
  <2>1. files' \in FilePair /\ past' \subseteq FilePair /\ files' \in past'
    BY <1>8, <1>9, <1>16 DEF Failed, Kinds
  <2>2. lossy' \in BOOLEAN
    BY <1>10, <1>16 DEF Failed
  <2>3. /\ pc' = "idle" /\ quiet' \subseteq Keys /\ modifiedKeys' \subseteq Keys
        /\ pc = "failed"
    BY <1>16 DEF Failed, ReturnFalse, Kinds
  <2> QED BY <1>16, <2>1, <2>2, <2>3 DEF Failed, Kinds, Place, editVars, history
<1>17. ASSUME Down PROVE /\ mMap' = None /\ pc' = "down" /\ mListeners' = {} /\ quiet' = {}
                         /\ modifiedKeys' = {} /\ DOMAIN heard' = Listeners
                         /\ mModifications' \in [Editors -> Changes]
                         /\ mClearMap' \in [Editors -> BOOLEAN]
                         /\ UNCHANGED <<sync, committed, attempts>>
  BY <1>17, ChangesFacts DEF Down, history
<1>18. CASE Kill
  BY <1>17, <1>18 DEF Kill, Kinds, Place, fileVars
<1>19. CASE PowerLoss
  <2>1. PICK f \in past : \E fs \in Images(f) :
          files' = [file |-> Synced(fs.file), backup |-> Synced(fs.backup)]
    BY <1>19 DEF PowerLoss
  <2>2. f.file \in FileContent /\ f.backup \in FileContent
    BY DEF Kinds, FilePair
  <2>3. \A h \in FileContent : \A g \in Torn(h) : g \in FileContent
    BY <1>9 DEF Torn
  <2>4. PICK fs : /\ fs.file \in FileContent /\ fs.backup \in FileContent
                  /\ files' = [file |-> Synced(fs.file), backup |-> Synced(fs.backup)]
    BY <2>1, <2>2, <2>3 DEF Images
  <2>5. files' \in FilePair
    BY <1>8, <2>4, FileFacts
  <2>6. past' = {files'} /\ lossy' \in BOOLEAN
    BY <1>19 DEF PowerLoss, Kinds
  <2> QED BY <1>17, <1>19, <2>5, <2>6 DEF PowerLoss, Kinds, Place
<1>20. CASE Load
  <2>1. files' \in FilePair /\ past' \subseteq FilePair /\ files' \in past'
    BY <1>6, <1>7, <1>8, <1>9, <1>20 DEF Load, fileVars
  <2>2. lossy' \in BOOLEAN
    BY <1>10, <1>20 DEF Load
  <2>3. pc = "down" /\ mMap = None
    BY <1>20 DEF Load, Kinds
  <2>4. \/ pc' = "restore" /\ mMap' = None
        \/ pc' = "idle" /\ mMap' \in Map /\ mMap' # None
    BY <1>8, <1>20, <2>3, FileFacts, MapFacts DEF Load
  <2> QED BY <1>20, <2>1, <2>2, <2>4 DEF Load, Kinds, Place, listenVars, editVars, history
<1>21. CASE Restore
  <2>1. files' \in FilePair /\ past' \subseteq FilePair /\ files' \in past'
    BY <1>6, <1>7, <1>8, <1>9, <1>21 DEF Restore, fileVars
  <2>2. lossy' \in BOOLEAN
    BY <1>10, <1>21 DEF Restore
  <2>3. pc' = "idle" /\ mMap' \in Map /\ mMap' # None
    BY <1>8, <1>21, FileFacts, MapFacts DEF Restore
  <2> QED BY <1>21, <2>1, <2>2, <2>3 DEF Restore, Kinds, Place, listenVars, editVars, history
<1> QED BY <1>1, <1>2, <1>3, <1>4, <1>5, <1>11, <1>12, <1>13, <1>14, <1>15, <1>16, <1>18,
           <1>19, <1>20, <1>21 DEF Next, Store

(***************************************************************************)
(* Listeners.                                                              *)
(***************************************************************************)

\* A step that only goes on with commit(), or returns false from it.
LEMMA ToldGoesOn ==
  ASSUME Kinds, Told, UNCHANGED <<mMap, mListeners, heard>>, pc \notin {"down", "restore"},
         pc' \notin {"down", "restore"},
         \/ UNCHANGED <<quiet, modifiedKeys>> /\ (pc' = "idle" => pc = "idle")
         \/ quiet' = quiet \cup modifiedKeys /\ modifiedKeys' = {}
  PROVE  Told'
<1>1. quiet' \cup modifiedKeys' = quiet \cup modifiedKeys
  OBVIOUS
<1>2. pc' = "idle" => modifiedKeys' = {}
  BY DEF Told
<1> QED BY <1>1, <1>2 DEF Told

\* commit() changes the map only in the keys it is about to tell or has made quiet.
LEMMA ToldCommit ==
  ASSUME Kinds, Told, NEW e \in Editors, Commit(e)
  PROVE  Told'
<1>1. /\ pc = "idle" /\ modifiedKeys = {} /\ mMap' = Applied(e)
      /\ pc' = "idle" => modifiedKeys' = {} /\ Modified(e) = {}
      /\ pc' \in {"backup", "idle"}
      /\ pc' = "backup" => modifiedKeys' = Modified(e)
      /\ quiet' = (quiet \cup {k \in DOMAIN mMap : k \notin DOMAIN Base(e)}) \ Modified(e)
      /\ UNCHANGED <<mListeners, heard>>
  BY DEF Commit, Unlocked, Told
<1>2. ASSUME NEW k, k \notin quiet' \cup modifiedKeys'
      PROVE  /\ k \notin quiet \cup modifiedKeys
             /\ (IF k \in DOMAIN mMap' THEN mMap'[k] ELSE None)
                  = (IF k \in DOMAIN mMap THEN mMap[k] ELSE None)
  <2>1. k \notin Modified(e)
    BY <1>1, <1>2
  <2>2. k \notin quiet /\ ~ (k \in DOMAIN mMap /\ k \notin DOMAIN Base(e))
    BY <1>1, <1>2, <2>1
  <2>3. /\ k \in DOMAIN Applied(e) <=> k \in DOMAIN mMap
        /\ k \in DOMAIN mMap => Applied(e)[k] = mMap[k]
    BY <1>1, <2>1, <2>2, AppliedFacts
  <2> QED BY <1>1, <2>2, <2>3
<1>3. ASSUME NEW l \in mListeners, NEW k \in DOMAIN heard[l] \ (quiet' \cup modifiedKeys')
      PROVE  heard[l][k] = IF k \in DOMAIN mMap' THEN mMap'[k] ELSE None
  BY <1>2 DEF Told
<1> QED BY <1>1, <1>3 DEF Told

\* Notifying brings every listener that can be reached up to date.
LEMMA ToldNotify ==
  ASSUME Kinds, Told, Notify
  PROVE  Told'
<1>1. PICK gone \in SUBSET mListeners :
        /\ mListeners' = mListeners \ gone
        /\ heard' = [l \in Listeners |->
             IF l \in gone THEN NoEntries
             ELSE IF l \in mListeners
               THEN [k \in DOMAIN heard[l] \cup modifiedKeys |->
                       IF k \notin modifiedKeys THEN heard[l][k]
                       ELSE IF k \in DOMAIN mMap THEN mMap[k] ELSE None]
               ELSE heard[l]]
  BY DEF Notify
<1>2. pc' = "idle" /\ modifiedKeys' = {} /\ UNCHANGED <<quiet, mMap>>
  BY DEF Notify
<1>3. mListeners \subseteq Listeners
  BY DEF Kinds
<1>4. \A l \in Listeners : l \notin mListeners' => DOMAIN heard'[l] = {}
  BY <1>1, MapFacts DEF Told
<1>5. ASSUME NEW l \in mListeners', NEW k \in DOMAIN heard'[l] \ quiet
      PROVE  heard'[l][k] = IF k \in DOMAIN mMap THEN mMap[k] ELSE None
  <2>1. heard'[l] = [j \in DOMAIN heard[l] \cup modifiedKeys |->
                       IF j \notin modifiedKeys THEN heard[l][j]
                       ELSE IF j \in DOMAIN mMap THEN mMap[j] ELSE None]
    BY <1>1, <1>3
  <2>2. CASE k \in modifiedKeys
    BY <2>1, <2>2
  <2>3. CASE k \notin modifiedKeys
    <3>1. k \in DOMAIN heard[l] \ (quiet \cup modifiedKeys) /\ heard'[l][k] = heard[l][k]
      BY <2>1, <2>3
    <3> QED BY <1>1, <3>1 DEF Told
  <2> QED BY <2>2, <2>3
<1> QED BY <1>2, <1>4, <1>5 DEF Told

\* Every step keeps the listeners informed.
LEMMA ToldStep ==
  ASSUME Kinds, Told, [Next]_vars
  PROVE  Told'
<1>1. ASSUME UNCHANGED <<mMap, mListeners, heard, quiet, modifiedKeys, pc>> PROVE Told'
  BY <1>1 DEF Told
<1>2. CASE \/ UNCHANGED vars \/ \E e \in Editors : Clear(e)
           \/ \E e \in Editors, k \in Keys, v \in Values \cup {None} : Put(e, k, v)
  BY <1>1, <1>2 DEF vars, listenVars, Clear, Put
<1>3. ASSUME NEW e \in Editors, Commit(e) PROVE Told'
  BY <1>3, ToldCommit
<1>4. ASSUME NEW l \in Listeners, Register(l) PROVE Told'
  <2>1. /\ pc = "idle" /\ mListeners' = mListeners \cup {l}
        /\ UNCHANGED <<mMap, heard, quiet, modifiedKeys, pc>>
    BY <1>4 DEF Register, Unlocked
  <2>2. l \in mListeners \/ DOMAIN heard[l] = {}
    BY DEF Told
  <2> QED BY <2>1, <2>2 DEF Told
<1>5. ASSUME NEW l \in Listeners, Unregister(l) PROVE Told'
  <2>1. /\ pc = "idle" /\ mListeners' = mListeners \ {l}
        /\ heard' = [heard EXCEPT ![l] = NoEntries] /\ DOMAIN heard = Listeners
        /\ UNCHANGED <<mMap, quiet, modifiedKeys, pc>> /\ mListeners \subseteq Listeners
    BY <1>5 DEF Unregister, Unlocked, Kinds
  <2>2. DOMAIN heard'[l] = {} /\ \A j \in Listeners : j # l => heard'[j] = heard[j]
    BY <2>1, MapFacts
  <2> QED BY <2>1, <2>2 DEF Told
<1>6. CASE Backup
  <2>1. /\ UNCHANGED <<mMap, mListeners, heard>> /\ pc = "backup" /\ pc' \in {"write", "idle"}
        /\ \/ UNCHANGED <<quiet, modifiedKeys>> /\ pc' = "write"
           \/ quiet' = quiet \cup modifiedKeys /\ modifiedKeys' = {}
    BY <1>6 DEF Backup, ReturnFalse
  <2> QED BY <2>1, ToldGoesOn
<1>7. CASE Write \/ Fill \/ SyncFile \/ Cleanup
  <2>1. /\ UNCHANGED <<mMap, mListeners, heard, quiet, modifiedKeys>>
        /\ pc \in {"write", "fill", "sync", "cleanup"}
        /\ pc' \in {"fill", "failed", "sync", "cleanup", "syncDir"}
    BY <1>7 DEF Write, Fill, SyncFile, Cleanup, listenVars
  <2> QED BY <2>1, ToldGoesOn
<1>8. CASE SyncDir
  <2>1. /\ UNCHANGED <<mMap, mListeners, heard>> /\ pc = "syncDir" /\ pc' \in {"notify", "idle"}
        /\ \/ UNCHANGED <<quiet, modifiedKeys>> /\ pc' = "notify"
           \/ quiet' = quiet \cup modifiedKeys /\ modifiedKeys' = {}
    BY <1>8 DEF SyncDir
  <2> QED BY <2>1, ToldGoesOn
<1>9. CASE Notify
  BY <1>9, ToldNotify
<1>10. CASE Failed
  <2>1. /\ UNCHANGED <<mMap, mListeners, heard>> /\ pc = "failed" /\ pc' = "idle"
        /\ quiet' = quiet \cup modifiedKeys /\ modifiedKeys' = {}
    BY <1>10 DEF Failed, ReturnFalse
  <2> QED BY <2>1, ToldGoesOn
<1>11. CASE Kill \/ PowerLoss
  BY <1>11, MapFacts DEF Kill, PowerLoss, Down, Told
<1>12. CASE Load \/ Restore
  <2>1. /\ UNCHANGED <<mListeners, heard, quiet, modifiedKeys>> /\ mListeners = {}
    BY <1>12 DEF Load, Restore, listenVars, Told
  <2>2. modifiedKeys = {}
    BY <1>12 DEF Load, Restore, Told
  <2> QED BY <2>1, <2>2 DEF Told
<1> QED BY <1>2, <1>3, <1>4, <1>5, <1>6, <1>7, <1>8, <1>9, <1>10, <1>11, <1>12
        DEF Next, Store

(***************************************************************************)
(* The files.                                                              *)
(***************************************************************************)

\* The pair of files, and the pair with one of them replaced.
LEMMA PairFacts ==
  ASSUME Kinds
  PROVE  /\ files \in View /\ files.file \in FileContent /\ files.backup \in FileContent
         /\ \A f : /\ [files EXCEPT !.file = f].file = f
                   /\ [files EXCEPT !.file = f].backup = files.backup
                   /\ [files EXCEPT !.backup = f].backup = f
                   /\ [files EXCEPT !.backup = f].file = files.file
         /\ \A fs \in View : /\ fs.file \in FileContent /\ fs.backup \in FileContent
                             /\ Seen(fs) \in FileContent
<1>1. \A fs \in FilePair : fs.file \in FileContent /\ fs.backup \in FileContent
  BY DEF FilePair
<1>2. View \subseteq FilePair /\ files \in View /\ files \in FilePair
  BY DEF Kinds, View
<1>3. \A f : /\ [files EXCEPT !.file = f].file = f
             /\ [files EXCEPT !.file = f].backup = files.backup
             /\ [files EXCEPT !.backup = f].backup = f
             /\ [files EXCEPT !.backup = f].file = files.file
  BY <1>2 DEF FilePair
<1> QED BY <1>1, <1>2, <1>3 DEF Seen

\* More known maps, more kept files.
LEMMA KeepsMore ==
  ASSUME NEW f, NEW C, NEW D, C \subseteq D, Keeps(f, C)
  PROVE  Keeps(f, D)
BY DEF Keeps

\* A call of the file system that leaves a kept file where it is read.
LEMMA FilesKept ==
  ASSUME \A fs \in View : Keeps(Seen(fs), Found), NEW gs, Files(gs),
         UNCHANGED <<sync, committed, attempts>>, Keeps(Seen(gs), Found)
  PROVE  \A fs \in View' : Keeps(Seen(fs), Found)'
<1>1. Found' = Found /\ \A fs \in View' : fs \in View \/ fs = gs
  BY DEF Found, Known, View, Files
<1>2. \A fs \in View' : Keeps(Seen(fs), Found)
  BY <1>1
<1> QED BY <1>1, <1>2

\* A step that only touches what no constructor reads.
LEMMA FilesAlone ==
  ASSUME \A fs \in View : Keeps(Seen(fs), Found),
         UNCHANGED <<sync, files, past>>, Found \subseteq Found'
  PROVE  \A fs \in View' : Keeps(Seen(fs), Found)'
<1>1. View' = View
  BY DEF View
<1> QED BY <1>1, KeepsMore

\* Every step of storeSharedPrefs() and of the constructor that the code answers for
\* leaves a known map to be read.
LEMMA KeptStep ==
  ASSUME Kinds, ~ lossy => Stages /\ Kept, [Next]_vars, ~ lossy'
  PROVE  Stages' /\ Kept'
<1>0. ~ lossy
  BY DEF Next, vars, Put, Clear, Commit, Register, Unregister, Store, Backup, Write, Fill,
         SyncFile, Cleanup, SyncDir, Notify, Failed, Kill, PowerLoss, Load, Restore,
         Fails, Works
<1>1. /\ Stages /\ Kept /\ (mMap # None => mMap \in Found)
      /\ \A fs \in View : Keeps(Seen(fs), Found)
  BY <1>0 DEF Kept
<1>2. ASSUME UNCHANGED <<sync, files, past, mMap, committed, attempts, pc>>
      PROVE  Stages' /\ Kept'
  <2>1. Found' = Found
    BY <1>2 DEF Found, Known
  <2> QED BY <1>1, <1>2, <2>1, FilesAlone DEF Stages, Kept, Known
<1>3. CASE \/ UNCHANGED vars \/ \E e \in Editors : Clear(e)
           \/ \E e \in Editors, k \in Keys, v \in Values \cup {None} : Put(e, k, v)
           \/ \E l \in Listeners : Register(l) \/ Unregister(l)
  BY <1>2, <1>3 DEF vars, fileVars, history, Clear, Put, Register, Unregister
<1>4. ASSUME NEW e \in Editors, Commit(e) PROVE Stages' /\ Kept'
  <2>1. /\ UNCHANGED <<sync, files, past, committed>> /\ pc' \in {"idle", "backup"}
        /\ mMap' = Applied(e) /\ pc = "idle"
        /\ \/ attempts' = attempts \cup {Applied(e)}
           \/ /\ attempts' = attempts /\ Modified(e) = {} /\ Base(e) = mMap
              /\ pc' = "idle"
    BY <1>4 DEF Commit, Unlocked, fileVars
  <2>2. Found \subseteq Found' /\ mMap' \in Found'
    <3>1. mMap \in Found
      BY <1>1, <2>1 DEF Kinds
    <3>2. Modified(e) = {} /\ Base(e) = mMap => Applied(e) = mMap
      BY <2>1, AppliedFacts
    <3> QED BY <2>1, <3>1, <3>2 DEF Found, Known
  <2>3. \A fs \in View' : Keeps(Seen(fs), Found)'
    BY <1>1, <2>1, <2>2, FilesAlone
  <2> QED BY <2>1, <2>2, <2>3 DEF Stages, Kept, Known
<1>5. /\ None \in FileContent /\ Partial \in FileContent /\ Partial # None /\ ~ Partial.whole
      /\ Keeps(Seen(files), Found)
  BY <1>1, FileFacts, PairFacts
<1>6. CASE Backup
  <2>1. /\ UNCHANGED <<sync, mMap, committed, attempts>> /\ pc = "backup"
        /\ pc' \in {"write", "idle"}
    BY <1>6 DEF Backup, ReturnFalse, history
  <2>2. \/ UNCHANGED <<files, past>> /\ (pc' = "write" => files.file = None)
        \/ /\ Files([file |-> None, backup |-> files.file]) /\ files.file # None
           /\ files.backup = None
        \/ Files([files EXCEPT !.file = None]) /\ files.backup # None
    BY <1>6 DEF Backup, Fails, fileVars, ReturnFalse
  <2>3. files'.file = None \/ pc' = "idle"
    <3>1. [files EXCEPT !.file = None].file = None
      BY PairFacts
    <3>2. CASE UNCHANGED <<files, past>> /\ (pc' = "write" => files.file = None)
      BY <2>1, <3>2
    <3>3. CASE Files([file |-> None, backup |-> files.file])
      BY <3>3 DEF Files
    <3>4. CASE Files([files EXCEPT !.file = None])
      BY <3>1, <3>4 DEF Files
    <3> QED BY <2>2, <3>2, <3>3, <3>4
  <2>4. \A fs \in View' : Keeps(Seen(fs), Found)'
    <3>1. CASE UNCHANGED <<files, past>>
      BY <1>1, <2>1, <3>1, FilesAlone DEF Found, Known
    <3>2. CASE /\ Files([file |-> None, backup |-> files.file]) /\ files.file # None
               /\ files.backup = None
      <4>1. Seen([file |-> None, backup |-> files.file]) = Seen(files)
        BY <3>2 DEF Seen
      <4> QED BY <1>1, <1>5, <2>1, <3>2, <4>1, FilesKept
    <3>3. CASE Files([files EXCEPT !.file = None]) /\ files.backup # None
      <4>1. Seen([files EXCEPT !.file = None]) = Seen(files)
        BY <3>3, PairFacts DEF Seen
      <4> QED BY <1>1, <1>5, <2>1, <3>3, <4>1, FilesKept
    <3> QED BY <2>2, <3>1, <3>2, <3>3
  <2> QED BY <1>1, <2>1, <2>3, <2>4 DEF Stages, Kept, Found, Known
<1>7. CASE Write
  <2>1. /\ UNCHANGED <<sync, mMap, committed, attempts>> /\ pc = "write"
        /\ \/ Files([files EXCEPT !.file = Partial]) /\ pc' = "fill"
           \/ UNCHANGED <<files, past>> /\ pc' = "failed"
    BY <1>7 DEF Write, history, fileVars
  <2>2. files.file = None
    BY <1>1, <2>1 DEF Stages
  <2>3. Keeps(Seen([files EXCEPT !.file = Partial]), Found)
    BY <1>5, <2>2, PairFacts DEF Seen, Keeps
  <2>4. \A fs \in View' : Keeps(Seen(fs), Found)'
    BY <1>1, <2>1, <2>3, FilesKept, FilesAlone DEF Found, Known
  <2>5. (pc' = "fill" => files'.file = Partial) /\ (pc' = "failed" => files'.file = None)
    BY <2>1, <2>2, PairFacts DEF Files
  <2> QED BY <1>1, <2>1, <2>4, <2>5 DEF Stages, Kept, Found, Known
<1>8. CASE Fill
  <2>1. /\ UNCHANGED <<sync, mMap, committed, attempts>> /\ pc = "fill" /\ pc' = "sync"
        /\ Files([files EXCEPT !.file = Content(mMap)])
    BY <1>0, <1>8 DEF Fill, Fails, history
  <2>2. files.file = Partial /\ Stored(mMap) \in Found /\ mMap \in Map
    BY <1>1, <2>1 DEF Stages, Kinds, Found
  <2>3. Content(mMap) # None /\ Content(mMap).map = Stored(mMap)
    BY <2>2, FileFacts
  <2>4. Keeps(Seen([files EXCEPT !.file = Content(mMap)]), Found)
    BY <1>5, <2>2, <2>3, PairFacts DEF Seen, Keeps
  <2>5. \A fs \in View' : Keeps(Seen(fs), Found)'
    BY <1>1, <2>1, <2>4, FilesKept
  <2>6. files'.file = Content(mMap)
    BY <2>1, PairFacts DEF Files
  <2> QED BY <1>1, <2>1, <2>5, <2>6 DEF Stages, Kept, Found, Known
<1>9. CASE SyncFile
  <2>1. /\ UNCHANGED <<sync, mMap, committed, attempts>> /\ pc = "sync" /\ pc' = "cleanup"
        /\ files' = FileSynced(files)
        /\ past' = {IF fs.file = files.file THEN FileSynced(fs) ELSE fs : fs \in past}
    BY <1>0, <1>9 DEF SyncFile, Fails, history
  <2>2. files'.file = Synced(Content(mMap))
    BY <1>1, <2>1 DEF Stages, FileSynced, Kinds, FilePair
  <2>3. ASSUME NEW fs \in View PROVE Keeps(Seen(FileSynced(fs)), Found)
    <3>1. fs.file \in FileContent /\ fs.backup \in FileContent /\ Keeps(Seen(fs), Found)
      BY <1>1, PairFacts
    <3>2. FileSynced(fs).file = Synced(fs.file) /\ FileSynced(fs).backup = fs.backup
      <4>1. fs \in FilePair
        BY DEF Kinds, View
      <4> QED BY <4>1 DEF FileSynced, FilePair
    <3>3. Seen(FileSynced(fs)) \in {Seen(fs), Synced(Seen(fs))}
      BY <3>2 DEF Seen
    <3>4. Seen(fs) \in FileContent
      BY <3>1 DEF Seen
    <3> QED BY <3>1, <3>3, <3>4, KeepsFacts
  <2>4. \A fs \in View' : fs \in View \/ \E gs \in View : fs = FileSynced(gs)
    BY <2>1, PairFacts DEF View
  <2>5. Found' = Found
    BY <2>1 DEF Found, Known
  <2>6. \A fs \in View' : Keeps(Seen(fs), Found)'
    BY <1>1, <2>3, <2>4, <2>5
  <2> QED BY <1>1, <2>1, <2>2, <2>5, <2>6 DEF Stages, Kept, Known
<1>10. ASSUME mMap # None
       PROVE  Keeps(Synced(Content(mMap)), {Stored(mMap)}) /\ Synced(Content(mMap)) # None
  BY <1>10, FileFacts DEF Keeps, Kinds
<1>11. CASE Cleanup
  <2>1. /\ UNCHANGED <<sync, mMap, committed, attempts>> /\ pc = "cleanup" /\ pc' = "syncDir"
        /\ Files([files EXCEPT !.backup = None])
    BY <1>0, <1>11 DEF Cleanup, Fails, history
  <2>2. files.file = Synced(Content(mMap)) /\ mMap # None /\ Stored(mMap) \in Found
    BY <1>1, <2>1 DEF Stages, Kinds, Found
  <2>3. Seen([files EXCEPT !.backup = None]) = files.file
    BY PairFacts DEF Seen
  <2>4. Keeps(files.file, Found)
    BY <1>10, <2>2, KeepsMore
  <2>5. \A fs \in View' : Keeps(Seen(fs), Found)'
    BY <1>1, <2>1, <2>3, <2>4, FilesKept
  <2>6. files'.backup = None /\ files'.file = files.file
    BY <2>1, PairFacts DEF Files
  <2> QED BY <1>1, <2>1, <2>2, <2>5, <2>6 DEF Stages, Kept, Found, Known
<1>12. CASE SyncDir
  <2>1. /\ UNCHANGED <<sync, mMap, files>> /\ pc = "syncDir" /\ pc' \in {"notify", "idle"}
        /\ past' = (IF sync THEN {files} ELSE past)
        /\ committed' = mMap /\ attempts' = {}
    BY <1>0, <1>12 DEF SyncDir, Fails
  <2>2. files.file = Synced(Content(mMap)) /\ files.backup = None /\ mMap # None
    BY <1>1, <2>1 DEF Stages, Kinds
  <2>3. Found' = {mMap, Stored(mMap)} /\ View' = {files}
    BY <2>1 DEF Found, Known, View
  <2>4. Keeps(Seen(files), {mMap, Stored(mMap)})
    BY <1>10, <2>2, KeepsMore DEF Seen
  <2>5. \A fs \in View' : Keeps(Seen(fs), Found)'
    BY <2>3, <2>4
  <2> QED BY <2>1, <2>3, <2>5 DEF Stages, Kept
<1>13. CASE Notify
  <2>1. UNCHANGED <<sync, files, past, mMap, committed, attempts>> /\ pc' = "idle"
    BY <1>13 DEF Notify, fileVars, history
  <2> QED BY <1>1, <2>1, FilesAlone DEF Stages, Kept, Found, Known
<1>14. CASE Failed
  <2>1. /\ UNCHANGED <<sync, mMap, committed, attempts>> /\ pc = "failed" /\ pc' = "idle"
        /\ files' = [files EXCEPT !.file = None]
        /\ past' = IF sync THEN {files'} ELSE past \cup {files'}
    BY <1>0, <1>14 DEF Failed, ReturnFalse, Fails, history
  <2>2. files.file = None
    BY <1>1, <2>1 DEF Stages
  <2>3. Seen(files') = Seen(files)
    BY <2>1, <2>2, PairFacts DEF Seen
  <2>4. View' = {files'} /\ Found' = Found
    BY <2>1 DEF View, Found, Known
  <2>5. \A fs \in View' : Keeps(Seen(fs), Found)'
    BY <1>5, <2>3, <2>4
  <2> QED BY <1>1, <2>1, <2>4, <2>5 DEF Stages, Kept
<1>15. CASE Kill
  <2>1. /\ UNCHANGED <<sync, files, past, committed, attempts>> /\ pc' = "down"
        /\ mMap' = None
    BY <1>15 DEF Kill, Down, fileVars, history
  <2> QED BY <1>1, <2>1, FilesAlone DEF Stages, Kept, Found, Known
<1>16. CASE PowerLoss
  <2>1. /\ UNCHANGED <<sync, committed, attempts>> /\ pc' = "down" /\ mMap' = None
        /\ past' = {files'} /\ sync
    BY <1>16 DEF PowerLoss, Down, history
  <2>2. PICK f \in past : \E fs \in Images(f) :
          files' = [file |-> Synced(fs.file), backup |-> Synced(fs.backup)]
    BY <1>16 DEF PowerLoss
  <2>3. f \in View /\ Keeps(Seen(f), Found) /\ f.file \in FileContent /\ f.backup \in FileContent
    BY <1>1, <2>1, PairFacts DEF View
  <2>4. PICK g, h : g \in Torn(f.file) /\ h \in Torn(f.backup)
                    /\ files' = [file |-> Synced(g), backup |-> Synced(h)]
    BY <2>2 DEF Images
  <2>5. /\ h = None <=> f.backup = None
        /\ h \in FileContent /\ (Synced(h) = None <=> h = None)
    <3>1. h = None <=> f.backup = None
      BY <1>5, <2>4 DEF Torn
    <3>2. h \in FileContent
      BY <1>5, <2>3, <2>4 DEF Torn
    <3> QED BY <3>1, <3>2, FileFacts
  <2>6. Keeps(Seen(files'), Found)
    <3>1. CASE f.backup # None
      <4>1. Seen(f) = f.backup /\ Seen(files') = Synced(h)
        BY <2>4, <2>5, <3>1 DEF Seen
      <4> QED BY <2>3, <2>4, <4>1, KeepsFacts
    <3>2. CASE f.backup = None
      <4>1. Seen(f) = f.file /\ Seen(files') = Synced(g)
        BY <2>4, <2>5, <3>2 DEF Seen
      <4> QED BY <2>3, <2>4, <4>1, KeepsFacts
    <3> QED BY <3>1, <3>2
  <2>7. View' = {files'} /\ Found' = Found
    BY <2>1 DEF View, Found, Known
  <2>8. \A fs \in View' : Keeps(Seen(fs), Found)'
    BY <2>6, <2>7
  <2> QED BY <2>1, <2>8 DEF Stages, Kept
<1>17. CASE Load
  <2>1. UNCHANGED <<sync, committed, attempts>> /\ pc = "down" /\ mMap = None
    BY <1>17 DEF Load, history, Kinds
  <2>2. CASE files.backup # None
    <3>1. /\ pc' = "restore" /\ mMap' = mMap
          /\ Files([files EXCEPT !.file = None]) \/ UNCHANGED <<files, past>>
      BY <1>17, <2>2 DEF Load, fileVars
    <3>2. Seen([files EXCEPT !.file = None]) = Seen(files)
      BY <2>2, PairFacts DEF Seen
    <3>3. \A fs \in View' : Keeps(Seen(fs), Found)'
      BY <1>1, <1>5, <2>1, <3>1, <3>2, FilesKept, FilesAlone DEF Found, Known
    <3>4. files'.backup # None
      BY <2>2, <3>1, PairFacts DEF Files
    <3> QED BY <2>1, <3>1, <3>3, <3>4 DEF Stages, Kept
  <2>3. CASE files.backup = None
    <3>1. pc' = "idle" /\ mMap' = readMap(files.file) /\ UNCHANGED <<files, past>>
      BY <1>17, <2>3 DEF Load, fileVars
    <3>2. Seen(files) = files.file
      BY <2>3 DEF Seen
    <3>3. mMap' \in Found
      BY <1>5, <3>1, <3>2, KeepsFacts, PairFacts
    <3>4. \A fs \in View' : Keeps(Seen(fs), Found)'
      BY <1>1, <2>1, <3>1, FilesAlone DEF Found, Known
    <3> QED BY <2>1, <3>1, <3>3, <3>4 DEF Stages, Kept, Found, Known
  <2> QED BY <2>2, <2>3
<1>18. CASE Restore
  <2>1. /\ UNCHANGED <<sync, committed, attempts>> /\ pc = "restore" /\ pc' = "idle"
        /\ Files([file |-> files.backup, backup |-> None])
        /\ mMap' = readMap(files.backup)
    BY <1>0, <1>18 DEF Restore, Fails, history
  <2>2. files.backup # None
    BY <1>1, <2>1 DEF Stages
  <2>3. Seen(files) = files.backup /\ Seen([file |-> files.backup, backup |-> None]) = files.backup
    BY <2>2 DEF Seen
  <2>4. mMap' \in Found
    BY <1>5, <2>1, <2>3, KeepsFacts, PairFacts
  <2>5. \A fs \in View' : Keeps(Seen(fs), Found)'
    BY <1>1, <1>5, <2>1, <2>3, FilesKept
  <2> QED BY <2>1, <2>4, <2>5 DEF Stages, Kept, Found, Known
<1> QED BY <1>3, <1>4, <1>6, <1>7, <1>8, <1>9, <1>11, <1>12, <1>13, <1>14, <1>15, <1>16,
           <1>17, <1>18 DEF Next, Store

\* The constructor has read the file that is there.
LEMMA InitInv == ASSUME Init PROVE Inv
<1>1. /\ files \in [file: {None} \cup {Synced(Content(m)) : m \in Map}, backup: {None}]
      /\ past = {files} /\ sync \in BOOLEAN /\ mMap = readMap(files.file)
      /\ mListeners = {} /\ quiet = {} /\ pc = "idle" /\ modifiedKeys = {}
      /\ mModifications = [e \in Editors |-> NoEntries]
      /\ mClearMap = [e \in Editors |-> FALSE] /\ heard = [l \in Listeners |-> NoEntries]
      /\ committed = mMap /\ attempts = {} /\ lossy = FALSE
  BY DEF Init
<1>2. files.file \in {None} \cup {Synced(Content(m)) : m \in Map} /\ files.backup = None
  BY <1>1
<1>3. \A m \in Map : Synced(Content(m)) \in FileContent
  BY FileFacts
<1>4. files.file \in FileContent /\ files.backup \in FileContent /\ files \in FilePair
  BY <1>1, <1>2, <1>3, FileFacts DEF FilePair
<1>5. mMap \in Map /\ mMap # None
  BY <1>1, <1>4, FileFacts, MapFacts
<1>6. Kinds
  <2>1. mModifications \in [Editors -> Changes] /\ mClearMap \in [Editors -> BOOLEAN]
    BY <1>1, ChangesFacts
  <2> QED BY <1>1, <1>4, <1>5, <2>1 DEF Kinds, Place
<1>7. Told
  BY <1>1, MapFacts DEF Told
<1>8. Stages
  BY <1>1 DEF Stages
<1>9. Keeps(files.file, {mMap})
  <2>1. CASE files.file = None
    BY <1>1, <2>1 DEF Keeps, readMap
  <2>2. ASSUME NEW m \in Map, files.file = Synced(Content(m)) PROVE Keeps(files.file, {mMap})
    BY <1>1, <2>2, FileFacts DEF Keeps, readMap
  <2> QED BY <1>2, <2>1, <2>2
<1>10. Kept
  <2>1. Keeps(files.file, Found) /\ mMap \in Found
    BY <1>1, <1>9, KeepsMore DEF Found, Known
  <2> QED BY <1>1, <1>2, <2>1 DEF Kept, View, Seen
<1> QED BY <1>6, <1>7, <1>8, <1>10 DEF Inv

\* The invariant holds in every reachable state.
THEOREM Invariance == Spec => []Inv
<1>1. Init => Inv
  BY InitInv
<1>2. Inv /\ [Next]_vars => Inv'
  BY KindsStep, ToldStep, KeptStep DEF Inv
<1> QED BY <1>1, <1>2, PTL DEF Spec

\* Every variable keeps its kind.
THEOREM TypeCorrect == Spec => []TypeOK
<1>1. Inv => TypeOK
  <2> SUFFICES ASSUME Inv PROVE TypeOK
    OBVIOUS
  <2>1. \A e \in Editors : DOMAIN mModifications[e] \subseteq Keys
    BY ChangesFacts DEF Inv, Kinds
  <2>2. (mMap = None) = (pc \in {"down", "restore"})
    BY DEF Inv, Kinds
  <2> QED BY <2>1, <2>2 DEF Inv, Kinds, TypeOK, FilePair
<1> QED BY <1>1, Invariance, PTL

\* Whenever the program is killed, and in the synchronising modes whenever power fails,
\* the backup protocol leaves the last committed map, or one whose commit was tried
\* since, for the next program: as long as no call has failed that commit() ignores.
THEOREM RecoversHolds == Spec => []Recovers
<1>1. Inv => Recovers
  <2> SUFFICES ASSUME Inv, ~ lossy,
                      NEW fs \in IF sync THEN UNION {Images(f) : f \in past} ELSE {files}
               PROVE  Loaded(fs) \in Found
    BY DEF Recovers, Found, Known
  <2>1. Kinds /\ \A f \in View : Keeps(Seen(f), Found)
    BY DEF Inv, Kept
  <2>2. ASSUME NEW f \in View, fs \in Images(f) \/ fs = f
        PROVE  Loaded(fs) \in Found
    <3>1. f.file \in FileContent /\ f.backup \in FileContent /\ Keeps(Seen(f), Found)
      BY <2>1, PairFacts
    <3>2. fs.file \in Torn(f.file) /\ fs.backup \in Torn(f.backup)
      BY <2>2 DEF Images, Torn
    <3>3. fs.backup = None <=> f.backup = None
      BY <3>2, FileFacts DEF Torn
    <3>4. Loaded(fs) = readMap(Seen(fs)) /\ Seen(fs) \in Torn(Seen(f)) /\ Seen(f) \in FileContent
      BY <3>1, <3>2, <3>3 DEF Loaded, Seen
    <3> QED BY <3>1, <3>4, KeepsFacts
  <2>3. CASE sync
    BY <2>2, <2>3 DEF View
  <2>4. CASE ~ sync
    BY <2>2, <2>4 DEF View
  <2> QED BY <2>3, <2>4
<1> QED BY <1>1, Invariance, PTL

\* The getters answer with a map that was committed, or whose commit was tried since,
\* with the types it had and with the values it had or what one writing makes of them.
THEOREM ReadsBackHolds == Spec => []ReadsBack
<1>1. Inv => ReadsBack
  <2> SUFFICES ASSUME Inv, Unlocked, ~ lossy
               PROVE  \E m \in Known :
                        /\ DOMAIN mMap = DOMAIN m
                        /\ \A k \in DOMAIN m : get(k, m[k].type, None) \in {m[k], Written(m[k])}
    BY DEF ReadsBack
  <2>1. mMap \in Found
    BY DEF Inv, Kept, Kinds, Unlocked
  <2>2. PICK m \in Known : mMap = m \/ mMap = Stored(m)
    BY <2>1 DEF Found
  <2>3. m \in Map
    BY DEF Inv, Kinds, Known
  <2>4. DOMAIN mMap = DOMAIN m /\ \A k \in DOMAIN m : mMap[k] = m[k] \/ mMap[k] = Written(m[k])
    BY <2>2 DEF Stored
  <2>5. \A v \in Values : Written(v).type = v.type
    BY DEF Written
  <2>6. \A k \in DOMAIN m : mMap[k].type = m[k].type
    BY <2>3, <2>4, <2>5, MapFacts
  <2> QED BY <2>4, <2>6 DEF get
<1> QED BY <1>1, Invariance, PTL

\* What a listener last heard of a key is what the key has, unless the key is quiet.
THEOREM LastHeardIsCurrentHolds == Spec => []LastHeardIsCurrent
<1>1. Inv => LastHeardIsCurrent
  BY DEF Inv, Told, LastHeardIsCurrent, Unlocked
<1> QED BY <1>1, Invariance, PTL
=============================================================================
