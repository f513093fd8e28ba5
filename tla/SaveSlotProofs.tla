---------------------------- MODULE SaveSlotProofs ----------------------------
(***************************************************************************)
(* Proofs about SaveSlot, for every set of maps and every number of saves, *)
(* failures and crashes: where SaveSlot reports success the slot holds the *)
(* files of the new save; a save during which one operation fails leaves   *)
(* the new files or the old ones, never some of each; a program that dies  *)
(* leaves the old save on the disk; and a load never mixes two saves,      *)
(* after up to two failures.                                               *)
(***************************************************************************)
EXTENDS SaveSlot, FiniteSetTheorems, TLAPS

SlotTyped == sav \in [Name -> Content] /\ bak \in [Name -> Content]

Types ==
  /\ SlotTyped /\ maps \subseteq Map
  /\ save \in 0 .. MaxSaves /\ (pc \in SavePc => save # 0)
  /\ list \in [1 .. MaxSaves -> SUBSET Map]

\* SAVE.DAT will name the map files that are being copied.
Named == pc \in {"clear", "copy"} => list[save] = maps

\* What is no longer to be copied has been copied.
Copied ==
  /\ At("copy") => \A n \in (maps \cup {AUTO}) \ todo : sav[n] = save
  /\ At("tail") => \A n \in list[save] \cup {AUTO} : sav[n] = save

Restoring ==
  {"erase1", "erase1maps", "restoreDat", "restoreList", "restoreMaps", "erase2",
   "erase2maps"}
FailureKnown == pc \in Restoring => rc = -1

\* SAVE.DAT is closed, and 0 will be returned.
NewSaveAtEnd == Ended /\ rc = 0 => OfSave(save)

IInv == Types /\ Named /\ Copied /\ FailureKnown /\ NewSaveAtEnd

\* Nothing is in progress at the beginning.
LEMMA InitIInv == Init => IInv
BY FileAssumption
   DEF Init, IInv, Types, SlotTyped, Named, Copied, FailureKnown, NewSaveAtEnd, At,
       Ended, SavePc, Restoring, Content, NoFile

\* Steps outside a save leave the slot and what is known of it alone.
LEMMA OutsideKeeps ==
  ASSUME IInv, UNCHANGED slotVars, maps' \subseteq Map,
         pc' \in LoadPc \cup {"idle"} \/ (pc' = pc /\ UNCHANGED << maps, todo >>)
  PROVE  IInv'
BY DEF IInv, Types, SlotTyped, Named, Copied, FailureKnown, NewSaveAtEnd, At,
       Ended, SavePc, LoadPc, Restoring, slotVars, OfSave

\* A file may be absent, partial, or that of a save.
LEMMA Contents == NoFile \in Content /\ Partial \in Content /\ 1 .. MaxSaves \subseteq Content
BY FileAssumption DEF NoFile, Partial, Content

\* So do the steps of a save before its map files are listed, and those that
\* restore the backup once -1 is sure to be returned: Nothing is claimed then.
LEMMA NothingClaimed ==
  ASSUME IInv, pc \in SavePc, SlotTyped',
         UNCHANGED << list, save, maps >>,
         \/ pc' \in {"backupDat", "backupList", "backupMaps", "open", "head",
                     "mapSave", "idle"}
         \/ pc' \in Restoring /\ rc' = -1
         \/ pc' = "eraseBak" /\ rc' = -1
  PROVE  IInv'
<1>1. Types'
  BY DEF IInv, Types, SavePc
<1>2. Named' /\ Copied' /\ FailureKnown' /\ NewSaveAtEnd'
  BY DEF Named, Copied, FailureKnown, NewSaveAtEnd, At, Ended, Restoring
<1> QED BY <1>1, <1>2 DEF IInv

\* Between operations, and when one begins or the program dies.
LEMMA PlayerKeeps ==
  ASSUME IInv, NewGame \/ SaveBegin \/ (\E m \in Map : Visit(m)) \/ Crash
  PROVE  IInv'
<1>1. CASE NewGame
  BY <1>1, OutsideKeeps DEF NewGame, At, IInv, Types
<1>2. ASSUME NEW m \in Map, Visit(m) PROVE IInv'
  BY <1>2, OutsideKeeps DEF Visit, At, IInv, Types
<1>3. CASE SaveBegin
  <2>1. Types'
    BY <1>3, FileAssumption DEF SaveBegin, IInv, Types, SlotTyped
  <2>2. Named' /\ Copied' /\ FailureKnown' /\ NewSaveAtEnd'
    BY <1>3 DEF SaveBegin, Named, Copied, FailureKnown, NewSaveAtEnd, At,
                Ended, Restoring, Goto
  <2> QED BY <2>1, <2>2 DEF IInv
<1>4. CASE Crash
  <2>1. SlotTyped'
    BY <1>4, Contents DEF SlotTyped, Crash, IInv, Types
  <2>2. Types'
    BY <1>4, <2>1 DEF Crash, IInv, Types, Goto, SavePc
  <2>3. Named' /\ Copied' /\ FailureKnown' /\ NewSaveAtEnd'
    BY <1>4 DEF Crash, Named, Copied, FailureKnown, NewSaveAtEnd, At,
                Ended, Restoring, Goto
  <2> QED BY <2>2, <2>3 DEF IInv
<1> QED BY <1>1, <1>2, <1>3, <1>4

\* The first half of SaveSlot: the backup, and the head of SAVE.DAT.
LEMMA BackupKeeps ==
  ASSUME IInv, NEW ok \in BOOLEAN,
         \/ BackupDat(ok) \/ BackupList(ok) \/ BackupDone \/ Open(ok) \/ WriteHead(ok)
         \/ \E n \in Name : BackupMap(n, ok)
  PROVE  IInv'
<1> USE DEF At, Goto, SavePc, Restoring, SlotTyped
<1>0. SlotTyped
  BY DEF IInv, Types
<1>1. CASE BackupDat(ok)
  <2>1. SlotTyped'
    BY <1>0, <1>1, Contents DEF SlotTyped, BackupDat
  <2> QED BY <1>1, <2>1, NothingClaimed DEF BackupDat
<1>2. CASE BackupList(ok)
  BY <1>0, <1>2, NothingClaimed DEF BackupList
<1>3. CASE BackupDone
  BY <1>0, <1>3, NothingClaimed DEF BackupDone, slotVars
<1>4. ASSUME NEW n \in Name, BackupMap(n, ok) PROVE IInv'
  <2>1. SlotTyped'
    BY <1>0, <1>4, Contents DEF SlotTyped, BackupMap
  <2> QED BY <1>4, <2>1, NothingClaimed DEF BackupMap
<1>5. CASE Open(ok)
  <2>1. SlotTyped'
    BY <1>0, <1>5, Contents DEF SlotTyped, Open
  <2> QED BY <1>5, <2>1, NothingClaimed DEF Open, Succeed, Fail
<1>6. CASE WriteHead(ok)
  BY <1>0, <1>6, NothingClaimed DEF WriteHead, Succeed, Fail
<1> QED BY <1>1, <1>2, <1>3, <1>4, <1>5, <1>6

\* The save's own map files: named, then copied one by one.
LEMMA MapsKeep ==
  ASSUME IInv, NEW ok \in BOOLEAN,
         \/ MapSave(ok) \/ ClearDone(ok) \/ CopyDone \/ LoseWrite
         \/ \E n \in Name : ClearSav(n, ok) \/ CopyMap(n, ok) \/ CopyMapShort(n)
  PROVE  IInv'
<1> USE DEF At, Goto, SlotTyped
<1>0. /\ SlotTyped /\ maps \subseteq Map
      /\ save \in 0 .. MaxSaves /\ list \in [1 .. MaxSaves -> SUBSET Map]
      /\ pc \in SavePc => save \in 1 .. MaxSaves
  BY FileAssumption DEF IInv, Types
<1>1. CASE MapSave(ok)
  <2>0. save \in 1 .. MaxSaves /\ maps' \subseteq Map
    BY <1>0, <1>1 DEF MapSave, SavePc
  <2>1. list' \in [1 .. MaxSaves -> SUBSET Map] /\ list'[save] = maps'
    BY <1>0, <1>1, <2>0 DEF MapSave
  <2>2. Types'
    BY <1>0, <1>1, <2>0, <2>1 DEF MapSave, Types
  <2>3. Named' /\ Copied' /\ FailureKnown' /\ NewSaveAtEnd'
    BY <1>1, <2>1 DEF MapSave, Succeed, Fail, Named, Copied, FailureKnown,
                      NewSaveAtEnd, Ended, Restoring
  <2> QED BY <2>2, <2>3 DEF IInv
<1>2. ASSUME NEW n \in Name, ClearSav(n, ok) PROVE IInv'
  <2>1. SlotTyped'
    BY <1>0, <1>2, Contents DEF SlotTyped, ClearSav
  <2>2. Types'
    BY <1>0, <1>2, <2>1 DEF ClearSav, Types, SavePc
  <2>3. Named' /\ Copied' /\ FailureKnown' /\ NewSaveAtEnd'
    BY <1>2 DEF ClearSav, Succeed, Fail, IInv, Named, Copied, FailureKnown,
                NewSaveAtEnd, Ended, Restoring
  <2> QED BY <2>2, <2>3 DEF IInv
<1>3. CASE ClearDone(ok)
  <2>2. Types'
    BY <1>0, <1>3 DEF ClearDone, Types, SavePc
  <2>3. Named' /\ Copied' /\ FailureKnown' /\ NewSaveAtEnd'
    BY <1>3 DEF ClearDone, Succeed, Fail, IInv, Named, Copied, FailureKnown,
                NewSaveAtEnd, Ended, Restoring
  <2> QED BY <2>2, <2>3 DEF IInv
<1>4. ASSUME NEW n \in Name, CopyMap(n, ok) \/ CopyMapShort(n) PROVE IInv'
  <2>0. save \in 1 .. MaxSaves /\ save \in Content /\ pc = "copy"
    BY <1>0, <1>4, Contents DEF CopyMap, CopyMapShort, SavePc
  <2>1. SlotTyped'
    BY <1>0, <1>4, <2>0, Contents DEF SlotTyped, CopyMap, CopyMapShort
  <2>4. UNCHANGED << maps, save, list >>
    BY <1>4 DEF CopyMap, CopyMapShort
  <2>2. Types'
    BY <1>0, <2>0, <2>1, <2>4 DEF Types
  <2>5. \/ pc' = "copy" /\ sav' = [sav EXCEPT ![n] = save] /\ todo' = todo \ {n}
        \/ pc' = "erase1" /\ rc' = -1
    BY <1>4 DEF CopyMap, CopyMapShort, Succeed, Fail
  <2>3. ASSUME pc' = "copy", NEW m \in (maps \cup {AUTO}) \ todo' PROVE sav'[m] = save
    <3>1. m \in Name /\ (m = n \/ m \notin todo)
      BY <1>0, <2>3, <2>5 DEF Name
    <3>2. m # n => sav[m] = save
      BY <2>0, <2>3, <3>1 DEF IInv, Copied
    <3> QED BY <1>0, <2>3, <2>5, <3>1, <3>2
  <2>6. Copied'
    BY <2>3, <2>4, <2>5 DEF Copied
  <2>7. Named' /\ FailureKnown' /\ NewSaveAtEnd'
    BY <2>0, <2>4, <2>5 DEF IInv, Named, FailureKnown, NewSaveAtEnd, Ended, Restoring
  <2> QED BY <2>2, <2>6, <2>7 DEF IInv
<1>6. CASE LoseWrite
  <2>1. UNCHANGED << sav, bak, rc, save, list, maps, pc, todo >> /\ pc \in {"head", "copy", "tail"}
    BY <1>6 DEF LoseWrite
  <2> QED BY <2>1 DEF IInv, Types, Named, Copied, FailureKnown, NewSaveAtEnd, Ended, Restoring
<1>5. CASE CopyDone
  <2>1. Types'
    BY <1>0, <1>5 DEF CopyDone, slotVars, Types, SavePc
  <2>2. list[save] = maps /\ (\A n \in maps \cup {AUTO} : sav[n] = save)
    BY <1>5 DEF CopyDone, IInv, Named, Copied
  <2>3. Named' /\ Copied' /\ FailureKnown' /\ NewSaveAtEnd'
    BY <1>5, <2>2 DEF CopyDone, slotVars, Named, Copied, FailureKnown,
                      NewSaveAtEnd, Ended, Restoring
  <2> QED BY <2>1, <2>3 DEF IInv
<1> QED BY <1>1, <1>2, <1>3, <1>4, <1>5, <1>6

\* SAVE.DAT is closed: the save is whole. The backup is all that changes then.
LEMMA EndKeeps ==
  ASSUME IInv, NEW ok \in BOOLEAN,
         WriteTail(ok) \/ SaveEnd \/ \E n \in Name : EraseBak(n, ok)
  PROVE  IInv'
<1> USE DEF At, Goto, SlotTyped
<1>0. /\ SlotTyped /\ maps \subseteq Map
      /\ save \in 0 .. MaxSaves /\ list \in [1 .. MaxSaves -> SUBSET Map]
      /\ pc \in SavePc => save \in 1 .. MaxSaves
  BY FileAssumption DEF IInv, Types
<1>1. CASE WriteTail(ok)
  <2>0. save \in 1 .. MaxSaves /\ save \in Content
    BY <1>0, <1>1, Contents DEF WriteTail, SavePc
  <2>1. SlotTyped'
    BY <1>0, <1>1, <2>0 DEF SlotTyped, WriteTail
  <2>2. UNCHANGED << maps, save, list >>
    BY <1>1 DEF WriteTail
  <2>3. Types'
    BY <1>0, <2>0, <2>1, <2>2 DEF Types
  <2>4. CASE ok
    <3>1. rc' = 0 /\ pc' = "eraseBak" /\ sav' = [sav EXCEPT ![SAVE] = save]
      BY <1>1, <2>4 DEF WriteTail
    <3>2. sav'[SAVE] = save
      BY <1>0, <3>1 DEF Name
    <3>3. ASSUME NEW n \in list[save] \cup {AUTO} PROVE sav'[n] = save
      <4>1. n \in Name /\ n # SAVE
        BY <1>0, <2>0, FileAssumption DEF Name
      <4>2. sav[n] = save
        BY <1>1 DEF WriteTail, IInv, Copied
      <4> QED BY <1>0, <3>1, <4>1, <4>2
    <3>4. OfSave(save)'
      BY <2>2, <3>2, <3>3 DEF OfSave
    <3>5. Named' /\ Copied' /\ FailureKnown' /\ NewSaveAtEnd'
      BY <3>1, <3>4 DEF Named, Copied, FailureKnown, NewSaveAtEnd, Restoring
    <3> QED BY <2>3, <3>5 DEF IInv
  <2>5. CASE ~ok
    <3>1. rc' = -1 /\ pc' = "erase1"
      BY <1>1, <2>5 DEF WriteTail, Fail
    <3> QED BY <1>1, <2>1, <2>2, <3>1, NothingClaimed DEF WriteTail, Restoring, SavePc
  <2> QED BY <2>4, <2>5
<1>2. CASE SaveEnd
  BY <1>0, <1>2, NothingClaimed DEF SaveEnd, slotVars, SavePc
<1>3. ASSUME NEW n \in Name, EraseBak(n, ok) PROVE IInv'
  <2>1. SlotTyped'
    BY <1>0, <1>3, Contents DEF EraseBak
  <2>2. Types'
    BY <1>0, <1>3, <2>1 DEF EraseBak, Types, SavePc
  <2>3. Named' /\ Copied' /\ FailureKnown' /\ NewSaveAtEnd'
    BY <1>3 DEF EraseBak, IInv, Named, Copied, FailureKnown, NewSaveAtEnd,
                Ended, OfSave, Restoring
  <2> QED BY <2>2, <2>3 DEF IInv
<1> QED BY <1>1, <1>2, <1>3

\* Restoring the backup: only the slot changes, and -1 will be returned.
LEMMA RestoreKeeps ==
  ASSUME IInv, NEW ok \in BOOLEAN,
         \/ EraseDone(ok) \/ RestoreDat(ok) \/ RestoreList(ok) \/ RestoreDone
         \/ \E call \in {"erase1", "erase2"} : EraseDat(call, ok)
         \/ \E n \in Name : EraseMap(n, ok) \/ RestoreMap(n, ok)
  PROVE  IInv'
<1> USE DEF At, Goto, SlotTyped, Moves, Remains
<1>0. SlotTyped /\ (pc \in Restoring => rc = -1)
  BY DEF IInv, Types, FailureKnown
<1>1. CASE EraseDone(ok)
  BY <1>0, <1>1, NothingClaimed DEF EraseDone, slotVars, Restoring, SavePc
<1>2. CASE RestoreList(ok)
  BY <1>0, <1>2, NothingClaimed DEF RestoreList, slotVars, Restoring, SavePc
<1>3. CASE RestoreDone
  BY <1>0, <1>3, NothingClaimed DEF RestoreDone, slotVars, Restoring, SavePc
<1>4. CASE RestoreDat(ok)
  <2>1. SlotTyped'
    <3>1. bak[SAVE] \in Content
      BY <1>0 DEF Name
    <3> QED BY <1>0, <1>4, <3>1, Contents DEF RestoreDat
  <2> QED BY <1>0, <1>4, <2>1, NothingClaimed DEF RestoreDat, Restoring, SavePc
<1>5. ASSUME NEW call \in {"erase1", "erase2"}, EraseDat(call, ok) PROVE IInv'
  <2>1. SlotTyped'
    BY <1>0, <1>5, Contents DEF SlotTyped, EraseDat
  <2> QED BY <1>0, <1>5, <2>1, NothingClaimed DEF EraseDat, Restoring, SavePc
<1>6. ASSUME NEW n \in Name, EraseMap(n, ok) PROVE IInv'
  <2>1. SlotTyped'
    BY <1>0, <1>6, Contents DEF SlotTyped, EraseMap
  <2> QED BY <1>0, <1>6, <2>1, NothingClaimed DEF EraseMap, Restoring, SavePc
<1>7. ASSUME NEW n \in Name, RestoreMap(n, ok) PROVE IInv'
  <2>1. SlotTyped'
    BY <1>0, <1>7, Contents DEF SlotTyped, RestoreMap
  <2> QED BY <1>0, <1>7, <2>1, NothingClaimed DEF RestoreMap, Restoring, SavePc
<1> QED BY <1>1, <1>2, <1>3, <1>4, <1>5, <1>6, <1>7

\* LoadSlot only reads the slot.
LEMMA LoadKeeps ==
  ASSUME IInv, NEW ok \in BOOLEAN,
         \/ LoadBegin \/ LoadCopied \/ LoadErase(ok) \/ LoadAuto(ok) \/ LoadEnd(ok)
         \/ LoadGarbled \/ \E m \in Map : LoadCopy(m, ok)
  PROVE  IInv'
<1> USE DEF At, Goto, LoadFails, LoadPc
<1>0. maps \subseteq Map
  BY DEF IInv, Types
<1>1. CASE LoadBegin
  BY <1>0, <1>1, OutsideKeeps DEF LoadBegin
<1>2. CASE LoadCopied
  BY <1>0, <1>2, OutsideKeeps DEF LoadCopied
<1>3. CASE LoadErase(ok)
  BY <1>0, <1>3, OutsideKeeps DEF LoadErase
<1>4. CASE LoadAuto(ok)
  BY <1>0, <1>4, OutsideKeeps DEF LoadAuto
<1>5. CASE LoadEnd(ok)
  BY <1>0, <1>5, OutsideKeeps DEF LoadEnd
<1>6. ASSUME NEW m \in Map, LoadCopy(m, ok) PROVE IInv'
  BY <1>0, <1>6, OutsideKeeps DEF LoadCopy
<1>7. CASE LoadGarbled
  BY <1>0, <1>7, OutsideKeeps DEF LoadGarbled
<1> QED BY <1>1, <1>2, <1>3, <1>4, <1>5, <1>6, <1>7

\* IInv is inductive.
LEMMA StepIInv == IInv /\ [Next]_vars => IInv'
<1> SUFFICES ASSUME IInv, [Next]_vars PROVE IInv'
  OBVIOUS
<1>1. CASE Next
  BY <1>1, PlayerKeeps, BackupKeeps, MapsKeep, EndKeeps, RestoreKeeps, LoadKeeps
     DEF Next, Move, Step
<1>2. CASE UNCHANGED vars
  BY <1>2 DEF vars, slotVars, IInv, Types, SlotTyped, Named, Copied, FailureKnown,
              NewSaveAtEnd, Ended, At, OfSave
<1> QED BY <1>1, <1>2

-----------------------------------------------------------------------------
\* LoadSlot does not begin without a SAVE.DAT.
TInv == TypeOK /\ (pc = "loadErase" => loading # 0)

\* Without SAVE.DAT a directory holds nothing of a save.
Clean(dir) == dir[SAVE] = NoFile => \A n \in Name : dir[n] = NoFile

Kept(n)  == sav[n] = before[n] /\ bak[n] = NoFile
Moved(n) == sav[n] = NoFile /\ bak[n] = before[n]
Gone(n)  == sav[n] = NoFile /\ before[n] = NoFile
BackedUp == \A n \in Name : bak[n] = before[n]

\* What RestoreSave will rely on from the moment the files are counted.
Counted == Clean(before) /\ count = Cardinality(Files(before) \cap SavName)

Writing == {"open", "head", "mapSave", "clear", "copy", "tail"}

\* While nothing has failed.
NoFaultYet ==
  faults = 0 /\ crashes = 0 =>
    /\ rc = 0 /\ pc \notin Restoring
    /\ pc \in LoadPc \cup {"idle"} => Clean(sav) /\ \A n \in Name : bak[n] = NoFile
    /\ At("backupDat") => Clean(before) /\ \A n \in Name : Kept(n)
    /\ At("backupList") => Clean(before) /\ Moved(SAVE) /\ \A n \in SavName : Kept(n)
    /\ At("backupMaps") =>
         /\ Counted /\ Moved(SAVE) /\ todo \subseteq SavName
         /\ \A n \in SavName : IF n \in todo THEN Kept(n) ELSE Moved(n)
    /\ pc \in Writing => Counted /\ BackedUp
    /\ Ended => todo = Files(bak)

\* While the backup is restored, the operation that failed being the only one.
OneFaultYet ==
  faults = 1 /\ crashes = 0 =>
    /\ At("erase1") => Counted /\ BackedUp
    /\ At("erase1maps") =>
         Counted /\ BackedUp /\ sav[SAVE] = NoFile /\ todo = Files(sav) \cap SavName
    /\ At("restoreDat") => Counted /\ \A n \in Name : Moved(n)
    /\ At("restoreList") => Counted /\ Kept(SAVE) /\ \A n \in SavName : Moved(n)
    /\ At("restoreMaps") =>
         /\ Kept(SAVE) /\ todo \subseteq SavName
         /\ \A n \in SavName : IF n \in todo THEN Moved(n) ELSE Kept(n)
    /\ At("erase2") => \A n \in Name : Gone(n)
    /\ At("erase2maps") => todo = {} /\ \A n \in Name : Gone(n)
    /\ Ended /\ rc = -1 => sav = before

FInv == NoFaultYet /\ OneFaultYet

\* A slot has finitely many map files, so that they can be counted.
LEMMA NamesFinite ==
  /\ IsFiniteSet(SavName)
  /\ \A T \in SUBSET SavName :
       Cardinality(T) \in Nat /\ Cardinality(T) <= Cardinality(SavName)
<1>1. IsFiniteSet((Map \cup {SAVE}) \cup {AUTO})
  BY FileAssumption, FS_AddElement
<1>2. IsFiniteSet(SavName)
  BY <1>1, FS_Subset DEF SavName, Name
<1>3. ASSUME NEW T \in SUBSET SavName
      PROVE  Cardinality(T) \in Nat /\ Cardinality(T) <= Cardinality(SavName)
  BY <1>2, FS_Subset, FS_CardinalityType
<1> QED BY <1>2, <1>3

\* The types at the beginning.
LEMMA InitTInv == Init => TInv
<1>1. Cardinality(SavName) \in Nat
  BY NamesFinite
<1> QED BY <1>1, FileAssumption, Contents DEF Init, TInv, TypeOK, Content, NoFile

\* TInv is preserved.
LEMMA StepTInv ==
  ASSUME TInv, IInv, [Next]_vars
  PROVE  TInv'
<1> USE FileAssumption DEF At, Goto, Works, Fail, Succeed, LoadFails, slotVars, loadVars
<1> DEFINE Book ==
      /\ game \in {"playing", "menu"} /\ pc \in SavePc \cup LoadPc \cup {"idle"}
      /\ todo \subseteq Name
      /\ loading \in 0 .. MaxSaves /\ (pc = "loadErase" => loading # 0)
      /\ got \subseteq Content
      /\ before \in [Name -> Content]
      /\ rc \in {0, -1}
      /\ faults \in 0 .. MaxFaults /\ crashes \in 0 .. MaxCrashes
      /\ replaces \in BOOLEAN
      /\ count \in -1 .. Cardinality(SavName)
      /\ lost \in [1 .. MaxSaves -> SUBSET Name]
<1>0. /\ Book /\ SlotTyped /\ maps \subseteq Map /\ save \in 0 .. MaxSaves
      /\ list \in [1 .. MaxSaves -> SUBSET Map]
      /\ Files(sav) \subseteq Name /\ Files(bak) \subseteq Name
      /\ Map \subseteq Name /\ SAVE \in Name /\ AUTO \in Name
      /\ Cardinality(SavName) \in Nat
  BY NamesFinite DEF TInv, TypeOK, SlotTyped, Files, Name
<1>1. SlotTyped' /\ maps' \subseteq Map /\ save' \in 0 .. MaxSaves
      /\ list' \in [1 .. MaxSaves -> SUBSET Map]
  BY StepIInv DEF IInv, Types
<1> SUFFICES Book'
  BY <1>1 DEF TInv, TypeOK, SlotTyped
<1> USE <1>0
<1>2. CASE UNCHANGED vars
  BY <1>2 DEF vars
<1>3. CASE /\ \/ NewGame \/ BackupDone \/ CopyDone \/ SaveEnd
              \/ LoadCopied \/ LoadGarbled \/ \E m \in Map : Visit(m)
           /\ UNCHANGED replaces
  <2>1. CASE NewGame \/ \E m \in Map : Visit(m)
    BY <1>3, <2>1 DEF NewGame, Visit
  <2>2. CASE BackupDone \/ CopyDone
    BY <1>3, <2>2 DEF BackupDone, CopyDone, SavePc
  <2>3. CASE SaveEnd \/ LoadCopied \/ LoadGarbled
    BY <1>3, <2>3 DEF SaveEnd, LoadCopied, LoadGarbled, LoadPc
  <2> QED BY <1>3, <2>1, <2>2, <2>3
<1>4. CASE (SaveBegin \/ RestoreDone \/ Crash) /\ UNCHANGED replaces
  <2>1. CASE SaveBegin
    BY <1>4, <2>1 DEF SaveBegin, SavePc, SlotTyped
  <2>2. CASE RestoreDone
    BY <1>4, <2>2 DEF RestoreDone, SavePc
  <2>3. CASE Crash
    BY <1>4, <2>3 DEF Crash
  <2> QED BY <1>4, <2>1, <2>2, <2>3
<1>5. CASE LoadBegin /\ UNCHANGED replaces
  <2>1. sav[SAVE] # Partial => sav[SAVE] \in 0 .. MaxSaves
    BY DEF SlotTyped, Content, Partial
  <2> QED BY <1>5, <2>1 DEF LoadBegin, LoadPc, NoFile
<1>6. ASSUME NEW ok \in BOOLEAN, UNCHANGED replaces,
             \/ BackupDat(ok) \/ Open(ok) \/ WriteHead(ok) \/ MapSave(ok) \/ RestoreDat(ok)
             \/ \E n \in Name : BackupMap(n, ok) \/ ClearSav(n, ok)
      PROVE  Book'
  BY <1>6 DEF BackupDat, Open, WriteHead, MapSave, RestoreDat, BackupMap, ClearSav, SavePc
<1>7. ASSUME NEW ok \in BOOLEAN, UNCHANGED replaces,
             \/ ClearDone(ok) \/ WriteTail(ok) \/ EraseDone(ok) \/ RestoreList(ok)
             \/ \E call \in {"erase1", "erase2"} : EraseDat(call, ok)
             \/ \E n \in Name : \/ CopyMap(n, ok) \/ EraseBak(n, ok) \/ EraseMap(n, ok)
                                \/ RestoreMap(n, ok)
      PROVE  Book'
  BY <1>7 DEF ClearDone, WriteTail, EraseDone, RestoreList, EraseDat, CopyMap, EraseBak,
              EraseMap, RestoreMap, SavePc
<1>8. ASSUME NEW ok \in BOOLEAN, UNCHANGED replaces, BackupList(ok)
      PROVE  Book'
  <2>1. Cardinality(Files(sav) \cap SavName) \in 0 .. Cardinality(SavName)
    BY NamesFinite
  <2> QED BY <1>8, <2>1 DEF BackupList, SavePc
<1>9. ASSUME NEW ok \in BOOLEAN, UNCHANGED replaces,
             \/ LoadErase(ok) \/ LoadAuto(ok) \/ LoadEnd(ok)
             \/ \E m \in Map : LoadCopy(m, ok)
      PROVE  Book'
  <2>1. CASE LoadErase(ok)
    BY <1>9, <2>1 DEF LoadErase, LoadPc
  <2>2. CASE LoadAuto(ok)
    BY <1>9, <2>2 DEF LoadAuto, LoadPc
  <2>4. CASE LoadEnd(ok)
    BY <1>9, <2>4 DEF LoadEnd
  <2>3. ASSUME NEW m \in Map, LoadCopy(m, ok) PROVE Book'
    BY <1>9, <2>3 DEF LoadCopy, SlotTyped
  <2> QED BY <1>9, <2>1, <2>2, <2>3, <2>4
<1>10. ASSUME UNCHANGED replaces, LoseWrite \/ \E n \in Name : CopyMapShort(n)
       PROVE  Book'
  BY <1>10 DEF LoseWrite, CopyMapShort, SavePc
<1> QED
  BY <1>2, <1>3, <1>4, <1>5, <1>6, <1>7, <1>8, <1>9, <1>10 DEF Next, Move, Step

(* Every variable of SaveSlot and LoadSlot (loadsave.cc) keeps its range:  *)
(* map_backup_count never exceeds the files "*.SAV" can find.              *)
THEOREM SlotTypeOK == Spec => []TypeOK
<1>1. Init => TInv /\ IInv
  BY InitTInv, InitIInv
<1>2. (TInv /\ IInv) /\ [Next]_vars => (TInv /\ IInv)'
  BY StepTInv, StepIInv
<1>3. TInv => TypeOK
  BY DEF TInv
<1> QED BY <1>1, <1>2, <1>3, PTL DEF Spec

\* At the beginning the slot is empty, and so is its backup.
LEMMA InitFInv == Init => FInv
BY FileAssumption
   DEF Init, FInv, NoFaultYet, OneFaultYet, At, Ended, Restoring, Writing, LoadPc, Clean

\* Between operations, when one begins, when the program dies, and in LoadSlot:
\* none of these writes to the slot.
LEMMA PlayerFInv ==
  ASSUME TInv, FInv,
         \/ NewGame \/ SaveBegin \/ Crash \/ \E m \in Map : Visit(m)
         \/ LoadBegin \/ LoadCopied \/ LoadGarbled
         \/ \E ok \in BOOLEAN :
              \/ LoadErase(ok) \/ LoadAuto(ok) \/ LoadEnd(ok)
              \/ \E m \in Map : LoadCopy(m, ok)
  PROVE  FInv'
<1> USE DEF At, Goto, Works, LoadFails, slotVars, loadVars, FInv, Ended
<1>0. faults \in Nat /\ crashes \in Nat
  BY FileAssumption DEF TInv, TypeOK
<1>1. CASE SaveBegin
  <2>1. OneFaultYet'
    BY <1>1 DEF SaveBegin, OneFaultYet
  <2>2. NoFaultYet'
    BY <1>1 DEF SaveBegin, NoFaultYet, Kept, Clean, Restoring, Writing, LoadPc
  <2> QED BY <2>1, <2>2
<1>2. CASE Crash
  BY <1>0, <1>2 DEF Crash, NoFaultYet, OneFaultYet
<1>3. ASSUME pc \in LoadPc \cup {"idle"}, pc' \in LoadPc \cup {"idle"},
             UNCHANGED << slotVars, crashes >>,
             faults' = faults \/ faults' = faults + 1
      PROVE  FInv'
  <2>1. OneFaultYet'
    BY <1>3 DEF OneFaultYet, LoadPc
  <2>2. NoFaultYet'
    BY <1>0, <1>3 DEF NoFaultYet, Clean, Restoring, Writing, LoadPc
  <2> QED BY <2>1, <2>2
<1>4. CASE \/ NewGame \/ LoadBegin \/ LoadCopied \/ LoadGarbled
           \/ \E m \in Map : Visit(m)
  BY <1>3, <1>4 DEF NewGame, LoadBegin, LoadCopied, LoadGarbled, Visit, LoadPc
<1>5. ASSUME NEW ok \in BOOLEAN,
             \/ LoadErase(ok) \/ LoadAuto(ok) \/ LoadEnd(ok)
             \/ \E m \in Map : LoadCopy(m, ok)
      PROVE  FInv'
  BY <1>3, <1>5 DEF LoadErase, LoadAuto, LoadEnd, LoadCopy, LoadPc
<1> QED BY <1>1, <1>2, <1>4, <1>5

\* SaveBackup: file by file from the slot to its backup; no old backup is in
\* the way.
LEMMA BackupFInv ==
  ASSUME TInv, FInv, NEW ok \in BOOLEAN,
         \/ BackupDat(ok) \/ BackupList(ok) \/ BackupDone
         \/ \E n \in Name : BackupMap(n, ok)
  PROVE  FInv'
<1> USE DEF At, Goto, Works, slotVars, FInv, Ended
<1>0. /\ faults \in Nat /\ crashes \in Nat
      /\ sav \in [Name -> Content] /\ bak \in [Name -> Content]
      /\ SAVE \in Name /\ SavName = Name \ {SAVE}
  BY FileAssumption DEF TInv, TypeOK, Name, SavName
<1>1. OneFaultYet'
  BY DEF BackupDat, BackupList, BackupDone, BackupMap, OneFaultYet
<1>2. ASSUME faults' = 0, crashes' = 0
      PROVE  /\ faults = 0 /\ crashes = 0 /\ rc' = 0
             /\ Clean(before) /\ before' = before
             /\ \A n \in Name : pc = "backupMaps" /\ n # SAVE =>
                    IF n \in todo THEN Kept(n) ELSE Moved(n)
  BY <1>0, <1>2 DEF BackupDat, BackupList, BackupDone, BackupMap, NoFaultYet, Counted
<1>3. CASE BackupDat(ok)
  <2> SUFFICES ASSUME faults' = 0, crashes' = 0 PROVE NoFaultYet'
    BY <1>1 DEF NoFaultYet
  <2>1. ok /\ \A n \in Name : Kept(n)
    BY <1>0, <1>2, <1>3 DEF BackupDat, NoFaultYet
  <2>2. pc' = "backupList" /\ Moved(SAVE)' /\ \A n \in SavName : Kept(n)'
    BY <1>0, <1>2, <1>3, <2>1 DEF BackupDat, Refuses, Kept, Moved
  <2> QED BY <1>2, <2>2 DEF NoFaultYet, Clean, Restoring, Writing, LoadPc
<1>4. CASE BackupList(ok)
  <2> SUFFICES ASSUME faults' = 0, crashes' = 0 PROVE NoFaultYet'
    BY <1>1 DEF NoFaultYet
  <2>1. ok /\ Moved(SAVE) /\ \A n \in SavName : Kept(n)
    BY <1>0, <1>2, <1>4 DEF BackupList, NoFaultYet
  <2>2. Files(sav) \cap SavName = Files(before) \cap SavName
    BY <1>0, <2>1 DEF Files, Kept
  <2>3. pc' = "backupMaps" /\ Counted' /\ Moved(SAVE)' /\ todo' = Files(sav) \cap SavName
    BY <1>2, <1>4, <2>1, <2>2 DEF BackupList, Counted, Moved, Clean, Files
  <2>4. \A n \in SavName : IF n \in todo' THEN Kept(n)' ELSE Moved(n)'
    BY <1>0, <1>4, <2>1, <2>3 DEF BackupList, Kept, Moved, Files
  <2> QED BY <1>2, <2>3, <2>4 DEF NoFaultYet, Restoring, Writing, LoadPc
<1>5. ASSUME NEW n \in Name, BackupMap(n, ok) PROVE FInv'
  <2> SUFFICES ASSUME faults' = 0, crashes' = 0 PROVE NoFaultYet'
    BY <1>1 DEF NoFaultYet
  <2>1. ok /\ n \in todo /\ Counted /\ Moved(SAVE) /\ bak[n] = NoFile /\ sav[n] = before[n]
    BY <1>0, <1>2, <1>5 DEF BackupMap, NoFaultYet, Kept, Moved
  <2>2. /\ pc' = "backupMaps" /\ Counted' /\ Moved(SAVE)'
        /\ todo' = todo \ {n} /\ todo' \subseteq SavName
    BY <1>0, <1>5, <2>1 DEF BackupMap, Refuses, Counted, Moved, Clean, Files, NoFaultYet
  <2>3. \A x \in SavName : IF x \in todo' THEN Kept(x)' ELSE Moved(x)'
    BY <1>0, <1>2, <1>5, <2>1 DEF BackupMap, Refuses, Kept, Moved
  <2> QED BY <1>2, <2>2, <2>3 DEF NoFaultYet, Restoring, Writing, LoadPc
<1>6. CASE BackupDone
  <2> SUFFICES ASSUME faults' = 0, crashes' = 0 PROVE NoFaultYet'
    BY <1>1 DEF NoFaultYet
  <2>1. Counted /\ \A n \in Name : Moved(n)
    BY <1>0, <1>2, <1>6 DEF BackupDone, NoFaultYet
  <2>2. pc' = "open" /\ Counted' /\ BackedUp'
    BY <1>6, <2>1 DEF BackupDone, Counted, BackedUp, Moved, Clean, Files
  <2> QED BY <1>2, <2>2 DEF NoFaultYet, Restoring, Writing, LoadPc
<1> QED BY <1>3, <1>4, <1>5, <1>6

\* While the new save is written the backup is not touched; the step that
\* fails leaves all of it to RestoreSave.
LEMMA WritingFInv ==
  ASSUME TInv, FInv, NEW ok \in BOOLEAN,
         \/ Open(ok) \/ WriteHead(ok) \/ MapSave(ok) \/ ClearDone(ok) \/ CopyDone
         \/ LoseWrite
         \/ \E n \in Name : ClearSav(n, ok) \/ CopyMap(n, ok) \/ CopyMapShort(n)
  PROVE  FInv'
<1> USE DEF At, Goto, Works, Succeed, Fail, slotVars, Writing
<1>0. faults \in Nat /\ crashes \in Nat
  BY FileAssumption DEF TInv, TypeOK
<1>1. /\ pc \in Writing /\ UNCHANGED << bak, count, before, crashes >>
      /\ \/ pc' \in Writing /\ rc' = rc /\ faults' \in {faults, faults + 1}
         \/ pc' = "erase1" /\ faults' = faults + 1
  BY DEF Open, WriteHead, MapSave, ClearDone, CopyDone, ClearSav, CopyMap, LoseWrite,
         CopyMapShort
<1>2. faults = 0 /\ crashes = 0 => rc = 0 /\ Counted' /\ BackedUp'
  BY <1>1 DEF FInv, NoFaultYet, Counted, BackedUp, Clean, Files
<1>3. NoFaultYet'
  BY <1>0, <1>1, <1>2 DEF NoFaultYet, Restoring, LoadPc, Ended
<1>4. OneFaultYet'
  BY <1>0, <1>1, <1>2 DEF OneFaultYet, Ended
<1> QED BY <1>3, <1>4 DEF FInv

\* A save that succeeds leaves SAVE.DAT and an empty backup.
LEMMA EndFInv ==
  ASSUME TInv, IInv, FInv, NEW ok \in BOOLEAN,
         WriteTail(ok) \/ SaveEnd \/ \E n \in Name : EraseBak(n, ok)
  PROVE  FInv'
<1> USE DEF At, Goto, Works, Succeed, Fail, slotVars, Ended
<1>0. /\ faults \in Nat /\ crashes \in Nat
      /\ sav \in [Name -> Content] /\ bak \in [Name -> Content]
  BY FileAssumption DEF TInv, TypeOK
<1>1. CASE WriteTail(ok)
  <2>1. faults = 0 /\ crashes = 0 => Counted' /\ BackedUp'
    BY <1>1 DEF WriteTail, FInv, NoFaultYet, Counted, BackedUp, Clean, Files, Writing
  <2>2. \/ ok /\ pc' = "eraseBak" /\ rc' = 0 /\ faults' = faults
        \/ ~ok /\ pc' = "erase1" /\ faults' = faults + 1
    BY <1>1 DEF WriteTail
  <2>3. todo' = Files(bak') /\ UNCHANGED crashes
    BY <1>1 DEF WriteTail
  <2>4. NoFaultYet'
    BY <1>0, <2>2, <2>3 DEF NoFaultYet, Restoring, Writing, LoadPc, Files
  <2>5. OneFaultYet'
    BY <1>0, <2>1, <2>2, <2>3 DEF OneFaultYet
  <2> QED BY <2>4, <2>5 DEF FInv
<1>2. ASSUME NEW n \in Name, EraseBak(n, ok) PROVE FInv'
  <2>1. faults' = 0 /\ crashes' = 0 => faults = 0 /\ crashes = 0 /\ todo' = Files(bak')
    BY <1>0, <1>2 DEF EraseBak, FInv, NoFaultYet, Files
  <2>2. /\ pc = "eraseBak" /\ pc' = "eraseBak" /\ UNCHANGED << rc, sav, before, crashes >>
        /\ faults' \in {faults, faults + 1}
    BY <1>2 DEF EraseBak
  <2>3. NoFaultYet'
    BY <2>1, <2>2 DEF FInv, NoFaultYet, Restoring, Writing, LoadPc, Files
  <2>4. OneFaultYet'
    BY <1>0, <2>2 DEF FInv, NoFaultYet, OneFaultYet
  <2> QED BY <2>3, <2>4 DEF FInv
<1>3. CASE SaveEnd
  <2>1. faults = 0 /\ crashes = 0 => rc = 0 /\ Files(bak) = {} /\ OfSave(save)
    BY <1>3 DEF SaveEnd, FInv, NoFaultYet, IInv, NewSaveAtEnd
  <2>2. save # 0
    BY <1>3 DEF SaveEnd, IInv, Types, SavePc
  <2>3. NoFaultYet'
    BY <1>0, <1>3, <2>1, <2>2
       DEF SaveEnd, NoFaultYet, Restoring, Writing, LoadPc, Files, Clean, OfSave, NoFile
  <2>4. OneFaultYet'
    BY <1>3 DEF SaveEnd, OneFaultYet
  <2> QED BY <2>3, <2>4 DEF FInv
<1> QED BY <1>1, <1>2, <1>3

\* EraseSave and RestoreSave: file by file back from the backup.
LEMMA RestoreFInv ==
  ASSUME TInv, FInv, NEW ok \in BOOLEAN,
         \/ EraseDone(ok) \/ RestoreDat(ok) \/ RestoreList(ok) \/ RestoreDone
         \/ \E call \in {"erase1", "erase2"} : EraseDat(call, ok)
         \/ \E n \in Name : EraseMap(n, ok) \/ RestoreMap(n, ok)
  PROVE  FInv'
<1> USE DEF At, Goto, Works, slotVars, Ended, Moves, Remains
<1>0. /\ faults \in Nat /\ crashes \in Nat
      /\ sav \in [Name -> Content] /\ bak \in [Name -> Content]
      /\ before \in [Name -> Content]
      /\ SAVE \in Name /\ SavName = Name \ {SAVE}
  BY FileAssumption DEF TInv, TypeOK, Name, SavName
<1>1. /\ pc \in Restoring /\ crashes' = crashes /\ before' = before /\ count' = count
      /\ (faults' = faults /\ (ok \/ RestoreDone)) \/ faults' = faults + 1
  BY DEF EraseDone, RestoreDat, RestoreList, RestoreDone, EraseDat, EraseMap, RestoreMap,
         Restoring
<1>2. NoFaultYet'
  BY <1>0, <1>1 DEF FInv, NoFaultYet
<1> SUFFICES ASSUME faults' = 1, crashes' = 0 PROVE OneFaultYet'
  BY <1>2 DEF FInv, OneFaultYet
<1>3. (ok \/ RestoreDone) /\ faults = 1 /\ crashes = 0
  BY <1>0, <1>1 DEF FInv, NoFaultYet
<1> USE <1>0, <1>1, <1>3
<1>4. CASE EraseDone(ok)
  <2>1. CASE pc = "erase1maps"
    <3>1. Counted /\ BackedUp /\ sav[SAVE] = NoFile /\ Files(sav) \cap SavName = {}
      BY <1>4, <2>1 DEF EraseDone, FInv, OneFaultYet
    <3>2. pc' = "restoreDat" /\ Counted' /\ \A n \in Name : Moved(n)'
      BY <1>4, <2>1, <3>1 DEF EraseDone, Counted, BackedUp, Moved, Clean, Files
    <3> QED BY <3>2 DEF OneFaultYet
  <2>2. CASE pc = "erase2maps"
    <3>1. pc' = "eraseBak" /\ sav' = before'
      BY <1>4, <2>2 DEF EraseDone, FInv, OneFaultYet, Gone
    <3> QED BY <3>1 DEF OneFaultYet
  <2> QED BY <1>4, <2>1, <2>2 DEF EraseDone
<1>5. CASE RestoreDat(ok)
  <2>1. Counted /\ \A n \in Name : Moved(n)
    BY <1>5 DEF RestoreDat, FInv, OneFaultYet
  <2>2. CASE bak[SAVE] # NoFile
    <3>1. pc' = "restoreList" /\ Counted' /\ Kept(SAVE)' /\ \A n \in SavName : Moved(n)'
      BY <1>5, <2>1, <2>2 DEF RestoreDat, Counted, Kept, Moved, Clean, Files
    <3> QED BY <3>1 DEF OneFaultYet
  <2>3. CASE bak[SAVE] = NoFile
    <3>1. pc' = "erase2" /\ \A n \in Name : Gone(n)'
      BY <1>5, <2>1, <2>3 DEF RestoreDat, Counted, Moved, Gone, Clean
    <3> QED BY <3>1 DEF OneFaultYet
  <2> QED BY <2>2, <2>3
<1>6. CASE RestoreList(ok)
  <2>1. Counted /\ Kept(SAVE) /\ \A n \in SavName : Moved(n)
    BY <1>6 DEF RestoreList, FInv, OneFaultYet
  <2>2. Files(bak) = Files(before) \cap SavName
    BY <2>1 DEF Files, Kept, Moved
  <2>3. /\ pc' = "restoreMaps" /\ todo' = Files(bak) /\ UNCHANGED << sav, bak >>
    BY <1>6, <2>1, <2>2 DEF RestoreList, Counted
  <2>4. Kept(SAVE)' /\ \A n \in SavName : IF n \in todo' THEN Moved(n)' ELSE Kept(n)'
    BY <2>1, <2>3 DEF Kept, Moved, Files
  <2>5. todo' \subseteq SavName
    BY <2>2, <2>3
  <2> QED BY <2>3, <2>4, <2>5 DEF OneFaultYet
<1>7. CASE RestoreDone
  <2>1. pc' = "eraseBak" /\ sav' = sav /\ \A n \in Name : sav[n] = before[n]
    BY <1>7 DEF RestoreDone, FInv, OneFaultYet, Kept
  <2> QED BY <2>1 DEF OneFaultYet
<1>8. ASSUME NEW call \in {"erase1", "erase2"}, EraseDat(call, ok) PROVE OneFaultYet'
  <2>1. CASE call = "erase1"
    <3>1. Counted /\ BackedUp /\ sav' = [sav EXCEPT ![SAVE] = NoFile] /\ bak' = bak
      BY <1>8, <2>1 DEF EraseDat, FInv, OneFaultYet
    <3>2. pc' = "erase1maps" /\ todo' = Files(sav) \cap SavName
      BY <1>8, <2>1 DEF EraseDat
    <3>3. Counted' /\ BackedUp' /\ sav'[SAVE] = NoFile
      BY <3>1 DEF Counted, BackedUp, Clean, Files
    <3>4. todo' = Files(sav') \cap SavName
      BY <3>1, <3>2 DEF Files
    <3> QED BY <3>2, <3>3, <3>4 DEF OneFaultYet, Files
  <2>2. CASE call = "erase2"
    <3>1. pc' = "erase2maps" /\ todo' = {} /\ \A n \in Name : Gone(n)'
      BY <1>8, <2>2 DEF EraseDat, FInv, OneFaultYet, Gone, Files
    <3> QED BY <3>1 DEF OneFaultYet
  <2> QED BY <2>1, <2>2
<1>9. ASSUME NEW n \in Name, EraseMap(n, ok) PROVE OneFaultYet'
  <2>1. /\ pc = "erase1maps" /\ pc' = pc /\ bak' = bak /\ n \in todo
        /\ sav' = [sav EXCEPT ![n] = NoFile] /\ todo' = todo \ {n}
    BY <1>9 DEF EraseMap, FInv, OneFaultYet
  <2>2. Counted /\ BackedUp /\ sav[SAVE] = NoFile /\ todo = Files(sav) \cap SavName
    BY <2>1 DEF FInv, OneFaultYet
  <2>3. Counted' /\ BackedUp' /\ sav'[SAVE] = NoFile
    BY <2>1, <2>2 DEF Counted, BackedUp, Clean, Files
  <2>4. todo' = Files(sav') \cap SavName
    BY <2>1, <2>2 DEF Files
  <2> QED BY <2>1, <2>3, <2>4 DEF OneFaultYet, Files
<1>10. ASSUME NEW n \in Name, RestoreMap(n, ok) PROVE OneFaultYet'
  <2>1. /\ pc = "restoreMaps" /\ pc' = pc /\ n \in todo /\ todo' = todo \ {n}
        /\ sav' = [sav EXCEPT ![n] = bak[n]] /\ bak' = [bak EXCEPT ![n] = NoFile]
    BY <1>10 DEF RestoreMap
  <2>2. /\ Kept(SAVE) /\ todo \subseteq SavName
        /\ \A x \in SavName : IF x \in todo THEN Moved(x) ELSE Kept(x)
    BY <2>1 DEF FInv, OneFaultYet
  <2>3. Kept(SAVE)' /\ \A x \in SavName : IF x \in todo' THEN Moved(x)' ELSE Kept(x)'
    BY <2>1, <2>2 DEF Kept, Moved
  <2> QED BY <2>1, <2>2, <2>3 DEF OneFaultYet
<1> QED BY <1>4, <1>5, <1>6, <1>7, <1>8, <1>9, <1>10

\* FInv is preserved.
LEMMA StepFInv ==
  ASSUME TInv, IInv, FInv, [Next]_vars
  PROVE  FInv'
<1>1. CASE UNCHANGED vars
  BY <1>1 DEF vars, slotVars, loadVars, FInv, NoFaultYet, OneFaultYet, At, Ended, Kept,
              Moved, Gone, Clean, Counted, BackedUp, Files
<1>2. CASE Next
  BY <1>2, PlayerFInv, BackupFInv, WritingFInv, EndFInv, RestoreFInv DEF Next, Move, Step
<1> QED BY <1>1, <1>2

\* A write can only be lost unnoticed by failing.
Unlost == faults = 0 => \A k \in 1 .. MaxSaves : lost[k] = {}

LEMMA UnlostKeeps ==
  ASSUME TInv, Unlost, [Next]_vars
  PROVE  Unlost'
<1> USE DEF Works, slotVars
<1>0. faults \in Nat /\ (lost' = lost /\ faults' \in {faults, faults + 1} => Unlost')
  BY FileAssumption DEF TInv, TypeOK, Unlost
<1>1. CASE UNCHANGED vars
  BY <1>0, <1>1 DEF vars
<1>2. CASE LoseWrite \/ \E n \in Name : CopyMapShort(n)
  <2>1. faults' = faults + 1
    BY <1>2 DEF LoseWrite, CopyMapShort
  <2> QED BY <1>0, <2>1 DEF Unlost
<1>3. ASSUME NEW ok \in BOOLEAN,
             \/ Open(ok) \/ WriteHead(ok) \/ MapSave(ok) \/ ClearDone(ok) \/ CopyDone
             \/ WriteTail(ok) \/ BackupDat(ok) \/ BackupList(ok) \/ BackupDone \/ SaveEnd
             \/ RestoreDone \/ RestoreDat(ok) \/ RestoreList(ok) \/ EraseDone(ok)
             \/ NewGame \/ SaveBegin \/ LoadBegin \/ LoadCopied \/ LoadGarbled \/ Crash
             \/ LoadErase(ok) \/ LoadAuto(ok) \/ LoadEnd(ok)
      PROVE  lost' = lost /\ faults' \in {faults, faults + 1}
  BY <1>3 DEF Open, WriteHead, MapSave, ClearDone, CopyDone, WriteTail, BackupDat,
              BackupList, BackupDone, SaveEnd, RestoreDone, RestoreDat, RestoreList,
              EraseDone, NewGame, SaveBegin, LoadBegin, LoadCopied, LoadGarbled, Crash,
              LoadErase, LoadAuto, LoadEnd
<1>4. ASSUME NEW ok \in BOOLEAN,
             \/ \E m \in Map : Visit(m) \/ LoadCopy(m, ok)
             \/ \E call \in {"erase1", "erase2"} : EraseDat(call, ok)
             \/ \E n \in Name : \/ BackupMap(n, ok) \/ ClearSav(n, ok) \/ CopyMap(n, ok)
                                \/ EraseBak(n, ok) \/ EraseMap(n, ok) \/ RestoreMap(n, ok)
      PROVE  lost' = lost /\ faults' \in {faults, faults + 1}
  BY <1>4 DEF Visit, LoadCopy, EraseDat, BackupMap, ClearSav, CopyMap, EraseBak, EraseMap,
              RestoreMap
<1> QED BY <1>0, <1>1, <1>2, <1>3, <1>4 DEF Next, Move, Step

\* What holds of every state that can be reached.
Known == TInv /\ IInv /\ FInv /\ Unlost

LEMMA KnownHolds == Spec => []Known
<1>1. Init => Known
  BY InitTInv, InitIInv, InitFInv DEF Known, Unlost, Init
<1>2. Known /\ [Next]_vars => Known'
  BY StepTInv, StepIInv, StepFInv, UnlostKeeps DEF Known
<1> QED BY <1>1, <1>2, PTL DEF Spec

(* When SaveSlot (loadsave.cc) returns 0 each file of the slot is of the   *)
(* new save, whatever failed before and during the save; and whole if      *)
(* nothing failed. It is not proved, and not true, that it is whole when   *)
(* something failed: see LoseWrite and CopyMapShort.                       *)
THEOREM ReportedSavesAreNew == Spec => []SuccessIsNewSave
<1>1. Known => SuccessIsNewSave
  <2> SUFFICES ASSUME Known, Ended, rc = 0
               PROVE  OfSave(save) /\ (faults = 0 => Whole(save))
    BY DEF SuccessIsNewSave
  <2>1. OfSave(save)
    BY DEF Known, IInv, NewSaveAtEnd
  <2>2. save \in 1 .. MaxSaves
    BY FileAssumption DEF Known, IInv, Types, Ended, At, SavePc
  <2> QED BY <2>1, <2>2 DEF Known, Unlost, Whole
<1> QED BY <1>1, KnownHolds, PTL

(* One file operation that fails in SaveSlot (loadsave.cc), whichever it   *)
(* is and whether it is noticed or not: when the backup is about to be     *)
(* dropped the slot holds the files of the new save, if 0 is returned, or  *)
(* exactly what it held before.                                            *)
THEOREM FaultAllOrNothing == Spec => []OneFaultAllOrNothing
<1>1. Known => OneFaultAllOrNothing
  BY FileAssumption
     DEF Known, TInv, TypeOK, IInv, NewSaveAtEnd, FInv, NoFaultYet, OneFaultYet,
         OneFaultAllOrNothing, Ended
<1> QED BY <1>1, KnownHolds, PTL

(* At no step of a save (loadsave.cc) that goes well so far is the only    *)
(* copy of the old save gone before the new one is whole: a file of it is  *)
(* in the slot or in the backup, whichever rename was the last.            *)
THEOREM OldSaveStays == Spec => []OldSaveOnDisk
<1>1. Known => OldSaveOnDisk
  <2> SUFFICES ASSUME Known, faults = 0, crashes = 0, pc \in SavePc, ~Whole(save),
                      NEW n \in Files(before)
               PROVE  before[n] \in {sav[n], bak[n]}
    BY DEF OldSaveOnDisk
  <2>1. n \in Name /\ (n = SAVE \/ n \in SavName)
    BY DEF Files, SavName
  <2>0. ~OfSave(save)
    BY FileAssumption DEF Known, Unlost, Whole, IInv, Types
  <2>2. pc # "eraseBak" /\ pc \notin Restoring
    BY <2>0 DEF Known, IInv, NewSaveAtEnd, Ended, At, FInv, NoFaultYet
  <2>3. CASE pc \in Writing
    BY <2>1, <2>3 DEF Known, FInv, NoFaultYet, BackedUp
  <2>4. CASE pc \in {"backupDat", "backupList", "backupMaps"}
    BY <2>1, <2>4 DEF Known, FInv, NoFaultYet, At, Kept, Moved
  <2> QED BY <2>2, <2>3, <2>4 DEF SavePc, Restoring, Writing
<1> QED BY <1>1, KnownHolds, PTL

-----------------------------------------------------------------------------
(* What a load reads, after up to two failures.                            *)

Saves    == 1 .. MaxSaves
Resting  == LoadPc \cup {"idle"}
Failures == faults + crashes
Undoing  == pc \in Restoring \/ (Ended /\ rc = -1)

\* Of the maps of save k, dir has those of k or none; all of those of the save
\* its SAVE.DAT is of, or none; just those.
Fits(dir, k) == k \in Saves => \A m \in list[k] : dir[m] \in {NoFile, k}
Unmixed(dir) == Fits(dir, dir[SAVE])
Sound(dir)   == dir[SAVE] # NoFile =>
                  dir[SAVE] \in Saves /\ \A m \in list[dir[SAVE]] : dir[m] = dir[SAVE]

\* No SAVE.DAT is of a save to come, nor of the one that is being written.
Past ==
  /\ sav[SAVE] <= save /\ bak[SAVE] <= save /\ before[SAVE] <= save
  /\ pc \in SavePc \ {"eraseBak"} =>
       sav[SAVE] # save /\ bak[SAVE] # save /\ before[SAVE] # save

\* SAVE.DAT is incomplete until it is closed, and no map is copied over it.
Incomplete ==
  /\ pc \in Writing \ {"open"} => sav[SAVE] = Partial
  /\ At("copy") => todo \subseteq SavName

\* Nothing is restored but after a failing operation.
Blamed == Undoing => faults # 0

\* The backup has as many map files as were counted.
AllCounted == count = Cardinality(Files(bak) \cap SavName)

\* As long as nothing fails, the slot is empty or holds one whole save.
AfterNone ==
  Failures = 0 =>
    /\ pc \in Resting => Sound(sav)
    /\ pc \in SavePc => Sound(before)
    /\ At("open") => \A n \in Name : sav[n] = NoFile

\* After one failure, and on what is left of it when the next save begins.
Left ==
  /\ Unmixed(sav)
  /\ sav[SAVE] = NoFile => Fits(sav, bak[SAVE]) /\ Fits(bak, bak[SAVE])
Again ==
  /\ At("backupDat") => sav = before
  /\ At("backupList") => /\ Unmixed(sav) /\ Fits(before, bak[SAVE])
                         /\ \A n \in SavName : sav[n] = before[n]
  /\ At("backupMaps") =>
       /\ Unmixed(sav) /\ Fits(before, bak[SAVE])
       /\ count = Cardinality(Files(before) \cap SavName)
       /\ todo \subseteq Files(before) \cap SavName
       /\ \A n \in Files(before) \cap SavName :
            IF n \in todo THEN sav[n] = before[n] ELSE bak[n] = before[n]
  /\ pc \in Writing /\ AllCounted => Fits(bak, bak[SAVE])
  /\ At("open") => Unmixed(sav)
AfterOne ==
  Failures = 1 =>
    /\ pc \in Resting \cup {"backupDat"} => Left
    /\ Undoing => Sound(before) /\ bak[SAVE] \in {NoFile, before[SAVE]}
    /\ Ended \/ At("erase1") => Unmixed(sav)
    /\ replaces => Again

\* While the slot is erased to be restored from a backup of which all was
\* counted: what is not in it will be gone from the slot.
ToRestore ==
  pc \in {"erase1", "erase1maps", "restoreDat"} /\ AllCounted /\ bak[SAVE] \in Saves =>
    \A m \in list[bak[SAVE]] :
       \/ bak[m] = bak[SAVE]
       \/ /\ bak[m] = NoFile
          /\ At("erase1") \/ sav[m] = NoFile \/ (At("erase1maps") /\ m \in todo)
Restored ==
  /\ At("restoreList") => bak[SAVE] = NoFile
  /\ At("restoreList") /\ AllCounted /\ sav[SAVE] \in Saves =>
       \A m \in list[sav[SAVE]] : bak[m] = sav[SAVE] \/ (bak[m] = NoFile /\ sav[m] = NoFile)
  /\ At("restoreMaps") => todo \subseteq SavName
  /\ At("restoreMaps") /\ sav[SAVE] \in Saves =>
       \A m \in list[sav[SAVE]] :
          IF m \in todo THEN bak[m] = sav[SAVE] ELSE sav[m] \in {NoFile, sav[SAVE]}
  /\ At("erase2maps") => sav[SAVE] = NoFile
AfterTwo ==
  Failures = 2 /\ replaces =>
    /\ pc \in Resting \/ Ended => Unmixed(sav)
    /\ ToRestore /\ Restored

\* What LoadSlot has read, and will.
Loading ==
  /\ pc \in LoadPc => loading = sav[SAVE] /\ loading \in Saves
  /\ At("loadErase") => got = {}
  /\ At("loadCopy") /\ SAVE \notin lost[loading] => todo \subseteq list[loading]
  /\ pc \in LoadPc /\ SAVE \notin lost[loading] /\ Failures <= (IF replaces THEN 2 ELSE 1) => got \subseteq {loading}

LInv  == Past /\ Incomplete /\ Blamed /\ AfterNone /\ AfterOne /\ AfterTwo /\ Loading


\* Nothing has been saved at first.
LEMMA InitLInv == Init => LInv
<1> SUFFICES ASSUME Init PROVE LInv
  OBVIOUS
<1>1. /\ SAVE \in Name /\ NoFile = 0 /\ pc = "idle" /\ Failures = 0
      /\ sav[SAVE] = NoFile /\ bak[SAVE] = NoFile /\ before[SAVE] = NoFile /\ save = 0
  BY DEF Init, Name, NoFile, Failures
<1>2. /\ pc \in Resting /\ pc \notin SavePc /\ pc \notin Restoring /\ pc \notin Writing
      /\ pc \notin LoadPc
      /\ ~At("open") /\ ~At("copy") /\ ~At("loadErase") /\ ~At("loadCopy") /\ ~Ended
  BY <1>1 DEF Resting, SavePc, Restoring, Writing, LoadPc, At, Ended
<1>3. Past /\ Incomplete /\ Blamed /\ Loading
  BY <1>1, <1>2 DEF Past, Incomplete, Blamed, Loading, Undoing
<1>4. AfterNone /\ AfterOne /\ AfterTwo
  BY <1>1, <1>2 DEF AfterNone, AfterOne, AfterTwo, Sound
<1> QED BY <1>3, <1>4 DEF LInv

\* The ranges of what the steps work on.
LEMMA SlotFacts ==
  ASSUME TInv
  PROVE  /\ faults \in Nat /\ crashes \in Nat /\ Failures \in Nat
         /\ sav \in [Name -> Content] /\ bak \in [Name -> Content]
         /\ before \in [Name -> Content] /\ list \in [Saves -> SUBSET Map]
         /\ SAVE \in Name /\ AUTO \in SavName /\ Map \subseteq SavName
         /\ SavName = Name \ {SAVE} /\ SavName \subseteq Name
         /\ NoFile \notin Saves /\ Partial \notin Saves /\ NoFile # Partial
         /\ Saves \subseteq Content /\ Content \subseteq Int
         /\ save \in Int /\ save <= MaxSaves /\ MaxSaves \in Nat
         /\ \A x \in Content : x = NoFile \/ x = Partial \/ x \in Saves
BY FileAssumption
   DEF TInv, TypeOK, Failures, Content, Saves, Name, SavName, NoFile, Partial

\* The steps that write no SAVE.DAT and no list: those of other saves stay.
LEMMA PastKeeps ==
  ASSUME Known, Known', Past, Incomplete, [Next]_vars
  PROVE  Past'
<1> USE DEF Moves, Remains, At, Goto, Works, Fail, Succeed, LoadFails, slotVars, loadVars, Ended
<1>0. /\ sav \in [Name -> Content] /\ bak \in [Name -> Content]
      /\ before \in [Name -> Content] /\ SAVE \in Name /\ Content \subseteq Int
      /\ SavName = Name \ {SAVE} /\ save \in Int /\ Partial \in Int /\ NoFile \in Int
      /\ Partial < 0 /\ NoFile = 0 /\ (pc \in SavePc => save > 0) /\ save >= 0
  BY SlotFacts DEF Known, Partial, NoFile, IInv, Types
<1>1. CASE UNCHANGED vars
  BY <1>1 DEF vars, Past
<1>2. CASE pc \in Resting /\ pc' \in Resting /\ UNCHANGED slotVars
  BY <1>2 DEF Past, Resting, LoadPc, SavePc
<1>3. CASE SaveBegin
  <2>1. sav[SAVE] \in Int /\ bak[SAVE] \in Int
    BY <1>0
  <2>2. save' = save + 1 /\ sav' = sav /\ bak' = bak /\ before' = sav
    BY <1>3 DEF SaveBegin
  <2> QED BY <1>0, <2>1, <2>2 DEF Past
<1>4. CASE Crash
  BY <1>0, <1>4 DEF Crash, Past, SavePc
<1>5. ASSUME NEW ok \in BOOLEAN,
             \/ BackupDat(ok) \/ BackupList(ok) \/ BackupDone
             \/ \E n \in Name : BackupMap(n, ok)
      PROVE  Past'
  BY <1>0, <1>5 DEF BackupDat, BackupList, BackupDone, BackupMap, Past, SavePc
<1>6. ASSUME NEW ok \in BOOLEAN,
             \/ Open(ok) \/ WriteHead(ok) \/ MapSave(ok) \/ ClearDone(ok) \/ CopyDone
             \/ WriteTail(ok) \/ SaveEnd \/ RestoreDone \/ LoseWrite
      PROVE  Past'
  BY <1>0, <1>6 DEF Open, WriteHead, MapSave, ClearDone, CopyDone, WriteTail, SaveEnd,
                    RestoreDone, LoseWrite, Past, SavePc
<1>7. ASSUME NEW ok \in BOOLEAN, NEW n \in Name,
             \/ ClearSav(n, ok) \/ CopyMap(n, ok) \/ CopyMapShort(n) \/ EraseBak(n, ok)
      PROVE  Past'
  BY <1>0, <1>7 DEF ClearSav, CopyMap, CopyMapShort, EraseBak, Past, Incomplete, SavePc
<1>8. ASSUME NEW ok \in BOOLEAN,
             \/ EraseDone(ok) \/ RestoreDat(ok) \/ RestoreList(ok)
             \/ \E call \in {"erase1", "erase2"} : EraseDat(call, ok)
      PROVE  Past'
  BY <1>0, <1>8 DEF EraseDone, RestoreDat, RestoreList, EraseDat, Past, SavePc
<1>9. ASSUME NEW ok \in BOOLEAN, NEW n \in Name, EraseMap(n, ok) \/ RestoreMap(n, ok)
      PROVE  Past'
  BY <1>0, <1>9 DEF EraseMap, RestoreMap, Past, SavePc
<1>10. ASSUME NEW ok \in BOOLEAN,
              \/ NewGame \/ LoadBegin \/ LoadCopied \/ LoadGarbled
              \/ \E m \in Map : Visit(m)
              \/ LoadErase(ok) \/ LoadAuto(ok) \/ LoadEnd(ok)
              \/ \E m \in Map : LoadCopy(m, ok)
       PROVE  Past'
  BY <1>2, <1>10 DEF NewGame, LoadBegin, LoadCopied, LoadGarbled, Visit, LoadErase, LoadAuto,
                     LoadEnd, LoadCopy, Resting, LoadPc
<1> QED BY <1>1, <1>3, <1>4, <1>5, <1>6, <1>7, <1>8, <1>9, <1>10 DEF Next, Move, Step

\* SAVE.DAT is opened, and closed; no map bears its name.
LEMMA IncompleteKeeps ==
  ASSUME Known, Incomplete, [Next]_vars
  PROVE  Incomplete'
<1> USE DEF At, Goto, Works, Fail, Succeed, LoadFails, slotVars, loadVars, Ended
<1>0. /\ sav \in [Name -> Content] /\ SAVE \in Name /\ SavName = Name \ {SAVE}
      /\ AUTO \in SavName /\ Map \subseteq SavName /\ maps \subseteq Map
  BY SlotFacts DEF Known, TInv, TypeOK
<1>1. CASE UNCHANGED vars
  BY <1>1 DEF vars, Incomplete
<1>2. CASE pc' \notin Writing
  BY <1>2 DEF Incomplete, Writing
<1>3. CASE pc' = "open"
  BY <1>3 DEF Incomplete
<1>4. ASSUME NEW ok \in BOOLEAN,
             \/ Open(ok) \/ WriteHead(ok) \/ MapSave(ok) \/ ClearDone(ok) \/ CopyDone
             \/ WriteTail(ok) \/ LoseWrite
             \/ \E n \in Name : ClearSav(n, ok) \/ CopyMap(n, ok) \/ CopyMapShort(n)
      PROVE  Incomplete'
  BY <1>0, <1>4 DEF Open, WriteHead, MapSave, ClearDone, CopyDone, WriteTail, ClearSav,
                    CopyMap, CopyMapShort, LoseWrite, Incomplete, Writing
<1>5. CASE BackupDone \/ SaveEnd \/ RestoreDone \/ NewGame \/ SaveBegin \/ LoadBegin
           \/ LoadCopied \/ LoadGarbled \/ Crash \/ \E m \in Map : Visit(m)
  BY <1>2, <1>3, <1>5 DEF BackupDone, SaveEnd, RestoreDone, NewGame, SaveBegin, LoadBegin,
                          LoadCopied, LoadGarbled, Crash, Visit, LoadPc, Writing
<1>6. ASSUME NEW ok \in BOOLEAN,
             \/ BackupDat(ok) \/ BackupList(ok) \/ RestoreDat(ok) \/ RestoreList(ok)
             \/ EraseDone(ok) \/ LoadErase(ok) \/ LoadAuto(ok) \/ LoadEnd(ok)
             \/ \E call \in {"erase1", "erase2"} : EraseDat(call, ok)
             \/ \E n \in Name : \/ BackupMap(n, ok) \/ EraseBak(n, ok) \/ EraseMap(n, ok)
                                \/ RestoreMap(n, ok)
             \/ \E m \in Map : LoadCopy(m, ok)
      PROVE  Incomplete'
  BY <1>2, <1>3, <1>6
     DEF BackupDat, BackupList, RestoreDat, RestoreList, EraseDone, LoadErase, LoadAuto,
         LoadEnd, EraseDat, BackupMap, EraseBak, EraseMap, RestoreMap, LoadCopy, Writing
<1> QED BY <1>1, <1>4, <1>5, <1>6 DEF Next, Move, Step


\* RestoreSave and EraseSave are only called after an operation failed.
LEMMA BlamedKeeps ==
  ASSUME Known, Blamed, [Next]_vars
  PROVE  Blamed'
<1> USE DEF At, Goto, Works, Fail, Succeed, LoadFails, slotVars, loadVars, Ended
<1>0. faults \in Nat /\ (pc \in Restoring => rc = -1)
  BY SlotFacts DEF Known, IInv, FailureKnown
<1>1. CASE UNCHANGED vars
  BY <1>1 DEF vars, Blamed, Undoing
<1>2. CASE pc' \notin Restoring \cup {"eraseBak"}
  BY <1>2 DEF Blamed, Undoing
<1>3. ASSUME pc \in Restoring, faults' = faults \/ faults' = faults + 1 PROVE Blamed'
  BY <1>0, <1>3 DEF Blamed, Undoing
<1>4. ASSUME NEW ok \in BOOLEAN,
             \/ Open(ok) \/ WriteHead(ok) \/ MapSave(ok) \/ ClearDone(ok) \/ CopyDone
             \/ WriteTail(ok) \/ LoseWrite
             \/ \E n \in Name : \/ ClearSav(n, ok) \/ CopyMap(n, ok) \/ CopyMapShort(n)
                                \/ EraseBak(n, ok)
      PROVE  Blamed'
  BY <1>0, <1>4 DEF Open, WriteHead, MapSave, ClearDone, CopyDone, WriteTail, ClearSav,
                    CopyMap, CopyMapShort, LoseWrite, EraseBak, Blamed, Undoing, Restoring
<1>5. CASE BackupDone \/ SaveEnd \/ NewGame \/ SaveBegin \/ LoadBegin \/ LoadCopied
           \/ LoadGarbled \/ Crash \/ \E m \in Map : Visit(m)
  BY <1>2, <1>5 DEF BackupDone, SaveEnd, NewGame, SaveBegin, LoadBegin, LoadCopied,
                    LoadGarbled, Crash, Visit, LoadPc, Restoring
<1>6. ASSUME NEW ok \in BOOLEAN,
             \/ BackupDat(ok) \/ BackupList(ok) \/ LoadErase(ok) \/ LoadAuto(ok)
             \/ LoadEnd(ok) \/ (\E n \in Name : BackupMap(n, ok))
             \/ \E m \in Map : LoadCopy(m, ok)
      PROVE  Blamed'
  BY <1>2, <1>6 DEF BackupDat, BackupList, LoadErase, LoadAuto, LoadEnd, BackupMap,
                    LoadCopy, Restoring
<1>7. ASSUME NEW ok \in BOOLEAN,
             \/ RestoreDat(ok) \/ RestoreList(ok) \/ EraseDone(ok) \/ RestoreDone
             \/ \E call \in {"erase1", "erase2"} : EraseDat(call, ok)
             \/ \E n \in Name : EraseMap(n, ok) \/ RestoreMap(n, ok)
      PROVE  Blamed'
  BY <1>3, <1>7 DEF RestoreDat, RestoreList, EraseDone, RestoreDone, EraseDat, EraseMap,
                    RestoreMap, Restoring
<1> QED BY <1>1, <1>4, <1>5, <1>6, <1>7 DEF Next, Move, Step

\* Only the list of the save in progress is ever written.
LEMMA ListStays ==
  ASSUME Known, [Next]_vars, NEW k \in Saves, pc = "mapSave" => k # save
  PROVE  list'[k] = list[k]
<1> USE DEF At, Goto, slotVars
<1>0. list \in [Saves -> SUBSET Map]
  BY SlotFacts DEF Known
<1>1. CASE UNCHANGED vars
  BY <1>1 DEF vars
<1>2. ASSUME NEW ok \in BOOLEAN, MapSave(ok) PROVE list'[k] = list[k]
  BY <1>0, <1>2 DEF MapSave
<1>3. CASE list' = list
  BY <1>3
<1>4. ASSUME NEW ok \in BOOLEAN,
             \/ Open(ok) \/ WriteHead(ok) \/ ClearDone(ok) \/ CopyDone \/ WriteTail(ok)
             \/ BackupDat(ok) \/ BackupList(ok) \/ BackupDone \/ SaveEnd \/ RestoreDone
             \/ RestoreDat(ok) \/ RestoreList(ok) \/ EraseDone(ok)
             \/ NewGame \/ SaveBegin \/ LoadBegin \/ LoadCopied \/ LoadGarbled \/ LoseWrite
             \/ Crash
             \/ LoadErase(ok) \/ LoadAuto(ok) \/ LoadEnd(ok)
      PROVE  list' = list
  BY <1>4 DEF Open, WriteHead, ClearDone, CopyDone, WriteTail, BackupDat, BackupList,
              BackupDone, SaveEnd, RestoreDone, RestoreDat, RestoreList, EraseDone,
              NewGame, SaveBegin, LoadBegin, LoadCopied, LoadGarbled, LoseWrite,
              Crash, LoadErase, LoadAuto, LoadEnd
<1>5. ASSUME NEW ok \in BOOLEAN,
             \/ \E m \in Map : Visit(m) \/ LoadCopy(m, ok)
             \/ \E call \in {"erase1", "erase2"} : EraseDat(call, ok)
             \/ \E n \in Name : \/ BackupMap(n, ok) \/ ClearSav(n, ok) \/ CopyMap(n, ok)
                                \/ EraseBak(n, ok) \/ EraseMap(n, ok) \/ RestoreMap(n, ok)
                                \/ CopyMapShort(n)
      PROVE  list' = list
  BY <1>5 DEF Visit, LoadCopy, EraseDat, BackupMap, ClearSav, CopyMap, EraseBak, EraseMap,
              RestoreMap, CopyMapShort
<1> QED BY <1>1, <1>2, <1>3, <1>4, <1>5 DEF Next, Move, Step

\* A step has at most one failure.
LEMMA OneAtATime ==
  ASSUME Known, [Next]_vars
  PROVE  /\ Failures' = Failures \/ Failures' = Failures + 1
         /\ faults' = faults \/ faults' = faults + 1
         /\ crashes' = crashes \/ (Crash /\ faults' = faults)
<1> USE DEF Works, slotVars, loadVars
<1>0. faults \in Nat /\ crashes \in Nat
  BY SlotFacts DEF Known
<1>1. CASE UNCHANGED vars
  BY <1>1 DEF vars, Failures
<1>2. CASE Crash
  BY <1>0, <1>2 DEF Crash, Failures
<1>3. CASE crashes' = crashes /\ (faults' = faults \/ faults' = faults + 1)
  BY <1>0, <1>3 DEF Failures
<1>4. ASSUME NEW ok \in BOOLEAN,
             \/ Open(ok) \/ WriteHead(ok) \/ MapSave(ok) \/ ClearDone(ok) \/ CopyDone
             \/ WriteTail(ok) \/ BackupDat(ok) \/ BackupList(ok) \/ BackupDone \/ SaveEnd
             \/ RestoreDone \/ RestoreDat(ok) \/ RestoreList(ok) \/ EraseDone(ok)
             \/ NewGame \/ SaveBegin \/ LoadBegin \/ LoadCopied \/ LoadGarbled \/ LoseWrite
             \/ LoadErase(ok) \/ LoadAuto(ok) \/ LoadEnd(ok)
      PROVE  crashes' = crashes /\ (faults' = faults \/ faults' = faults + 1)
  BY <1>4 DEF Open, WriteHead, MapSave, ClearDone, CopyDone, WriteTail, BackupDat,
              BackupList, BackupDone, SaveEnd, RestoreDone, RestoreDat, RestoreList,
              EraseDone, NewGame, SaveBegin, LoadBegin, LoadCopied, LoadGarbled, LoseWrite,
              LoadErase, LoadAuto, LoadEnd
<1>5. ASSUME NEW ok \in BOOLEAN,
             \/ \E m \in Map : Visit(m) \/ LoadCopy(m, ok)
             \/ \E call \in {"erase1", "erase2"} : EraseDat(call, ok)
             \/ \E n \in Name : \/ BackupMap(n, ok) \/ ClearSav(n, ok) \/ CopyMap(n, ok)
                                \/ EraseBak(n, ok) \/ EraseMap(n, ok) \/ RestoreMap(n, ok)
                                \/ CopyMapShort(n)
      PROVE  crashes' = crashes /\ (faults' = faults \/ faults' = faults + 1)
  BY <1>5 DEF Visit, LoadCopy, EraseDat, BackupMap, ClearSav, CopyMap, EraseBak, EraseMap,
              RestoreMap, CopyMapShort
<1> QED BY <1>1, <1>2, <1>3, <1>4, <1>5 DEF Next, Move, Step


\* The saves that the slot, its backup and the slot before are of stay as they
\* are listed.
LEMMA ListsOfSlot ==
  ASSUME Known, Past, [Next]_vars
  PROVE  \A k \in Saves : k \in {sav[SAVE], bak[SAVE], before[SAVE]} => list'[k] = list[k]
<1> SUFFICES ASSUME NEW k \in Saves, k \in {sav[SAVE], bak[SAVE], before[SAVE]}
             PROVE  list'[k] = list[k]
  OBVIOUS
<1>1. pc = "mapSave" => k # save
  BY DEF Past, SavePc
<1> QED BY <1>1, ListStays

\* Two numbers add up to none.
LEMMA NoneOfBoth ==
  ASSUME NEW a \in Nat, NEW b \in Nat, a + b = 0
  PROVE  a = 0 /\ b = 0
OBVIOUS

\* Before anything fails, a save that ends is whole.
LEMMA AfterNoneKeeps ==
  ASSUME Known, Known', Past, AfterNone, [Next]_vars
  PROVE  AfterNone'
<1> USE DEF At, Goto, slotVars, loadVars
<1> SUFFICES ASSUME Failures' = 0 PROVE AfterNone'
  BY DEF AfterNone
<1>0. /\ Failures = 0 /\ faults = 0 /\ crashes = 0 /\ faults' = 0 /\ crashes' = 0
      /\ faults \in Nat /\ crashes \in Nat /\ ~Crash
  <2>1. /\ faults \in Nat /\ crashes \in Nat /\ faults' \in Nat /\ crashes' \in Nat
        /\ Failures \in Nat
    BY SlotFacts DEF Known, TInv, TypeOK
  <2>4. Failures' = faults' + crashes'
    BY DEF Failures
  <2>5. faults' + crashes' = 0
    BY <2>4
  <2>2. faults' = 0 /\ crashes' = 0
    BY <2>1, <2>5, NoneOfBoth
  <2>3. Failures = 0 /\ ~Crash
    BY <2>1, <2>2, OneAtATime DEF Crash
  <2> QED BY <2>1, <2>2, <2>3 DEF Failures
<1>1. /\ pc \in Resting => Sound(sav)
      /\ pc \in SavePc => Sound(before)
      /\ At("open") => \A n \in Name : sav[n] = NoFile
      /\ (Sound(sav) /\ sav' = sav) => Sound(sav)'
      /\ (Sound(before) /\ before' = before) => Sound(before)'
      /\ (Sound(sav) /\ before' = sav) => Sound(before)'
  BY <1>0, ListsOfSlot DEF AfterNone, Sound
<1>2. CASE UNCHANGED vars
  BY <1>1, <1>2 DEF vars, AfterNone
<1>3. CASE pc \in Resting /\ pc' \in Resting /\ sav' = sav
  BY <1>1, <1>3 DEF AfterNone, Resting, LoadPc, SavePc
<1>4. CASE pc \in SavePc /\ pc' \in SavePc \ {"open"} /\ before' = before
  BY <1>1, <1>4 DEF AfterNone, Resting, LoadPc, SavePc
<1>5. CASE SaveBegin
  BY <1>1, <1>5 DEF AfterNone, SaveBegin, Resting, LoadPc, SavePc
<1>6. CASE SaveEnd
  <2>1. OfSave(save) /\ save \in Saves /\ sav' = sav /\ save' = save /\ list' = list
        /\ pc' = "idle"
    BY <1>0, <1>6 DEF SaveEnd, Known, FInv, NoFaultYet, IInv, NewSaveAtEnd, Ended,
                      Types, SavePc, Saves
  <2>2. Sound(sav)'
    BY <2>1 DEF OfSave, Sound
  <2> QED BY <2>1, <2>2 DEF AfterNone, SavePc
<1>7. CASE BackupDone
  <2>1. /\ \A n \in Name : sav[n] = NoFile
        /\ pc' = "open" /\ sav' = sav /\ before' = before /\ pc \in SavePc
    BY <1>0, <1>7, SlotFacts DEF BackupDone, Known, FInv, NoFaultYet, Moved, SavePc
  <2> QED BY <1>1, <2>1 DEF AfterNone, Resting, LoadPc
<1>8. ASSUME NEW ok \in BOOLEAN,
             BackupDat(ok) \/ BackupList(ok) \/ \E n \in Name : BackupMap(n, ok)
      PROVE  AfterNone'
  <2>1. CASE BackupDat(ok)
    <3>1. ok /\ bak[SAVE] = NoFile
      BY <1>0, <2>1, SlotFacts DEF BackupDat, Works, Known, FInv, NoFaultYet, Kept
    <3> QED BY <1>4, <2>1, <3>1 DEF BackupDat, Refuses, SavePc
  <2>2. CASE BackupList(ok)
    BY <1>0, <1>4, <2>2 DEF BackupList, Works, SavePc
  <2>3. ASSUME NEW n \in Name, BackupMap(n, ok) PROVE AfterNone'
    <3>1. ok /\ bak[n] = NoFile
      BY <1>0, <2>3 DEF BackupMap, Works, Known, FInv, NoFaultYet, Kept
    <3> QED BY <1>4, <2>3, <3>1 DEF BackupMap, Refuses, SavePc
  <2> QED BY <1>8, <2>1, <2>2, <2>3
<1>9. ASSUME NEW ok \in BOOLEAN,
             \/ Open(ok) \/ WriteHead(ok) \/ MapSave(ok) \/ ClearDone(ok) \/ CopyDone
             \/ WriteTail(ok) \/ RestoreDone \/ LoseWrite
             \/ RestoreDat(ok) \/ RestoreList(ok) \/ EraseDone(ok)
             \/ \E call \in {"erase1", "erase2"} : EraseDat(call, ok)
             \/ \E n \in Name : \/ ClearSav(n, ok) \/ CopyMap(n, ok) \/ CopyMapShort(n)
                                \/ EraseBak(n, ok) \/ EraseMap(n, ok) \/ RestoreMap(n, ok)
      PROVE  AfterNone'
  BY <1>4, <1>9 DEF Open, WriteHead, ClearDone, CopyDone, WriteTail, MapSave, RestoreDone,
              RestoreDat, RestoreList, EraseDone, EraseDat, ClearSav, CopyMap, CopyMapShort, LoseWrite, EraseBak,
              EraseMap, RestoreMap, SavePc, Succeed, Fail
<1>10. ASSUME NEW ok \in BOOLEAN,
              \/ NewGame \/ LoadBegin \/ LoadCopied \/ LoadGarbled \/ LoadErase(ok)
              \/ LoadAuto(ok) \/ LoadEnd(ok) \/ \E m \in Map : Visit(m) \/ LoadCopy(m, ok)
       PROVE  AfterNone'
  BY <1>3, <1>10 DEF NewGame, LoadBegin, LoadCopied, LoadGarbled, LoadErase, LoadAuto, LoadEnd, Visit,
                     LoadCopy, LoadFails, Resting, LoadPc
<1> QED BY <1>0, <1>2, <1>5, <1>6, <1>7, <1>8, <1>9, <1>10 DEF Next, Move, Step


\* Within the failures that LoadGivesOneSave allows.
Allowed == Failures <= (IF replaces THEN 2 ELSE 1)

\* While a game is loaded the slot stays as it is, of one save.
LEMMA SlotUnmixed ==
  ASSUME Known, LInv, pc \in Resting, Allowed
  PROVE  Unmixed(sav)
<1>1. Failures \in Nat /\ (Sound(sav) => Unmixed(sav))
  BY SlotFacts DEF Known, Sound, Unmixed, Fits
<1>2. Failures = 0 \/ Failures = 1 \/ (Failures = 2 /\ replaces)
  BY <1>1 DEF Allowed
<1> QED BY <1>1, <1>2 DEF LInv, AfterNone, AfterOne, AfterTwo, Left

\* LoadSlot reads what SAVE.DAT lists, of the save that it is of.
LEMMA LoadingKeeps ==
  ASSUME Known, Known', LInv, [Next]_vars
  PROVE  Loading'
<1> USE DEF At, Goto, LoadFails, slotVars, loadVars
<1>0. /\ Loading /\ (Allowed' => Allowed)
      /\ sav \in [Name -> Content] /\ SAVE \in Name
      /\ \A x \in Content : x = NoFile \/ x = Partial \/ x \in Saves
  <2>1. Failures \in Nat /\ replaces' = replaces
    BY SlotFacts DEF Known, Next, vars
  <2>2. Allowed' => Allowed
    BY <2>1, OneAtATime DEF Allowed
  <2> QED BY <2>2, SlotFacts DEF LInv, Known
<1>1. CASE pc' \notin LoadPc
  BY <1>1 DEF Loading, LoadPc
<1>2. CASE pc' = pc /\ UNCHANGED << sav, loadVars, todo, list, lost >>
  BY <1>0, <1>2 DEF Loading, Allowed
<1>3. CASE UNCHANGED vars
  BY <1>2, <1>3 DEF vars
<1>4. CASE LoadBegin
  BY <1>0, <1>1, <1>4 DEF LoadBegin, Loading, LoadPc
<1>5. ASSUME NEW ok \in BOOLEAN, LoadErase(ok) PROVE Loading'
  BY <1>0, <1>1, <1>5 DEF LoadErase, Loading, LoadPc, Allowed
<1>6. ASSUME NEW ok \in BOOLEAN, NEW m \in Map, LoadCopy(m, ok) PROVE Loading'
  <2>1. CASE pc' = "loadCopy"
    <3>1. /\ pc = "loadCopy" /\ loading = sav[SAVE] /\ loading \in Saves
          /\ sav[m] # NoFile /\ got' = got \cup {sav[m]}
          /\ UNCHANGED << sav, list, lost, loading >>
          /\ SAVE \notin lost[loading] => m \in list[loading] /\ todo' \subseteq list[loading]
      BY <1>0, <1>6, <2>1 DEF LoadCopy, Loading, LoadPc
    <3>2. Allowed /\ SAVE \notin lost[loading] => sav[m] = loading /\ got \subseteq {loading}
      BY <1>0, <3>1, SlotUnmixed DEF Unmixed, Fits, Resting, LoadPc, Loading, Allowed
    <3>3. Allowed' /\ SAVE \notin lost'[loading'] => got' \subseteq {loading'}
      BY <1>0, <3>1, <3>2
    <3> QED BY <2>1, <3>1, <3>3 DEF Loading, Allowed
  <2> QED BY <1>1, <1>6, <2>1 DEF LoadCopy, LoadPc
<1>7. ASSUME NEW ok \in BOOLEAN, LoadCopied \/ LoadAuto(ok) \/ LoadEnd(ok) PROVE Loading'
  BY <1>0, <1>1, <1>7 DEF LoadCopied, LoadAuto, LoadEnd, Loading, LoadPc, Allowed
<1>8. ASSUME NEW ok \in BOOLEAN,
             \/ NewGame \/ SaveBegin \/ Crash \/ BackupDone \/ SaveEnd \/ RestoreDone
             \/ (\E m \in Map : Visit(m))
             \/ BackupDat(ok) \/ BackupList(ok) \/ RestoreDat(ok) \/ RestoreList(ok)
             \/ EraseDone(ok) \/ Open(ok) \/ WriteHead(ok) \/ MapSave(ok) \/ ClearDone(ok)
             \/ CopyDone \/ WriteTail(ok) \/ LoadGarbled \/ LoseWrite
      PROVE  Loading'
  BY <1>1, <1>8 DEF NewGame, SaveBegin, Crash, BackupDone, SaveEnd, RestoreDone, Visit,
                    BackupDat, BackupList, RestoreDat, RestoreList, EraseDone, Open,
                    WriteHead, MapSave, ClearDone, CopyDone, WriteTail, LoadGarbled, LoseWrite,
                    Succeed, Fail, LoadPc
<1>9. ASSUME NEW ok \in BOOLEAN,
             \/ \E call \in {"erase1", "erase2"} : EraseDat(call, ok)
             \/ \E n \in Name : \/ BackupMap(n, ok) \/ ClearSav(n, ok) \/ CopyMap(n, ok)
                                \/ EraseBak(n, ok) \/ EraseMap(n, ok) \/ RestoreMap(n, ok)
                                \/ CopyMapShort(n)
      PROVE  Loading'
  BY <1>1, <1>9 DEF EraseDat, BackupMap, ClearSav, CopyMap, EraseBak, EraseMap,
                    RestoreMap, CopyMapShort, Succeed, Fail, LoadPc
<1> QED BY <1>3, <1>4, <1>5, <1>6, <1>7, <1>8, <1>9 DEF Next, Move, Step


\* What the slot and the backup are of is unmixed as it was, since their lists stay.
LEMMA StillFits ==
  ASSUME Known, Past, [Next]_vars
  PROVE  /\ UNCHANGED << sav, bak >> => (Left => Left')
         /\ UNCHANGED sav => (Unmixed(sav) => Unmixed(sav)')
         /\ UNCHANGED sav => (Sound(sav) => Sound(sav)')
         /\ UNCHANGED before => (Sound(before) => Sound(before)')
         /\ UNCHANGED bak => (Fits(bak, bak[SAVE]) => Fits(bak, bak[SAVE])')
         /\ UNCHANGED << before, bak >> => (Fits(before, bak[SAVE]) => Fits(before, bak[SAVE])')
BY ListsOfSlot DEF Left, Unmixed, Sound, Fits

\* As long as nothing failed, the slot at rest is as after a failure.
LEMMA NoneIsLeft ==
  ASSUME Known, LInv, Failures = 0, pc \in Resting
  PROVE  Left
<1>1. /\ faults \in Nat /\ crashes \in Nat /\ SAVE \in Name /\ Map \subseteq SavName
      /\ list \in [Saves -> SUBSET Map] /\ SavName \subseteq Name /\ NoFile \notin Saves
  BY SlotFacts DEF Known
<1>2. faults = 0 /\ crashes = 0
  BY <1>1, NoneOfBoth DEF Failures
<1>3. Sound(sav) /\ bak[SAVE] = NoFile
  BY <1>1, <1>2 DEF LInv, AfterNone, Known, FInv, NoFaultYet, Resting
<1> QED BY <1>1, <1>3 DEF Left, Unmixed, Fits, Sound

\* Between saves, and when one begins.
LEMMA RestKeeps ==
  ASSUME Known, LInv, [Next]_vars, pc \in Resting,
         pc' \in Resting \/ (pc' = "backupDat" /\ before' = sav),
         UNCHANGED << sav, bak, replaces >>
  PROVE  AfterOne' /\ AfterTwo'
<1>0. /\ Failures \in Nat /\ (Failures' = Failures \/ Failures' = Failures + 1)
      /\ Left => Left' /\ Unmixed(sav)
  BY SlotFacts, OneAtATime, StillFits DEF Known, LInv, Left
<1>1. ~Undoing' /\ ~Ended' /\ ~At("erase1")' /\ pc' \notin Writing
      /\ pc' \notin {"backupList", "backupMaps", "erase1", "erase1maps", "restoreDat",
                     "restoreList", "restoreMaps", "erase2maps"}
  BY DEF Undoing, Ended, At, Resting, LoadPc, Writing, Restoring
<1>2. Again'
  BY <1>1 DEF Again, At, Writing, Resting, LoadPc
<1>3. Failures' = 1 => Left'
  BY <1>0, NoneIsLeft DEF LInv, AfterOne
<1>4. Failures' = 2 /\ replaces => Unmixed(sav)'
  <2>1. Failures' = 2 /\ replaces => Unmixed(sav)
    BY <1>0, SlotUnmixed DEF Allowed
  <2> QED BY <2>1, StillFits DEF LInv
<1> QED BY <1>1, <1>2, <1>3, <1>4 DEF AfterOne, AfterTwo, ToRestore, Restored, At


\* In the middle of the first save that fails, what is in the slot and in the
\* backup is of one save.
LEMMA NoneIsLeftMidway ==
  ASSUME Known, LInv, Failures = 0, pc \in SavePc
  PROVE  Left /\ pc \notin Restoring
<1> USE DEF At
<1>1. /\ faults \in Nat /\ crashes \in Nat /\ SAVE \in Name /\ Map \subseteq SavName
      /\ list \in [Saves -> SUBSET Map] /\ SavName = Name \ {SAVE}
      /\ NoFile \notin Saves /\ Partial \notin Saves /\ NoFile # Partial
  BY SlotFacts DEF Known
<1>2. faults = 0 /\ crashes = 0
  BY <1>1, NoneOfBoth DEF Failures
<1>3. NoFaultYet /\ Sound(before) /\ NewSaveAtEnd /\ Incomplete /\ save \in Saves
  BY <1>2 DEF LInv, AfterNone, Known, FInv, IInv, Types, Saves
<1>4. pc \notin Restoring
  BY <1>2, <1>3 DEF NoFaultYet
<1>5. CASE pc \in {"backupDat", "backupList", "backupMaps"}
  <2>1. \A n \in Name : Kept(n) \/ Moved(n)
    BY <1>1, <1>2, <1>3, <1>5 DEF NoFaultYet
  <2>2. /\ sav[SAVE] # NoFile => bak[SAVE] = NoFile /\ sav[SAVE] = before[SAVE]
        /\ bak[SAVE] # NoFile => bak[SAVE] = before[SAVE]
    BY <1>1, <2>1 DEF Kept, Moved
  <2>3. ASSUME NEW k \in Saves, k = before[SAVE], NEW m \in list[k]
        PROVE  sav[m] \in {NoFile, k} /\ bak[m] \in {NoFile, k}
    BY <1>1, <1>3, <2>1, <2>3 DEF Sound, Kept, Moved
  <2> QED BY <1>1, <1>4, <2>2, <2>3 DEF Left, Unmixed, Fits
<1>6. CASE pc \in Writing
  <2>1. BackedUp /\ sav[SAVE] \in {NoFile, Partial}
    BY <1>1, <1>2, <1>3, <1>6 DEF NoFaultYet, LInv, AfterNone, Incomplete
  <2>2. ASSUME sav[SAVE] = NoFile PROVE Fits(sav, bak[SAVE]) /\ Fits(bak, bak[SAVE])
    <3>1. pc = "open"
      BY <1>1, <1>3, <1>6, <2>2 DEF Incomplete
    <3>2. \A n \in Name : sav[n] = NoFile
      BY <1>2, <3>1 DEF LInv, AfterNone
    <3>3. \A k \in Saves : k = bak[SAVE] => \A m \in list[k] : bak[m] = k
      BY <1>1, <1>3, <2>1 DEF Sound, BackedUp
    <3> QED BY <1>1, <3>2, <3>3 DEF Fits
  <2> QED BY <1>1, <1>4, <2>1, <2>2 DEF Left, Unmixed, Fits
<1>7. CASE Ended
  <2>1. OfSave(save) /\ save # NoFile
    BY <1>1, <1>2, <1>3, <1>7 DEF NoFaultYet, NewSaveAtEnd, Ended
  <2> QED BY <1>4, <2>1 DEF Left, Unmixed, Fits, OfSave
<1> QED BY <1>4, <1>5, <1>6, <1>7 DEF SavePc, Writing, Restoring, Ended


\* A save that is being undone after one failure is the one that failed.
LEMMA OneIsBlamed ==
  ASSUME Known, LInv, Failures = 1, Undoing
  PROVE  /\ faults = 1 /\ crashes = 0 /\ Sound(before) /\ bak[SAVE] \in {NoFile, before[SAVE]}
         /\ OneFaultYet /\ (Ended => sav = before)
<1>1. faults \in Nat /\ crashes \in Nat /\ faults # 0
  BY SlotFacts DEF Known, LInv, Blamed
<1>2. faults = 1 /\ crashes = 0
  BY <1>1 DEF Failures
<1>3. Ended => rc = -1
  BY DEF Undoing, Ended, At, Restoring
<1> QED BY <1>2, <1>3 DEF LInv, AfterOne, Known, FInv, OneFaultYet

\* After one failure the slot is unmixed at every step, where rename replaces files.
LEMMA OneIsUnmixed ==
  ASSUME Known, LInv, Failures = 1, replaces
  PROVE  Unmixed(sav)
<1> USE DEF At
<1>1. /\ SAVE \in Name /\ Map \subseteq SavName /\ list \in [Saves -> SUBSET Map]
      /\ SavName = Name \ {SAVE} /\ NoFile \notin Saves /\ Partial \notin Saves
  BY SlotFacts DEF Known
<1>2. CASE pc \in Resting \cup {"backupDat"} \/ Ended \/ At("erase1")
  BY <1>2 DEF LInv, AfterOne, Left
<1>3. CASE pc \in {"backupList", "backupMaps"} \cup Writing
  <2>1. pc \in {"open", "backupList", "backupMaps"} => Unmixed(sav)
    BY DEF LInv, AfterOne, Again
  <2>2. pc \in Writing \ {"open"} => sav[SAVE] \notin Saves
    BY <1>1 DEF LInv, Incomplete
  <2> QED BY <1>3, <2>1, <2>2 DEF Unmixed, Fits
<1>4. CASE pc \in Restoring \ {"erase1"}
  <2>1. OneFaultYet /\ faults = 1 /\ crashes = 0 /\ Sound(before)
    BY <1>4, OneIsBlamed DEF Undoing
  <2>2. CASE pc = "erase1maps"
    BY <1>1, <2>1, <2>2 DEF OneFaultYet, Unmixed, Fits
  <2>3. CASE pc \in {"restoreDat", "erase2", "erase2maps"}
    BY <1>1, <2>1, <2>3 DEF OneFaultYet, Moved, Gone, Unmixed, Fits
  <2>4. CASE pc \in {"restoreList", "restoreMaps"}
    <3>1. sav[SAVE] = before[SAVE] /\ \A n \in SavName : sav[n] \in {NoFile, before[n]}
      BY <2>1, <2>4 DEF OneFaultYet, Kept, Moved
    <3>2. ASSUME NEW k \in Saves, k = before[SAVE], NEW m \in list[k]
          PROVE  sav[m] \in {NoFile, k}
      BY <1>1, <2>1, <3>1, <3>2 DEF Sound
    <3> QED BY <3>1, <3>2 DEF Unmixed, Fits
  <2> QED BY <1>4, <2>2, <2>3, <2>4 DEF Restoring
<1>5. pc \in SavePc \cup LoadPc \cup {"idle"}
  BY DEF Known, TInv, TypeOK
<1> QED BY <1>2, <1>3, <1>4, <1>5 DEF SavePc, Writing, Restoring, Ended, Resting

\* The program dies: whatever it was doing, one SAVE.DAT has no maps of another save.
LEMMA CrashKeeps ==
  ASSUME Known, LInv, [Next]_vars, Crash, UNCHANGED replaces
  PROVE  AfterOne' /\ AfterTwo'
<1> USE DEF At
<1>0. /\ Failures \in Nat /\ Failures' = Failures + 1
      /\ sav \in [Name -> Content] /\ SAVE \in Name /\ SavName = Name \ {SAVE}
      /\ NoFile # Partial /\ Partial \notin Saves
      /\ pc \in SavePc \/ pc \in Resting
  <2>1. faults \in Nat /\ crashes \in Nat /\ faults' = faults /\ crashes' = crashes + 1
    BY SlotFacts DEF Known, Crash
  <2>2. Failures' = Failures + 1
    BY <2>1 DEF Failures
  <2> QED BY <2>2, SlotFacts DEF Known, TInv, TypeOK, Resting
<1>1. pc' = "idle" /\ UNCHANGED << bak, list >>
  BY DEF Crash, Goto
<1>2. sav' = sav \/ (pc = "copy" /\ sav'[SAVE] = Partial)
  <2>1. pc = "copy" => sav[SAVE] = Partial /\ todo \subseteq SavName
    BY DEF LInv, Incomplete, Writing
  <2> QED BY <1>0, <2>1 DEF Crash
<1>3. CASE sav' = sav
  <2>1. Failures = 0 => Left'
    BY <1>0, <1>1, <1>3, NoneIsLeft, NoneIsLeftMidway, StillFits DEF LInv
  <2>2. Failures = 1 /\ replaces => Unmixed(sav)'
    BY <1>0, <1>1, <1>3, OneIsUnmixed, StillFits DEF LInv
  <2>3. (Failures' = 1 => Left') /\ (Failures' = 2 /\ replaces => Unmixed(sav)')
    BY <1>0, <2>1, <2>2
  <2> QED
    BY <1>1, <2>3 DEF AfterOne, AfterTwo, ToRestore, Restored, Again, Undoing, Ended,
                      Restoring, Writing
<1>4. CASE sav'[SAVE] = Partial
  <2>1. Left' /\ Unmixed(sav)'
    BY <1>0, <1>4 DEF Left, Unmixed, Fits, Saves
  <2> QED
    BY <1>1, <2>1 DEF AfterOne, AfterTwo, ToRestore, Restored, Again, Undoing, Ended,
                      Restoring, Writing
<1> QED BY <1>2, <1>3, <1>4


\* As many files in the backup as there were in the slot: they are the same.
LEMMA SameFiles ==
  ASSUME NEW a, NEW b,
         \A n \in Files(a) \cap SavName : b[n] = a[n],
         Cardinality(Files(a) \cap SavName) = Cardinality(Files(b) \cap SavName)
  PROVE  \A n \in SavName : b[n] # NoFile => b[n] = a[n]
<1>1. Files(a) \cap SavName \subseteq Files(b) \cap SavName
  BY DEF Files
<1>2. IsFiniteSet(Files(b) \cap SavName)
  BY NamesFinite, FS_Subset
<1>3. Files(a) \cap SavName = Files(b) \cap SavName
  BY <1>1, <1>2, FS_Subset
<1> QED BY <1>3 DEF Files, SavName

\* SaveBackup, after a failure, and where it fails.
LEMMA BackupAgain ==
  ASSUME Known, LInv, [Next]_vars, UNCHANGED replaces, NEW ok \in BOOLEAN,
         \/ BackupDat(ok) \/ BackupList(ok) \/ BackupDone
         \/ \E n \in Name : BackupMap(n, ok)
  PROVE  AfterOne' /\ AfterTwo'
<1> USE DEF At, Goto, slotVars
<1>0. /\ pc \in {"backupDat", "backupList", "backupMaps"}
      /\ pc' \in {"backupList", "backupMaps", "open"}
      /\ UNCHANGED << list, crashes, before >>
      /\ \/ /\ faults' = faults + 1 /\ ~ok /\ UNCHANGED << sav, bak >>
            /\ pc' = "open" \/ (pc = "backupDat" /\ pc' = "backupList")
         \/ faults' = faults /\ (ok \/ BackupDone)
  BY DEF BackupDat, BackupList, BackupDone, BackupMap, Works
<1>1. AfterTwo'
  BY <1>0 DEF AfterTwo, ToRestore, Restored, Ended, Resting, LoadPc
<1> SUFFICES ASSUME Failures' = 1, replaces PROVE Again'
  BY <1>0, <1>1 DEF AfterOne, Undoing, Ended, Resting, LoadPc, Restoring
<1>2. /\ faults \in Nat /\ crashes \in Nat /\ Failures \in Nat
      /\ sav \in [Name -> Content] /\ bak \in [Name -> Content]
      /\ before \in [Name -> Content] /\ list \in [Saves -> SUBSET Map]
      /\ SAVE \in Name /\ Map \subseteq SavName /\ SavName = Name \ {SAVE}
      /\ NoFile \notin Saves /\ Files(before) \subseteq Name
  BY SlotFacts DEF Known, Files
<1>3. CASE faults' = faults + 1
  <2>1. Failures = 0
    BY <1>0, <1>2, <1>3 DEF Failures
  <2>2. Left /\ faults = 0 /\ crashes = 0
    BY <1>0, <1>2, <2>1, NoneIsLeftMidway, NoneOfBoth DEF SavePc, Failures
  <2>3. bak[SAVE] = NoFile \/ sav[SAVE] = NoFile
    BY <1>0, <1>2, <2>2 DEF Known, FInv, NoFaultYet, Kept, Moved
  <2>4. Fits(bak, bak[SAVE]) /\ Unmixed(sav) /\ UNCHANGED << sav, bak >>
    BY <1>0, <1>2, <1>3, <2>2, <2>3 DEF Left, Fits
  <2>5. CASE pc' = "open"
    BY <2>4, <2>5, StillFits DEF Again, LInv
  <2>6. CASE pc = "backupDat" /\ pc' = "backupList"
    <3>1. bak[SAVE] = NoFile /\ \A n \in SavName : sav[n] = before[n]
      BY <1>2, <2>2, <2>6 DEF Known, FInv, NoFaultYet, Kept
    <3> QED BY <1>0, <1>2, <2>4, <2>6, <3>1, StillFits DEF Again, LInv, Fits, Writing
  <2> QED BY <1>0, <1>2, <1>3, <2>5, <2>6
<1>4. CASE faults' = faults
  <2>1. Failures = 1 /\ Again
    BY <1>0, <1>2, <1>4 DEF Failures, LInv, AfterOne
  <2>2. ok \/ BackupDone
    BY <1>0, <1>2, <1>4
  <2>3. CASE BackupDat(ok)
    <3>1. pc = "backupDat" /\ sav = before /\ Left /\ ok
      BY <2>1, <2>2, <2>3 DEF BackupDat, BackupDone, Again, LInv, AfterOne
    <3>2. /\ pc' = "backupList" /\ sav'[SAVE] = NoFile
          /\ \A n \in SavName : sav'[n] = before[n]
          /\ bak'[SAVE] = IF sav[SAVE] = NoFile THEN bak[SAVE] ELSE before[SAVE]
      BY <1>2, <2>3, <3>1 DEF BackupDat, Refuses
    <3>3. Fits(before, bak'[SAVE]) /\ Unmixed(sav')
      BY <1>2, <3>1, <3>2 DEF Left, Unmixed, Fits
    <3> QED BY <1>0, <3>2, <3>3 DEF Again, Fits, Unmixed, Writing
  <2>4. CASE BackupList(ok)
    <3>1. /\ pc = "backupList" /\ ok /\ Unmixed(sav) /\ Fits(before, bak[SAVE])
          /\ \A n \in SavName : sav[n] = before[n]
      BY <2>1, <2>2, <2>4 DEF BackupList, BackupDone, Again
    <3>2. Files(sav) \cap SavName = Files(before) \cap SavName
      BY <1>2, <3>1 DEF Files
    <3>3. /\ pc' = "backupMaps" /\ todo' = Files(before) \cap SavName
          /\ count' = Cardinality(Files(before) \cap SavName)
          /\ UNCHANGED << sav, bak, before, list >>
      BY <2>4, <3>1, <3>2 DEF BackupList
    <3> QED BY <3>1, <3>3 DEF Again, Fits, Unmixed, Writing, Files
  <2>5. ASSUME NEW n \in Name, BackupMap(n, ok) PROVE Again'
    <3>1. /\ pc = "backupMaps" /\ ok /\ n \in todo
          /\ Unmixed(sav) /\ Fits(before, bak[SAVE])
          /\ count = Cardinality(Files(before) \cap SavName)
          /\ todo \subseteq Files(before) \cap SavName
          /\ \A x \in Files(before) \cap SavName :
               IF x \in todo THEN sav[x] = before[x] ELSE bak[x] = before[x]
      BY <2>1, <2>2, <2>5 DEF BackupMap, BackupDone, Again
    <3>2. /\ pc' = "backupMaps" /\ todo' = todo \ {n} /\ n \in SavName
          /\ sav' = [sav EXCEPT ![n] = NoFile] /\ bak' = [bak EXCEPT ![n] = sav[n]]
          /\ UNCHANGED << count, before, list >>
      BY <2>5, <3>1 DEF BackupMap, Refuses
    <3>3. Unmixed(sav') /\ bak'[SAVE] = bak[SAVE]
      BY <1>2, <3>1, <3>2 DEF Unmixed, Fits
    <3>4. \A x \in Files(before) \cap SavName :
            IF x \in todo' THEN sav'[x] = before[x] ELSE bak'[x] = before[x]
      BY <1>2, <3>1, <3>2
    <3> QED BY <3>1, <3>2, <3>3, <3>4 DEF Again, Fits, Unmixed, Writing, Files
  <2>6. CASE BackupDone
    <3>1. /\ Unmixed(sav) /\ Fits(before, bak[SAVE])
          /\ count = Cardinality(Files(before) \cap SavName)
          /\ \A x \in Files(before) \cap SavName : bak[x] = before[x]
      BY <2>1, <2>6 DEF BackupDone, Again
    <3>2. pc' = "open" /\ UNCHANGED << sav, bak, count, list >>
      BY <2>6 DEF BackupDone
    <3>3. AllCounted => \A x \in SavName : bak[x] # NoFile => bak[x] = before[x]
      BY <3>1, SameFiles DEF AllCounted
    <3>4. AllCounted => Fits(bak, bak[SAVE])
      BY <1>2, <3>1, <3>3 DEF Fits
    <3>5. Unmixed(sav) /\ (AllCounted' => AllCounted)
      BY <3>1, <3>2 DEF AllCounted, Files
    <3> QED BY <3>2, <3>4, <3>5, StillFits DEF Again, LInv
  <2> QED BY <2>3, <2>4, <2>5, <2>6
<1> QED BY <1>0, <1>3, <1>4


\* A slot that has all of a save has the maps of no other.
LEMMA OfSaveIsUnmixed ==
  (OfSave(save) => Unmixed(sav)) /\ (OfSave(save) => Unmixed(sav))'
BY DEF OfSave, Unmixed, Fits

\* The new save is written, or a failure leaves it to be undone.
LEMMA WritingAgain ==
  ASSUME Known, Known', LInv, Incomplete', [Next]_vars, UNCHANGED replaces,
         NEW ok \in BOOLEAN,
         \/ Open(ok) \/ WriteHead(ok) \/ MapSave(ok) \/ ClearDone(ok) \/ CopyDone
         \/ WriteTail(ok) \/ LoseWrite
         \/ \E n \in Name : ClearSav(n, ok) \/ CopyMap(n, ok) \/ CopyMapShort(n)
  PROVE  AfterOne' /\ AfterTwo'
<1> USE DEF At, Goto, slotVars
<1>1. /\ faults \in Nat /\ crashes \in Nat /\ Failures \in Nat
      /\ sav \in [Name -> Content] /\ SAVE \in Name /\ SavName = Name \ {SAVE}
      /\ Partial \notin Saves /\ NoFile \notin Saves
  BY SlotFacts DEF Known
<1>2. pc \in Writing /\ UNCHANGED << bak, count, before, crashes >>
  BY DEF Open, WriteHead, MapSave, ClearDone, CopyDone, WriteTail, ClearSav, CopyMap,
         CopyMapShort, LoseWrite, Writing
<1>3. \/ /\ faults' = faults /\ rc' = rc /\ pc' \in Writing \ {"open"}
      \/ /\ faults' = faults /\ rc' = 0 /\ pc' = "eraseBak"
      \/ /\ faults' = faults + 1 /\ rc' = -1 /\ pc' = "erase1"
         /\ pc = "open" => sav' = sav
      \/ /\ faults' = faults + 1 /\ rc' = rc /\ pc' = pc /\ pc \in Writing \ {"open"}
         /\ UNCHANGED list
  BY DEF Open, WriteHead, MapSave, ClearDone, CopyDone, WriteTail, ClearSav, CopyMap,
         CopyMapShort, LoseWrite, Works, Succeed, Fail, Writing
<1>4. CASE faults' = faults /\ pc' \in Writing \ {"open"}
  <2>1. Failures' = 1 => Failures = 1 /\ (replaces => Again)
    BY <1>1, <1>2, <1>4 DEF Failures, LInv, AfterOne
  <2>2. Failures' = 1 /\ replaces /\ AllCounted' => Fits(bak, bak[SAVE])'
    <3>1. AllCounted' => AllCounted
      BY <1>2 DEF AllCounted, Files
    <3> QED BY <1>2, <2>1, <3>1, StillFits DEF Again, LInv
  <2>3. pc' \notin Resting \cup Restoring \cup {"eraseBak", "open", "backupDat", "backupList",
                                               "backupMaps"}
    BY <1>4 DEF Writing, Resting, LoadPc, Restoring
  <2> QED
    BY <1>4, <2>2, <2>3 DEF AfterOne, AfterTwo, Again, ToRestore, Restored, Undoing, Ended,
                            Restoring
<1>5. CASE pc' = "eraseBak" /\ rc' = 0
  <2>1. Unmixed(sav)'
    BY <1>5, OfSaveIsUnmixed DEF Known, IInv, NewSaveAtEnd, Ended
  <2> QED
    BY <1>5, <2>1 DEF AfterOne, AfterTwo, Again, ToRestore, Restored, Undoing, Ended,
                      Restoring, Writing, Resting, LoadPc
<1>6. CASE faults' = faults + 1 /\ pc' = "erase1" /\ (pc = "open" => sav' = sav)
  <2>1. Failures' = Failures + 1
    BY <1>1, <1>2, <1>6 DEF Failures
  <2>2. Failures = 0 => /\ Sound(before)' /\ bak'[SAVE] = before'[SAVE]
                        /\ pc = "open" => Unmixed(sav)'
    <3> SUFFICES ASSUME Failures = 0
                 PROVE  /\ Sound(before)' /\ bak'[SAVE] = before'[SAVE]
                        /\ pc = "open" => Unmixed(sav)'
      OBVIOUS
    <3>1. faults = 0 /\ crashes = 0 /\ pc \in SavePc
      BY <1>1, <1>2, NoneOfBoth DEF Failures, Writing, SavePc
    <3>2. Left /\ Sound(before) /\ BackedUp
      BY <1>2, <3>1, NoneIsLeftMidway DEF LInv, AfterNone, Known, FInv, NoFaultYet
    <3> QED BY <1>1, <1>2, <1>6, <3>2, StillFits DEF LInv, Left, BackedUp
  <2>3. pc # "open" => Unmixed(sav)'
    <3>1. pc # "open" => sav[SAVE] = Partial /\ sav'[SAVE] = Partial
      BY <1>1, <1>2, <1>6
         DEF LInv, Incomplete, Open, WriteHead, MapSave, ClearDone, CopyDone, WriteTail,
             ClearSav, CopyMap, CopyMapShort, LoseWrite
    <3> QED BY <1>1, <3>1 DEF Unmixed, Fits, Saves
  <2>4. Failures = 1 /\ replaces => (AllCounted' => Fits(bak, bak[SAVE])')
    <3>1. AllCounted' => AllCounted
      BY <1>2 DEF AllCounted, Files
    <3> QED BY <1>2, <3>1, StillFits DEF LInv, AfterOne, Again
  <2>5. Failures' = 1 => Failures = 0 /\ Unmixed(sav)'
    BY <1>1, <2>1, <2>2, <2>3
  <2>6. AfterOne'
    BY <1>6, <2>2, <2>5 DEF AfterOne, Again, Undoing, Ended, Restoring, Writing, Resting,
                            LoadPc
  <2>7. Failures' = 2 /\ replaces => (AllCounted' => Fits(bak, bak[SAVE])')
    BY <1>1, <2>1, <2>4
  <2>8. AfterTwo'
    BY <1>6, <2>7 DEF AfterTwo, ToRestore, Restored, Fits, Ended, Resting, LoadPc
  <2> QED BY <2>6, <2>8
<1>7. CASE faults' = faults + 1 /\ pc' = pc /\ pc \in Writing \ {"open"} /\ list' = list
  <2>1. Failures' = 1 => Fits(bak, bak[SAVE])'
    <3> SUFFICES ASSUME Failures' = 1 PROVE Fits(bak, bak[SAVE])'
      OBVIOUS
    <3>1. Failures = 0 /\ pc \in SavePc
      BY <1>1, <1>2, <1>7 DEF Failures, Writing, SavePc
    <3>2. faults = 0 /\ crashes = 0
      BY <1>1, <3>1, NoneOfBoth DEF Failures
    <3>3. Sound(before) /\ BackedUp
      BY <1>2, <3>1, <3>2 DEF LInv, AfterNone, Known, FInv, NoFaultYet
    <3>4. list \in [Saves -> SUBSET Map] /\ Map \subseteq SavName
      BY SlotFacts DEF Known
    <3> QED BY <1>1, <1>2, <1>7, <3>3, <3>4 DEF Sound, BackedUp, Fits
  <2>2. pc' \notin Resting \cup Restoring \cup {"eraseBak", "open", "backupDat", "backupList",
                                               "backupMaps"}
    BY <1>7 DEF Writing, Resting, LoadPc, Restoring
  <2> QED
    BY <2>1, <2>2 DEF AfterOne, AfterTwo, Again, ToRestore, Restored, Undoing, Ended,
                      Restoring
<1> QED BY <1>3, <1>4, <1>5, <1>6, <1>7

\* SaveSlot is about to return, or does.
LEMMA EndAgain ==
  ASSUME Known, LInv, [Next]_vars, UNCHANGED replaces, NEW ok \in BOOLEAN,
         SaveEnd \/ \E n \in Name : EraseBak(n, ok)
  PROVE  AfterOne' /\ AfterTwo'
<1> USE DEF At, Goto, slotVars
<1>1. /\ faults \in Nat /\ crashes \in Nat /\ Failures \in Nat
      /\ bak \in [Name -> Content] /\ SAVE \in Name /\ NoFile \notin Saves
      /\ Failures' = Failures \/ Failures' = Failures + 1
  BY SlotFacts, OneAtATime DEF Known
<1>2. /\ Ended /\ pc \in SavePc /\ UNCHANGED << sav, rc, save, before, list >>
      /\ pc' \in {"eraseBak", "idle"}
      /\ bak'[SAVE] \in {NoFile, bak[SAVE]}
  BY <1>1 DEF SaveEnd, EraseBak, Ended, SavePc
<1>3. /\ Failures = 0 => rc = 0 /\ Left
      /\ Failures = 1 => Unmixed(sav)
      /\ Failures = 2 /\ replaces => Unmixed(sav)
      /\ rc \in {0, -1}
  <2>1. Failures = 0 => rc = 0 /\ Left
    BY <1>1, <1>2, NoneIsLeftMidway, NoneOfBoth DEF Known, FInv, NoFaultYet, Failures
  <2> QED BY <1>2, <2>1 DEF LInv, AfterOne, AfterTwo, Known, TInv, TypeOK
<1>4. /\ Failures' = 1 => Unmixed(sav)'
      /\ Failures' = 2 /\ replaces => Unmixed(sav)'
  BY <1>1, <1>2, <1>3, StillFits DEF LInv, Left
<1>5. Failures' = 1 /\ rc = -1 =>
        Sound(before)' /\ bak'[SAVE] \in {NoFile, before'[SAVE]} /\ sav = before
  <2> SUFFICES ASSUME Failures' = 1, rc = -1
               PROVE  Sound(before)' /\ bak'[SAVE] \in {NoFile, before'[SAVE]} /\ sav = before
    OBVIOUS
  <2>1. Failures = 1 /\ Undoing
    BY <1>1, <1>2, <1>3 DEF Undoing
  <2> QED BY <1>2, <2>1, OneIsBlamed, StillFits DEF LInv
<1>6. AfterTwo'
  BY <1>2, <1>4 DEF AfterTwo, ToRestore, Restored
<1>7. CASE pc' = "eraseBak"
  BY <1>2, <1>4, <1>5, <1>6, <1>7 DEF AfterOne, Again, Undoing, Ended, Restoring, Writing,
                                      Resting, LoadPc
<1>8. CASE pc' = "idle"
  <2>1. SaveEnd /\ bak' = bak
    BY <1>2, <1>8 DEF SaveEnd, EraseBak, Ended
  <2>2. rc = 0 => sav[SAVE] # NoFile
    BY <1>1, <1>2 DEF Known, IInv, NewSaveAtEnd, OfSave, Types, NoFile
  <2>3. Failures' = 1 => Left'
    <3> SUFFICES ASSUME Failures' = 1 PROVE Left'
      OBVIOUS
    <3>1. sav'[SAVE] = NoFile => bak'[SAVE] = NoFile
      BY <1>2, <1>3, <1>5, <2>2
    <3> QED BY <1>1, <1>4, <3>1 DEF Left, Fits, Saves
  <2> QED BY <1>6, <1>8, <2>3 DEF AfterOne, Again, Undoing, Ended, Restoring, Writing
<1> QED BY <1>2, <1>7, <1>8


\* EraseSave, and RestoreSave up to SAVE.DAT, with a second failure on the way or before.
LEMMA EraseAgain ==
  ASSUME Known, LInv, Failures' = 2, replaces, UNCHANGED << list, before, count >>,
         NEW ok \in BOOLEAN,
         \/ Failures = 1 /\ ~ok /\ OneFaultYet /\ faults = 1 /\ crashes = 0 /\ Sound(before)
         \/ Failures = 2 /\ ok,
         \/ EraseDone(ok) \/ RestoreDat(ok)
         \/ \E call \in {"erase1", "erase2"} : EraseDat(call, ok)
         \/ \E n \in Name : EraseMap(n, ok)
  PROVE  /\ pc' = "eraseBak" => Unmixed(sav)'
         /\ ToRestore' /\ Restored'
<1> USE DEF At, Goto, slotVars, Moves, Remains
<1>1. /\ sav \in [Name -> Content] /\ bak \in [Name -> Content]
      /\ before \in [Name -> Content] /\ list \in [Saves -> SUBSET Map]
      /\ SAVE \in Name /\ Map \subseteq SavName /\ SavName = Name \ {SAVE}
      /\ NoFile \notin Saves
  BY SlotFacts DEF Known
<1>2. CASE Failures = 1 /\ ~ok /\ OneFaultYet /\ faults = 1 /\ crashes = 0 /\ Sound(before)
  <2>1. CASE RestoreDat(ok)
    BY <1>1, <1>2, <2>1 DEF RestoreDat, OneFaultYet, Moved, ToRestore, Restored
  <2>2. CASE pc' = "eraseBak" \/ pc' = "erase2maps"
    <3>1. pc \in {"erase2", "erase2maps"}
      BY <1>2, <2>2 DEF EraseDone, RestoreDat, EraseDat, EraseMap
    <3>2. sav[SAVE] = NoFile /\ sav' = sav
      BY <1>1, <1>2, <3>1 DEF OneFaultYet, Gone, EraseDone, RestoreDat, EraseDat, EraseMap
    <3> QED BY <1>1, <2>2, <3>2 DEF Unmixed, Fits, Saves, ToRestore, Restored
  <2>3. CASE ~RestoreDat(ok) /\ pc' \notin {"eraseBak", "erase2maps"}
    <3>1. /\ pc \in {"erase1", "erase1maps"} /\ pc' \in {"erase1maps", "restoreDat"}
          /\ bak' = bak
      BY <2>3 DEF EraseDone, EraseDat, EraseMap
    <3>2. \A n \in Name : bak[n] = before[n]
      BY <1>2, <3>1 DEF OneFaultYet, BackedUp
    <3>3. \A k \in Saves : k = bak'[SAVE] => \A m \in list'[k] : bak'[m] = k
      BY <1>1, <1>2, <3>1, <3>2 DEF Sound
    <3> QED BY <3>1, <3>3 DEF ToRestore, Restored
  <2> QED BY <2>1, <2>2, <2>3
<1>3. CASE Failures = 2 /\ ok
  <2>0. ToRestore /\ Restored /\ (AllCounted' /\ bak' = bak => AllCounted)
    BY <1>3 DEF LInv, AfterTwo, AllCounted, Files
  <2>1. CASE EraseDone(ok)
    <3>1. UNCHANGED << sav, bak >> /\ todo = {}
      BY <1>3, <2>1 DEF EraseDone
    <3>2. CASE pc = "erase2maps"
      <4>1. pc' = "eraseBak" /\ sav[SAVE] = NoFile
        BY <2>0, <2>1, <3>2 DEF EraseDone, Restored
      <4> QED BY <1>1, <3>1, <4>1 DEF Unmixed, Fits, Saves, ToRestore, Restored
    <3>3. CASE pc = "erase1maps"
      BY <2>0, <2>1, <3>1, <3>3 DEF EraseDone, ToRestore, Restored, Saves
    <3> QED BY <2>1, <3>2, <3>3 DEF EraseDone
  <2>2. CASE RestoreDat(ok)
    <3>1. CASE bak[SAVE] = NoFile
      BY <1>3, <2>2, <3>1 DEF RestoreDat, ToRestore, Restored
    <3>2. CASE bak[SAVE] # NoFile
      <4>1. /\ pc = "restoreDat" /\ pc' = "restoreList"
            /\ sav'[SAVE] = bak[SAVE] /\ bak'[SAVE] = NoFile
            /\ \A n \in SavName : sav'[n] = sav[n] /\ bak'[n] = bak[n]
        BY <1>1, <1>3, <2>2, <3>2 DEF RestoreDat
      <4>2. Files(bak') \cap SavName = Files(bak) \cap SavName
        BY <1>1, <4>1 DEF Files
      <4>3. AllCounted' => AllCounted
        BY <4>2 DEF AllCounted, Files
      <4>4. ASSUME AllCounted, bak[SAVE] \in Saves, NEW m \in list[bak[SAVE]]
            PROVE  bak[m] = bak[SAVE] \/ (bak[m] = NoFile /\ sav[m] = NoFile)
        BY <2>0, <4>1, <4>4 DEF ToRestore
      <4>5. ASSUME AllCounted, bak[SAVE] \in Saves, NEW m \in list[bak[SAVE]]
            PROVE  bak'[m] = bak[SAVE] \/ (bak'[m] = NoFile /\ sav'[m] = NoFile)
        BY <1>1, <4>1, <4>4, <4>5
      <4> QED BY <4>1, <4>3, <4>5 DEF ToRestore, Restored, Saves
    <3> QED BY <3>1, <3>2
  <2>3. ASSUME NEW call \in {"erase1", "erase2"}, EraseDat(call, ok)
        PROVE  (pc' = "eraseBak" => Unmixed(sav)') /\ ToRestore' /\ Restored'
    <3>1. /\ bak' = bak /\ sav'[SAVE] = NoFile /\ \A n \in SavName : sav'[n] = sav[n]
          /\ todo' = Files(sav) \cap SavName
          /\ \/ pc = "erase1" /\ pc' = "erase1maps"
             \/ pc = "erase2" /\ pc' = "erase2maps"
      BY <1>1, <1>3, <2>3 DEF EraseDat
    <3>2. \A m \in SavName : sav'[m] = NoFile \/ m \in todo'
      BY <1>1, <3>1 DEF Files
    <3>3. \A k \in Saves : list[k] \subseteq SavName
      BY <1>1
    <3> QED BY <2>0, <3>1, <3>2, <3>3 DEF ToRestore, Restored, Saves
  <2>4. ASSUME NEW n \in Name, EraseMap(n, ok)
        PROVE  (pc' = "eraseBak" => Unmixed(sav)') /\ ToRestore' /\ Restored'
    <3>1. /\ bak' = bak /\ sav' = [sav EXCEPT ![n] = NoFile] /\ todo' = todo \ {n}
          /\ pc' = pc /\ pc \in {"erase1maps", "erase2maps"} /\ n \in todo
      BY <1>3, <2>4 DEF EraseMap
    <3>2. \A m \in Name : sav'[m] = NoFile \/ (sav'[m] = sav[m] /\ m # n)
      BY <1>1, <3>1
    <3>3. \A k \in Saves : list[k] \subseteq Name
      BY <1>1
    <3> QED BY <1>1, <2>0, <3>1, <3>2, <3>3 DEF ToRestore, Restored, Saves
  <2> QED BY <2>1, <2>2, <2>3, <2>4
<1> QED BY <1>2, <1>3


\* RestoreSave puts back the map files of the backup, as many as were counted.
LEMMA MapsAgain ==
  ASSUME Known, LInv, Failures' = 2, replaces, UNCHANGED << list, before, count >>,
         NEW ok \in BOOLEAN,
         \/ /\ Failures = 1 /\ ~ok /\ ~RestoreDone
            /\ OneFaultYet /\ faults = 1 /\ crashes = 0 /\ Sound(before)
         \/ Failures = 2 /\ (ok \/ RestoreDone),
         \/ RestoreList(ok) \/ RestoreDone \/ \E n \in Name : RestoreMap(n, ok)
  PROVE  /\ pc' = "eraseBak" => Unmixed(sav)'
         /\ ToRestore' /\ Restored'
<1> USE DEF At, Goto, slotVars, Moves, Remains
<1>1. /\ sav \in [Name -> Content] /\ bak \in [Name -> Content]
      /\ before \in [Name -> Content] /\ list \in [Saves -> SUBSET Map]
      /\ SAVE \in Name /\ Map \subseteq SavName /\ SavName = Name \ {SAVE}
      /\ NoFile \notin Saves
  BY SlotFacts DEF Known
<1>2. CASE /\ Failures = 1 /\ ~ok /\ ~RestoreDone
           /\ OneFaultYet /\ faults = 1 /\ crashes = 0 /\ Sound(before)
  <2>1. CASE RestoreList(ok)
    <3>1. pc' = "eraseBak" /\ sav' = sav
      BY <1>2, <2>1 DEF RestoreList
    <3>2. sav[SAVE] = before[SAVE] /\ \A n \in SavName : sav[n] = NoFile
      BY <1>2, <2>1 DEF RestoreList, OneFaultYet, Kept, Moved
    <3> QED BY <1>1, <3>1, <3>2 DEF Unmixed, Fits, ToRestore, Restored
  <2>2. CASE \E n \in Name : RestoreMap(n, ok)
    BY <1>1, <1>2, <2>2 DEF RestoreMap, OneFaultYet, Moved, ToRestore, Restored
  <2> QED BY <1>2, <2>1, <2>2
<1>3. CASE Failures = 2 /\ (ok \/ RestoreDone)
  <2>0. Restored
    BY <1>3 DEF LInv, AfterTwo
  <2>1. CASE RestoreList(ok)
    <3>1. pc = "restoreList" /\ ok /\ bak[SAVE] = NoFile /\ UNCHANGED << sav, bak >>
      BY <1>3, <2>0, <2>1 DEF RestoreList, RestoreDone, Restored
    <3>2. Files(bak) = Files(bak) \cap SavName
      BY <1>1, <3>1 DEF Files
    <3>3. \/ pc' = "erase2"
          \/ pc' = "restoreMaps" /\ AllCounted /\ todo' = Files(bak)
      BY <2>1, <3>1, <3>2 DEF RestoreList, AllCounted
    <3>4. CASE pc' = "restoreMaps" /\ AllCounted /\ todo' = Files(bak)
      <4>1. todo' \subseteq SavName
        BY <3>2, <3>4
      <4>2. ASSUME sav[SAVE] \in Saves, NEW m \in list[sav[SAVE]]
            PROVE  IF m \in Files(bak) THEN bak[m] = sav[SAVE]
                                       ELSE sav[m] \in {NoFile, sav[SAVE]}
        BY <1>1, <2>0, <3>1, <3>4, <4>2 DEF Restored, Files
      <4> QED BY <3>1, <3>4, <4>1, <4>2 DEF ToRestore, Restored
    <3> QED BY <3>3, <3>4 DEF ToRestore, Restored
  <2>2. ASSUME NEW n \in Name, RestoreMap(n, ok)
        PROVE  (pc' = "eraseBak" => Unmixed(sav)') /\ ToRestore' /\ Restored'
    <3>1. /\ pc = "restoreMaps" /\ pc' = "restoreMaps" /\ n \in todo /\ todo' = todo \ {n}
          /\ sav' = [sav EXCEPT ![n] = bak[n]] /\ bak' = [bak EXCEPT ![n] = NoFile]
      BY <1>3, <2>2 DEF RestoreMap, RestoreDone
    <3>2. n \in SavName /\ todo \subseteq SavName /\ sav'[SAVE] = sav[SAVE]
      BY <1>1, <2>0, <3>1 DEF Restored
    <3>3. ASSUME sav[SAVE] \in Saves, NEW m \in list[sav[SAVE]]
          PROVE  IF m \in todo' THEN bak'[m] = sav[SAVE]
                                ELSE sav'[m] \in {NoFile, sav[SAVE]}
      BY <1>1, <2>0, <3>1, <3>2, <3>3 DEF Restored
    <3> QED BY <3>1, <3>2, <3>3 DEF ToRestore, Restored
  <2>3. CASE RestoreDone
    <3>1. pc = "restoreMaps" /\ pc' = "eraseBak" /\ todo = {} /\ sav' = sav
      BY <2>3 DEF RestoreDone
    <3> QED BY <2>0, <3>1 DEF Restored, Unmixed, Fits, ToRestore
  <2> QED BY <2>1, <2>2, <2>3
<1> QED BY <1>2, <1>3

\* A save that failed is undone, one more failure or none.
LEMMA RestoreAgain ==
  ASSUME Known, Known', LInv, [Next]_vars, UNCHANGED replaces, NEW ok \in BOOLEAN,
         \/ EraseDone(ok) \/ RestoreDat(ok) \/ RestoreList(ok) \/ RestoreDone
         \/ \E call \in {"erase1", "erase2"} : EraseDat(call, ok)
         \/ \E n \in Name : EraseMap(n, ok) \/ RestoreMap(n, ok)
  PROVE  AfterOne' /\ AfterTwo'
<1> USE DEF At, Goto, slotVars, Moves
<1>1. /\ faults \in Nat /\ crashes \in Nat /\ Failures \in Nat
      /\ bak \in [Name -> Content] /\ SAVE \in Name
  BY SlotFacts DEF Known
<1>2. /\ pc \in Restoring /\ pc' \in (Restoring \ {"erase1"}) \cup {"eraseBak"}
      /\ UNCHANGED << list, before, count, crashes, rc >>
      /\ bak'[SAVE] \in {NoFile, bak[SAVE]}
      /\ \/ faults' = faults /\ (ok \/ RestoreDone)
         \/ faults' = faults + 1 /\ ~ok /\ ~RestoreDone
  BY <1>1 DEF EraseDone, RestoreDat, RestoreList, RestoreDone, EraseDat, EraseMap,
              RestoreMap, Works, Restoring
<1>3. Failures # 0 /\ Undoing /\ Failures' = faults' + crashes'
  BY <1>2, NoneIsLeftMidway DEF Undoing, Restoring, SavePc, Failures
<1>4. AfterOne'
  <2> SUFFICES ASSUME Failures' = 1 PROVE AfterOne'
    BY DEF AfterOne
  <2>1. Failures = 1 /\ faults' = faults
    BY <1>1, <1>2, <1>3 DEF Failures
  <2>2. /\ faults = 1 /\ crashes = 0 /\ Sound(before) /\ Sound(before)'
        /\ bak[SAVE] \in {NoFile, before[SAVE]}
    BY <1>2, <1>3, <2>1, OneIsBlamed, StillFits DEF LInv
  <2>3. Ended' => sav' = before'
    BY <1>2, <2>1, <2>2 DEF Known, FInv, OneFaultYet, IInv, FailureKnown, Ended
  <2>4. Ended' => Unmixed(sav)'
    BY <2>2, <2>3 DEF Sound, Unmixed, Fits, Saves, NoFile
  <2> QED BY <1>2, <2>2, <2>4 DEF AfterOne, Again, Restoring, Writing, Resting, LoadPc
<1>5. AfterTwo'
  <2> SUFFICES ASSUME Failures' = 2, replaces PROVE AfterTwo'
    BY DEF AfterTwo
  <2>1. \/ /\ Failures = 1 /\ ~ok /\ ~RestoreDone
           /\ OneFaultYet /\ faults = 1 /\ crashes = 0 /\ Sound(before)
        \/ Failures = 2 /\ (ok \/ RestoreDone)
    <3>1. \/ Failures = 1 /\ ~ok /\ ~RestoreDone
          \/ Failures = 2 /\ (ok \/ RestoreDone)
      BY <1>1, <1>2, <1>3 DEF Failures
    <3> QED BY <1>3, <3>1, OneIsBlamed
  <2>2. (pc' = "eraseBak" => Unmixed(sav)') /\ ToRestore' /\ Restored'
    <3>1. CASE RestoreList(ok) \/ RestoreDone \/ \E n \in Name : RestoreMap(n, ok)
      BY <1>2, <2>1, <3>1, MapsAgain
    <3>2. CASE \/ EraseDone(ok) \/ RestoreDat(ok)
               \/ \E call \in {"erase1", "erase2"} : EraseDat(call, ok)
               \/ \E n \in Name : EraseMap(n, ok)
      <4>1. ~RestoreDone
        BY <3>2 DEF EraseDone, RestoreDat, EraseDat, EraseMap, RestoreDone
      <4> QED BY <1>2, <2>1, <3>2, <4>1, EraseAgain
    <3> QED BY <3>1, <3>2
  <2> QED BY <1>2, <2>2 DEF AfterTwo, Resting, LoadPc, Restoring, Ended
<1> QED BY <1>4, <1>5

\* LInv is preserved.
LEMMA StepLInv ==
  ASSUME Known, LInv, [Next]_vars
  PROVE  LInv'
<1> USE DEF At, Goto, slotVars
<1>1. Known'
  BY StepTInv, StepIInv, StepFInv, UnlostKeeps DEF Known
<1>2. Past' /\ Incomplete' /\ Blamed' /\ AfterNone' /\ Loading'
  BY <1>1, PastKeeps, IncompleteKeeps, BlamedKeeps, AfterNoneKeeps, LoadingKeeps DEF LInv
<1>3. CASE UNCHANGED vars
  BY <1>3 DEF vars, loadVars, LInv, Past, Incomplete, Blamed, AfterNone, AfterOne, AfterTwo,
              Loading, Failures, Undoing, Ended, Left, Again, ToRestore, Restored, Unmixed,
              Sound, Fits, AllCounted, Files
<1>4. CASE Next
  <2>1. UNCHANGED replaces /\ Move
    BY <1>4 DEF Next
  <2>2. CASE Crash
    BY <1>2, <2>1, <2>2, CrashKeeps DEF LInv
  <2>3. CASE \/ NewGame \/ SaveBegin \/ LoadBegin \/ LoadCopied \/ LoadGarbled
             \/ \E m \in Map : Visit(m)
             \/ \E ok \in BOOLEAN : LoadErase(ok) \/ LoadAuto(ok) \/ LoadEnd(ok)
             \/ \E ok \in BOOLEAN, m \in Map : LoadCopy(m, ok)
    <3>1. /\ pc \in Resting /\ UNCHANGED << sav, bak >>
          /\ pc' \in Resting \/ (pc' = "backupDat" /\ before' = sav)
      BY <2>3 DEF NewGame, SaveBegin, LoadBegin, LoadCopied, LoadGarbled, Visit, LoadErase, LoadAuto,
                  LoadEnd, LoadCopy, LoadFails, Resting, LoadPc
    <3> QED BY <1>2, <2>1, <3>1, RestKeeps DEF LInv
  <2>4. ASSUME NEW ok \in BOOLEAN,
               \/ BackupDat(ok) \/ BackupList(ok) \/ BackupDone
               \/ \E n \in Name : BackupMap(n, ok)
        PROVE  LInv'
    BY <1>2, <2>1, <2>4, BackupAgain DEF LInv
  <2>5. ASSUME NEW ok \in BOOLEAN,
               \/ Open(ok) \/ WriteHead(ok) \/ MapSave(ok) \/ ClearDone(ok) \/ CopyDone
               \/ WriteTail(ok) \/ LoseWrite
               \/ \E n \in Name : ClearSav(n, ok) \/ CopyMap(n, ok) \/ CopyMapShort(n)
        PROVE  LInv'
    BY <1>1, <1>2, <2>1, <2>5, WritingAgain DEF LInv
  <2>6. ASSUME NEW ok \in BOOLEAN, SaveEnd \/ \E n \in Name : EraseBak(n, ok)
        PROVE  LInv'
    BY <1>2, <2>1, <2>6, EndAgain DEF LInv
  <2>7. ASSUME NEW ok \in BOOLEAN,
               \/ EraseDone(ok) \/ RestoreDat(ok) \/ RestoreList(ok) \/ RestoreDone
               \/ \E call \in {"erase1", "erase2"} : EraseDat(call, ok)
               \/ \E n \in Name : EraseMap(n, ok) \/ RestoreMap(n, ok)
        PROVE  LInv'
    BY <1>1, <1>2, <2>1, <2>7, RestoreAgain DEF LInv
  <2> QED BY <2>1, <2>2, <2>3, <2>4, <2>5, <2>6, <2>7 DEF Move, Step
<1> QED BY <1>3, <1>4

(* A load that succeeds (LoadSlot, loadsave.cc) has read maps of one save  *)
(* only, the one SAVE.DAT is of: after any two failing operations or       *)
(* crashes, whenever they came and whatever was saved, loaded and restored *)
(* in between; after any one where rename does not replace files. Unless   *)
(* the SAVE.DAT it reads lost a write that nobody checked.                 *)
THEOREM LoadsAreOfOneSave == Spec => []LoadGivesOneSave
<1>1. Init => LInv
  BY InitLInv
<1>2. Known /\ LInv /\ [Next]_vars => LInv'
  BY StepLInv
<1>3. LInv => LoadGivesOneSave
  BY DEF LInv, Loading, LoadGivesOneSave, Failures, LoadPc, At
<1> QED BY <1>1, <1>2, <1>3, KnownHolds, PTL DEF Spec
=============================================================================
