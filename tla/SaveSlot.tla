------------------------------- MODULE SaveSlot -------------------------------
(***************************************************************************)
(* Saving to and loading from one slot (game/loadsave.cc), file by file:   *)
(* SaveSlot renames the slot's files to .BAK, writes SAVE.DAT around the   *)
(* copies of the maps, and either drops the backup or restores it. Any     *)
(* file operation may fail and the program may stop between any two.       *)
(*                                                                         *)
(* A file's content is the number of the save it belongs to. Two kinds of  *)
(* failure SaveSlot does not notice: db_fwrite returns a count and never   *)
(* the -1 that a name, and the header's signature, are checked against;    *)
(* and nobody looks at what db_fclose returns. The variable lost tells     *)
(* which files of a save are less than whole for that reason; the code     *)
(* has no such knowledge. AUTOMAP.SAV is found by "*.SAV" and backed up as *)
(* one of the maps, so that SaveBackup never finds it afterwards and       *)
(* automap_db_flag stays 0. What the MAPS directory holds is not modelled  *)
(* beyond the names of its files.                                          *)
(***************************************************************************)
EXTENDS Integers, FiniteSets

CONSTANTS Map,         \* map files
          SAVE, AUTO,  \* SAVE.DAT, AUTOMAP.SAV
          MaxSaves,    \* bound on the number of saves
          MaxFaults,   \* bound on the number of failing operations
          MaxCrashes   \* bound on the number of crashes

ASSUME FileAssumption ==
  /\ IsFiniteSet(Map) /\ SAVE \notin Map /\ AUTO \notin Map /\ SAVE # AUTO
  /\ MaxSaves \in Nat /\ MaxFaults \in Nat /\ MaxCrashes \in Nat

VARIABLES sav,       \* the slot's SAVE.DAT and *.SAV: file -> content
          bak,       \* the slot's *.BAK
          maps,      \* the *.SAV files of the MAPS directory
          game,      \* is a game being played, or the main menu shown?
          pc,        \* where SaveSlot or LoadSlot is
          todo,      \* the files its current loop has yet to treat
          count,     \* map_backup_count
          rc,        \* what SaveSlot will return or has returned
          save,      \* the number of the latest save begun
          list,      \* the map files that SAVE.DAT of each save names
          lost,      \* the files of each save that lost a write unnoticed
          loading,   \* the save that LoadSlot reads
          got,       \* the saves that the map files it copied come from
          before,    \* sav when the latest save began
          faults, crashes,
          replaces   \* does rename() replace an existing file? Some platforms do

slotVars == << sav, bak, count, rc, save, list, lost, before >>
loadVars == << loading, got >>
vars == << slotVars, loadVars, maps, game, pc, todo, faults, crashes, replaces >>

NoFile  == 0
Partial == -1
Name    == Map \cup {SAVE, AUTO}
SavName == Name \ {SAVE}              \* what "*.SAV" finds
Content == -1 .. MaxSaves
SavePc ==
  {"backupDat", "backupList", "backupMaps", "open", "head", "mapSave", "clear",
   "copy", "tail", "erase1", "erase1maps", "restoreDat", "restoreList",
   "restoreMaps", "erase2", "erase2maps", "eraseBak"}
LoadPc == {"loadErase", "loadCopy", "loadAuto", "loadEnd"}

TypeOK ==
  /\ sav \in [Name -> Content] /\ bak \in [Name -> Content]
  /\ maps \subseteq Map
  /\ game \in {"playing", "menu"}
  /\ pc \in SavePc \cup LoadPc \cup {"idle"}
  /\ todo \subseteq Name
  /\ count \in -1 .. Cardinality(SavName)
  /\ rc \in {0, -1}
  /\ save \in 0 .. MaxSaves
  /\ list \in [1 .. MaxSaves -> SUBSET Map]
  /\ lost \in [1 .. MaxSaves -> SUBSET Name]
  /\ loading \in 0 .. MaxSaves /\ got \subseteq Content
  /\ before \in [Name -> Content]
  /\ replaces \in BOOLEAN
  /\ faults \in 0 .. MaxFaults /\ crashes \in 0 .. MaxCrashes

Files(dir) == {n \in Name : dir[n] # NoFile}

Init ==
  /\ sav = [n \in Name |-> NoFile] /\ bak = [n \in Name |-> NoFile]
  /\ maps = {} /\ game = "menu"
  /\ pc = "idle" /\ todo = {}
  /\ count = -1 /\ rc = 0
  /\ save = 0 /\ list = [k \in 1 .. MaxSaves |-> {}]
  /\ lost = [k \in 1 .. MaxSaves |-> {}]
  /\ loading = 0 /\ got = {}
  /\ before = sav
  /\ faults = 0 /\ crashes = 0
  /\ replaces \in BOOLEAN

\* An operation on a file does what it should (ok), or fails.
Works(ok) ==
  IF ok THEN UNCHANGED faults ELSE faults < MaxFaults /\ faults' = faults + 1

\* compat_rename to a file that exists fails though nothing is wrong (Windows,
\* FAT), or replaces it (POSIX).
Refuses(n, to) == ~replaces /\ to[n] # NoFile

At(l) == pc = l
Goto(l) == pc' = l

-----------------------------------------------------------------------------
\* The player: a new game begins in one map, others are visited.
NewGame ==
  /\ At("idle") /\ game = "menu"
  /\ \E m \in Map : maps' = {m}
  /\ game' = "playing"
  /\ UNCHANGED << slotVars, loadVars, pc, todo, faults, crashes >>

Visit(m) ==
  /\ At("idle") /\ game = "playing" /\ m \notin maps
  /\ maps' = maps \cup {m}
  /\ UNCHANGED << slotVars, loadVars, game, pc, todo, faults, crashes >>

-----------------------------------------------------------------------------
\* SaveSlot
SaveBegin ==
  /\ At("idle") /\ game = "playing" /\ save < MaxSaves
  /\ save' = save + 1
  /\ count' = -1
  /\ before' = sav
  /\ loading' = 0 /\ got' = {}
  /\ Goto("backupDat")
  /\ UNCHANGED << sav, bak, rc, list, lost, maps, game, todo, faults, crashes >>

\* SaveBackup: when it fails SaveSlot only warns, and goes on to save.
BackupDat(ok) ==
  /\ At("backupDat") /\ Works(ok)
  /\ \/ sav[SAVE] = NoFile /\ ok /\ Goto("backupList") /\ UNCHANGED << sav, bak >>
     \/ /\ sav[SAVE] # NoFile /\ ok /\ ~Refuses(SAVE, bak)
        /\ bak' = [bak EXCEPT ![SAVE] = sav[SAVE]]
        /\ sav' = [sav EXCEPT ![SAVE] = NoFile]
        /\ Goto("backupList")
     \/ /\ sav[SAVE] # NoFile /\ (ok => Refuses(SAVE, bak))
        /\ Goto("open")
        /\ UNCHANGED << sav, bak >>
     \/ /\ sav[SAVE] # NoFile /\ ~ok     \* it cannot be opened: taken for absent
        /\ Goto("backupList")
        /\ UNCHANGED << sav, bak >>
  /\ UNCHANGED << count, rc, save, list, lost, before, loadVars, maps, game, todo, crashes >>

\* Mutant: the automap, which "*.SAV" also finds, is not counted.
BackupListMapsOnly(ok) ==
  /\ At("backupList") /\ Works(ok)
  /\ todo' = Files(sav) \cap SavName
  /\ IF ok THEN count' = Cardinality(todo' \ {AUTO}) /\ Goto("backupMaps")
           ELSE count' = count /\ Goto("open")
  /\ UNCHANGED << sav, bak, rc, save, list, lost, before, loadVars, maps, game, crashes >>

BackupList(ok) ==
  /\ At("backupList") /\ Works(ok)
  /\ todo' = Files(sav) \cap SavName
  /\ IF ok THEN count' = Cardinality(todo') /\ Goto("backupMaps")
           ELSE count' = count /\ Goto("open")
  /\ UNCHANGED << sav, bak, rc, save, list, lost, before, loadVars, maps, game, crashes >>

\* Mutant: an old target is removed on the way, and the new name not reached.
BackupMapLoses(n, ok) ==
  /\ At("backupMaps") /\ n \in todo /\ Works(ok)
  /\ sav' = [sav EXCEPT ![n] = NoFile]
  /\ todo' = todo \ {n}
  /\ UNCHANGED << bak, pc, count, rc, save, list, lost, before, loadVars, maps, game,
                  crashes >>

BackupMap(n, ok) ==
  /\ At("backupMaps") /\ n \in todo /\ Works(ok)
  /\ \/ /\ ok /\ ~Refuses(n, bak)
        /\ bak' = [bak EXCEPT ![n] = sav[n]]
        /\ sav' = [sav EXCEPT ![n] = NoFile]
        /\ todo' = todo \ {n}
        /\ UNCHANGED pc
     \/ /\ ok => Refuses(n, bak)
        /\ Goto("open")
        /\ UNCHANGED << sav, bak, todo >>
  /\ UNCHANGED << count, rc, save, list, lost, before, loadVars, maps, game, crashes >>

BackupDone ==
  /\ At("backupMaps") /\ todo = {}
  /\ Goto("open")
  /\ UNCHANGED << slotVars, loadVars, maps, game, todo, faults, crashes >>

\* On any error from here on the backup is restored and -1 returned.
Fail == rc' = -1 /\ Goto("erase1")
Succeed(ok, l) == IF ok THEN rc' = rc /\ Goto(l) ELSE Fail

Open(ok) ==
  /\ At("open") /\ Works(ok)
  /\ Succeed(ok, "head")
  /\ sav' = IF ok THEN [sav EXCEPT ![SAVE] = Partial] ELSE sav
  /\ UNCHANGED << bak, count, save, list, lost, before, loadVars, maps, game, todo, crashes >>

\* SaveHeader and the handlers before GameMap2Slot.
WriteHead(ok) ==
  /\ At("head") /\ Works(ok)
  /\ Succeed(ok, "mapSave")
  /\ UNCHANGED << sav, bak, count, save, list, lost, before, loadVars, maps, game, todo,
                  crashes >>

\* GameMap2Slot: the current map is written to MAPS, and the names of the
\* map files found there to SAVE.DAT.
MapSave(ok) ==
  /\ At("mapSave") /\ Works(ok)
  /\ \E m \in Map : maps' = maps \cup {m}
  /\ list' = [list EXCEPT ![save] = maps']
  /\ Succeed(ok, "clear")
  /\ UNCHANGED << sav, bak, count, save, lost, before, loadVars, game, todo, crashes >>

\* Then the slot's map files are removed: those SaveBackup did not rename.
ClearSav(n, ok) ==
  /\ At("clear") /\ n \in Files(sav) \cap SavName /\ Works(ok)
  /\ sav' = IF ok THEN [sav EXCEPT ![n] = NoFile] ELSE sav
  /\ Succeed(ok, "clear")
  /\ UNCHANGED << bak, count, save, list, lost, before, loadVars, maps, game, todo, crashes >>

ClearDone(ok) ==
  /\ At("clear") /\ Files(sav) \cap SavName = {} /\ Works(ok)
  /\ Succeed(ok, "copy")
  /\ todo' = maps \cup {AUTO}
  /\ UNCHANGED << sav, bak, count, save, list, lost, before, loadVars, maps, game, crashes >>

\* Mutant: a copy that fails half way is taken for a good one.
CopyMapUnchecked(n, ok) ==
  /\ At("copy") /\ n \in todo /\ Works(ok)
  /\ n = AUTO => todo = {AUTO}
  /\ sav' = [sav EXCEPT ![n] = IF ok THEN save ELSE Partial]
  /\ todo' = todo \ {n}
  /\ UNCHANGED << pc, rc, bak, count, save, list, lost, before, loadVars, maps, game,
                  crashes >>

\* copy_file, whose reads and writes are checked; a failing one may leave a part
\* of the file behind.
CopyMap(n, ok) ==
  /\ At("copy") /\ n \in todo /\ Works(ok)
  /\ n = AUTO => todo = {AUTO}
  /\ \E left \in IF ok THEN {save} ELSE {sav[n], Partial} :
       sav' = [sav EXCEPT ![n] = left]
  /\ todo' = todo \ {n}
  /\ Succeed(ok, "copy")
  /\ UNCHANGED << bak, count, save, list, lost, before, loadVars, maps, game, crashes >>

\* The copy is closed, and db_fclose's result ignored: copy_file returns 0.
CopyMapShort(n) ==
  /\ At("copy") /\ n \in todo /\ Works(FALSE)
  /\ n = AUTO => todo = {AUTO}
  /\ sav' = [sav EXCEPT ![n] = save]
  /\ todo' = todo \ {n}
  /\ lost' = [lost EXCEPT ![save] = @ \cup {n}]
  /\ UNCHANGED << bak, count, rc, save, list, before, pc, loadVars, maps, game, crashes >>

\* A write to SAVE.DAT fails and is not noticed: that of the signature, that of
\* the name of a map, or what db_fclose writes out.
LoseWrite ==
  /\ pc \in {"head", "copy", "tail"} /\ Works(FALSE)
  /\ lost' = [lost EXCEPT ![save] = @ \cup {SAVE}]
  /\ UNCHANGED << sav, bak, count, rc, save, list, before, pc, loadVars, maps, game,
                  todo, crashes >>

\* The handlers after GameMap2Slot; the file is closed.
WriteTail(ok) ==
  /\ At("tail") /\ Works(ok)
  /\ IF ok THEN rc' = 0 /\ Goto("eraseBak") ELSE Fail
  /\ sav' = IF ok THEN [sav EXCEPT ![SAVE] = save] ELSE sav
  /\ todo' = Files(bak)
  /\ UNCHANGED << bak, count, save, list, lost, before, loadVars, maps, game, crashes >>

CopyDone ==
  /\ At("copy") /\ todo = {}
  /\ Goto("tail")
  /\ UNCHANGED << slotVars, loadVars, maps, game, todo, faults, crashes >>

\* MapDirErase(.., "BAK"): it stops where a removal fails, and nobody asks.
EraseBak(n, ok) ==
  /\ At("eraseBak") /\ n \in todo /\ Works(ok)
  /\ bak' = IF ok THEN [bak EXCEPT ![n] = NoFile] ELSE bak
  /\ todo' = IF ok THEN todo \ {n} ELSE {}
  /\ UNCHANGED << sav, count, rc, save, list, lost, before, pc, loadVars, maps, game, crashes >>

SaveEnd ==
  /\ At("eraseBak") /\ todo = {}
  /\ Goto("idle")
  /\ UNCHANGED << slotVars, loadVars, maps, game, todo, faults, crashes >>

-----------------------------------------------------------------------------
\* EraseSave, which RestoreSave calls first (1) and when it fails (2). What
\* cannot be removed is left.
EraseDat(call, ok) ==
  /\ At(call) /\ call \in {"erase1", "erase2"} /\ Works(ok)
  /\ sav' = IF ok THEN [sav EXCEPT ![SAVE] = NoFile] ELSE sav
  /\ todo' = Files(sav) \cap SavName
  /\ Goto(IF call = "erase1" THEN "erase1maps" ELSE "erase2maps")
  /\ UNCHANGED << bak, count, rc, save, list, lost, before, loadVars, maps, game, crashes >>

EraseMap(n, ok) ==
  /\ At("erase1maps") \/ At("erase2maps")
  /\ n \in todo /\ Works(ok)
  /\ sav' = IF ok THEN [sav EXCEPT ![n] = NoFile] ELSE sav
  /\ todo' = todo \ {n}
  /\ UNCHANGED << bak, count, rc, save, list, lost, before, pc, loadVars, maps, game, crashes >>

\* Mutant: the new map files are left to be replaced one by one.
EraseDoneEarly(ok) ==
  /\ At("erase1maps") \/ At("erase2maps")
  /\ Works(ok)
  /\ IF At("erase1maps") THEN Goto("restoreDat") /\ todo' = {}
                         ELSE Goto("eraseBak") /\ todo' = Files(bak)
  /\ UNCHANGED << slotVars, loadVars, maps, game, crashes >>

\* The loop is over; or the directory cannot be listed (not ok), and nothing
\* is removed.
EraseDone(ok) ==
  /\ At("erase1maps") \/ At("erase2maps")
  /\ Works(ok)
  /\ IF ok THEN todo = {} ELSE todo = Files(sav) \cap SavName
  /\ IF At("erase1maps") THEN Goto("restoreDat") /\ todo' = {}
                         ELSE Goto("eraseBak") /\ todo' = Files(bak)
  /\ UNCHANGED << slotVars, loadVars, maps, game, crashes >>

\* RestoreSave removes the file in the way, if there still is one, and renames
\* its backup. When that goes wrong (not ok) the file may stay; it is in the
\* way of the rename unless rename replaces it.
Moves(n, ok) == bak[n] # NoFile /\ (ok \/ (replaces /\ sav[n] # NoFile))
Remains(n, ok) == {[sav EXCEPT ![n] = NoFile]} \cup (IF ok THEN {} ELSE {sav})

RestoreDat(ok) ==
  /\ At("restoreDat") /\ Works(ok)
  /\ \/ /\ Moves(SAVE, ok)
        /\ sav' = [sav EXCEPT ![SAVE] = bak[SAVE]]
        /\ bak' = [bak EXCEPT ![SAVE] = NoFile]
        /\ Goto("restoreList")
     \/ /\ ok => bak[SAVE] = NoFile
        /\ sav' \in Remains(SAVE, ok)
        /\ UNCHANGED bak
        /\ Goto("erase2")
  /\ UNCHANGED << count, rc, save, list, lost, before, loadVars, maps, game, todo, crashes >>

RestoreList(ok) ==
  /\ At("restoreList") /\ Works(ok)
  /\ todo' = Files(bak)
  /\ Goto(CASE ~ok -> "eraseBak"
            [] ok /\ Cardinality(todo') # count -> "erase2"
            [] OTHER -> "restoreMaps")
  /\ UNCHANGED << slotVars, loadVars, maps, game, crashes >>

RestoreMap(n, ok) ==
  /\ At("restoreMaps") /\ n \in todo /\ Works(ok)
  /\ \/ /\ Moves(n, ok)
        /\ sav' = [sav EXCEPT ![n] = bak[n]]
        /\ bak' = [bak EXCEPT ![n] = NoFile]
        /\ todo' = todo \ {n}
        /\ UNCHANGED pc
     \/ /\ ~ok
        /\ sav' \in Remains(n, ok)
        /\ Goto("erase2")
        /\ UNCHANGED << bak, todo >>
  /\ UNCHANGED << count, rc, save, list, lost, before, loadVars, maps, game, crashes >>

RestoreDone ==
  /\ At("restoreMaps") /\ todo = {}
  /\ Goto("eraseBak") /\ todo' = Files(bak)
  /\ UNCHANGED << slotVars, loadVars, maps, game, faults, crashes >>

-----------------------------------------------------------------------------
\* LoadSlot fails: the game has been reset.
LoadFails == Goto("idle") /\ game' = "menu"

\* Mutant: a SAVE.DAT that ends early is read for what it has.
LoadBeginPartial ==
  /\ At("idle") /\ sav[SAVE] # NoFile
  /\ game' = "menu"
  /\ loading' = sav[SAVE] /\ got' = {} /\ Goto("loadErase")
  /\ UNCHANGED << slotVars, maps, todo, faults, crashes >>

\* Header, PrepLoad and the handlers before SlotMap2Game. Of a SAVE.DAT that
\* ends early some handler will run out of data, before or after the maps.
LoadBegin ==
  /\ At("idle") /\ sav[SAVE] # NoFile
  /\ game' = "menu"
  /\ IF sav[SAVE] = Partial
     THEN maps' \in {maps, {}} /\ UNCHANGED << loadVars, pc >>
     ELSE /\ loading' = sav[SAVE] /\ got' = {} /\ Goto("loadErase")
          /\ UNCHANGED maps
  /\ UNCHANGED << slotVars, todo, faults, crashes >>

\* A save of which something was lost may fail at any point of the load.
LoadGarbled ==
  /\ pc \in LoadPc /\ lost[loading] # {}
  /\ LoadFails
  /\ UNCHANGED << slotVars, loadVars, maps, todo, faults, crashes >>

\* SlotMap2Game. The names are those of the list, unless SAVE.DAT lost some:
\* the bytes read in their place may name any, and the first that cannot be
\* read ends the loop.
LoadErase(ok) ==
  /\ At("loadErase") /\ Works(ok)
  /\ maps' = IF ok THEN {} ELSE maps
  /\ todo' \in IF SAVE \in lost[loading] THEN SUBSET Map ELSE {list[loading]}
  /\ IF ok THEN Goto("loadCopy") /\ UNCHANGED game ELSE LoadFails
  /\ UNCHANGED << slotVars, loadVars, crashes >>

LoadCopy(m, ok) ==
  /\ At("loadCopy") /\ m \in todo /\ Works(ok)
  /\ IF ok /\ sav[m] # NoFile
     THEN /\ maps' = maps \cup {m} /\ got' = got \cup {sav[m]}
          /\ todo' = todo \ {m}
          /\ UNCHANGED << pc, game >>
     ELSE LoadFails /\ UNCHANGED << maps, got, todo >>
  /\ UNCHANGED << slotVars, loading, crashes >>

LoadCopied ==
  /\ At("loadCopy") /\ todo = {}
  /\ Goto("loadAuto")
  /\ UNCHANGED << slotVars, loadVars, maps, game, todo, faults, crashes >>

\* An automap of another save is found out only if its length differs.
LoadAuto(ok) ==
  /\ At("loadAuto") /\ Works(ok)
  /\ \/ ok /\ sav[AUTO] # NoFile /\ Goto("loadEnd") /\ UNCHANGED game
     \/ (~ok \/ sav[AUTO] # loading) /\ LoadFails
  /\ UNCHANGED << slotVars, loadVars, maps, todo, crashes >>

LoadEnd(ok) ==
  /\ At("loadEnd") /\ Works(ok)
  /\ IF ok THEN Goto("idle") /\ game' = "playing" ELSE LoadFails
  /\ UNCHANGED << slotVars, loadVars, maps, todo, crashes >>

-----------------------------------------------------------------------------
\* The program stops; a file being copied may be left in part.
Crash ==
  /\ crashes < MaxCrashes /\ crashes' = crashes + 1
  /\ Goto("idle") /\ game' = "menu" /\ todo' = {}
  /\ \/ At("copy") /\ (\E n \in todo : sav' = [sav EXCEPT ![n] = Partial])
     \/ UNCHANGED sav
  /\ count' = -1
  /\ UNCHANGED << bak, rc, save, list, lost, before, loadVars, maps, faults >>

Step(ok) ==
  \/ BackupDat(ok) \/ BackupList(ok) \/ Open(ok) \/ WriteHead(ok) \/ MapSave(ok)
  \/ ClearDone(ok) \/ WriteTail(ok) \/ EraseDone(ok) \/ RestoreDat(ok)
  \/ RestoreList(ok) \/ LoadErase(ok) \/ LoadAuto(ok) \/ LoadEnd(ok)
  \/ \E call \in {"erase1", "erase2"} : EraseDat(call, ok)
  \/ \E n \in Name :
       \/ BackupMap(n, ok) \/ ClearSav(n, ok) \/ CopyMap(n, ok)
       \/ EraseBak(n, ok) \/ EraseMap(n, ok) \/ RestoreMap(n, ok)
  \/ \E m \in Map : LoadCopy(m, ok)

Move ==
  \/ NewGame \/ SaveBegin \/ BackupDone \/ CopyDone \/ SaveEnd \/ RestoreDone
  \/ LoadBegin \/ LoadCopied \/ Crash \/ LoseWrite \/ LoadGarbled
  \/ \E n \in Name : CopyMapShort(n)
  \/ \E m \in Map : Visit(m)
  \/ \E ok \in BOOLEAN : Step(ok)

Next == Move /\ UNCHANGED replaces

Spec == Init /\ [][Next]_vars

-----------------------------------------------------------------------------
\* The slot has SAVE.DAT of save k, and each file that it names, of save k too.
OfSave(k) ==
  /\ sav[SAVE] = k
  /\ \A n \in list[k] \cup {AUTO} : sav[n] = k

\* And they are all that was written to them.
Whole(k) == OfSave(k) /\ lost[k] = {}

Ended == At("eraseBak")

\* When SaveSlot is about to return 0, whatever failed before and whatever it
\* restored, the slot holds the new save: none of its files is missing, cut
\* short by an operation SaveSlot saw fail, or of an older save. It is whole
\* unless a write failed that nobody checks.
SuccessIsNewSave ==
  Ended /\ rc = 0 => OfSave(save) /\ (faults = 0 => Whole(save))

\* After at most one failing operation SaveSlot leaves the files of one save
\* and never a mixture: of the new one when it returns 0, of the one that was
\* there before when it returns -1. (When the failing operation is one that is
\* not checked it returns 0 and drops the backup, though the new save is not
\* whole: that one failure does cost a saved game.)
OneFaultAllOrNothing ==
  Ended /\ faults <= 1 /\ crashes = 0 =>
    IF rc = 0 THEN OfSave(save) ELSE sav = before

\* At no instant of a save in which nothing fails is the only copy of a saved
\* game gone: until the new save is whole, each file of the old one is there or
\* in the backup. (So a player can recover it by hand after a crash; the code
\* itself does not.)
OldSaveOnDisk ==
  faults = 0 /\ crashes = 0 /\ pc \in SavePc /\ ~Whole(save) =>
    \A n \in Files(before) : before[n] \in {sav[n], bak[n]}

\* A load that succeeds has read the maps of one save only, and that is the
\* save SAVE.DAT belongs to, after any two failures; after any one where rename
\* does not replace files. (One more may mix two saves: a crash that leaves an
\* old backup behind, which a save that fails then restores.) Of a SAVE.DAT that
\* lost a write nothing is claimed: it may name the maps of other saves.
LoadGivesOneSave ==
  /\ At("loadEnd") /\ SAVE \notin lost[loading]
  /\ faults + crashes <= (IF replaces THEN 2 ELSE 1)
  => got \subseteq {loading}
=============================================================================
