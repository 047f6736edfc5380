----------------------------- MODULE SnapshotFile -----------------------------
(***************************************************************************)
(* How a snapshot reaches the disk (internal/snapshot/snapshot.go):        *)
(* SaveAtomically call by call, crashes between any two of them, and       *)
(* LoadLatest at the next start.                                           *)
(*                                                                         *)
(* The engine saves one snapshot at a time, under the drain, with a        *)
(* watermark that never falls.  Saves are numbered; a save is the content  *)
(* of the file it writes.  A final name is its watermark, which is padded  *)
(* to the width of a uint64, so the order of names is the order of         *)
(* watermarks.  Content that is not synced and directory entries that are  *)
(* not synced may survive a crash or not, each on its own.                 *)
(***************************************************************************)
EXTENDS Integers, FiniteSets, FiniteSetsExt

CONSTANTS MaxSaves,   \* bound: calls of SaveAtomically
          MaxSeq,     \* bound: the largest watermark
          MaxCrashes  \* bound: crashes

ASSUME SnapshotFileAssumption ==
  MaxSaves \in Nat \ {0} /\ MaxSeq \in Nat /\ MaxCrashes \in Nat

VARIABLES pc,       \* where SaveAtomically is, or "down" after a crash
          save,     \* the number of the latest save
          seq,      \* maxSeq of each save so far
          temp,     \* the temporary names that exist, each with its save
          entry,    \* the final names that exist, each with its save
          stable,   \* the final names as last synced
          whole,    \* the saves whose content is complete
          synced,   \* the saves whose content is synced
          returned, \* the last save for which SaveAtomically returned nil
          loaded,   \* what LoadLatest returned at the last start
          crashes   \* crashes so far

vars == <<pc, save, seq, temp, entry, stable, whole, synced, returned, loaded, crashes>>

Saves == 1..MaxSaves
Names == 0..MaxSeq
NoSave == 0
Absent == [n \in Names |-> NoSave]

Init ==
  /\ pc = "idle"
  /\ save = 0
  /\ seq = [v \in Saves |-> 0]
  /\ temp = Absent
  /\ entry = Absent
  /\ stable = Absent
  /\ whole = {}
  /\ synced = {}
  /\ returned = NoSave
  /\ loaded = NoSave
  /\ crashes = 0

-----------------------------------------------------------------------------
Name == seq[save]

\* an error of any call ends SaveAtomically; what it has done so far stays
Fails == pc' = "idle" /\ UNCHANGED <<save, seq, returned, loaded, crashes>>
Proceeds(to) == pc' = to /\ UNCHANGED <<save, seq, returned, loaded, crashes>>

\* the snapshot is encoded and the temporary file opened, empty even if one is left
OpenTemp ==
  /\ pc = "idle"
  /\ save < MaxSaves
  /\ save' = save + 1
  /\ \E n \in Names :
       /\ save # 0 => n >= Name
       /\ seq' = [seq EXCEPT ![save + 1] = n]
       /\ temp' = [temp EXCEPT ![n] = save + 1]
  /\ pc' = "write"
  /\ UNCHANGED <<entry, stable, whole, synced, returned, loaded, crashes>>

Write ==
  /\ pc = "write"
  /\ \/ Proceeds("sync") /\ whole' = whole \cup {save}
     \/ Fails /\ UNCHANGED whole
  /\ UNCHANGED <<temp, entry, stable, synced>>

\* mutant of Sync: the file is closed without a sync
SyncNothing ==
  /\ pc = "sync"
  /\ Proceeds("rename")
  /\ UNCHANGED <<synced, temp, entry, stable, whole>>

\* Sync and Close
Sync ==
  /\ pc = "sync"
  /\ \/ Proceeds("rename") /\ synced' = synced \cup {save}
     \/ Fails /\ UNCHANGED synced
  /\ UNCHANGED <<temp, entry, stable, whole>>

Rename ==
  /\ pc = "rename"
  /\ \/ /\ Proceeds("syncDir")
        /\ temp' = [temp EXCEPT ![Name] = NoSave]
        /\ entry' = [entry EXCEPT ![Name] = save]
     \/ Fails /\ UNCHANGED <<temp, entry>>
  /\ UNCHANGED <<stable, whole, synced>>

\* mutant of syncDir: its error is not looked at
syncDirIgnored ==
  /\ pc = "syncDir"
  /\ pc' = "idle"
  /\ returned' = save
  /\ stable' \in {stable, entry}
  /\ UNCHANGED <<save, seq, loaded, crashes, temp, entry, whole, synced>>

\* syncDir, and the return of nil
syncDir ==
  /\ pc = "syncDir"
  /\ \/ /\ pc' = "idle"
        /\ returned' = save
        /\ stable' = entry
        /\ UNCHANGED <<save, seq, loaded, crashes>>
     \/ Fails /\ UNCHANGED stable
  /\ UNCHANGED <<temp, entry, whole, synced>>

SaveAtomically == OpenTemp \/ Write \/ Sync \/ Rename \/ syncDir

-----------------------------------------------------------------------------
\* each name keeps its synced or its latest entry, each unsynced save its content or not
Crash ==
  /\ pc # "down"
  /\ crashes < MaxCrashes
  /\ crashes' = crashes + 1
  /\ \E kept \in SUBSET Names :
       entry' = [n \in Names |-> IF n \in kept THEN entry[n] ELSE stable[n]]
  /\ stable' = entry'
  /\ \E kept \in SUBSET (whole \ synced) : whole' = kept \cup (whole \cap synced)
  /\ synced' = 1..save
  /\ pc' = "down"
  /\ UNCHANGED <<save, seq, temp, returned, loaded>>

Torn == -1

\* the last name decides; a file that does not decode or whose checksum differs is an
\* error, with no way back to an older one
LoadLatest ==
  /\ pc = "down"
  /\ LET files == {n \in Names : entry[n] # NoSave}
         latest == entry[Max(files)]
     IN  loaded' = IF files = {} THEN NoSave ELSE IF latest \in whole THEN latest ELSE Torn
  /\ pc' = "idle"
  /\ UNCHANGED <<save, seq, temp, entry, stable, whole, synced, returned, crashes>>

Next == SaveAtomically \/ Crash \/ LoadLatest

Spec == Init /\ [][Next]_vars

-----------------------------------------------------------------------------
(***************************************************************************)
(* Properties.                                                             *)
(***************************************************************************)
\* The content is synced before the rename gives it its final name, so no sequence of
\* failed saves, left-over temporary files and crashes makes a start fail on an
\* incomplete snapshot, which LoadLatest could not get past.
StartsFromWhole == loaded # Torn

\* A save that returned nil is not lost: whatever later saves and crashes do, a start
\* loads it or a later one, never an older one.
SavedStays == [][pc = "down" /\ pc' = "idle" => loaded' >= returned]_vars
=============================================================================
