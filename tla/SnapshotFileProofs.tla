-------------------------- MODULE SnapshotFileProofs --------------------------
(***************************************************************************)
(* A start finds a whole snapshot, and none older than the last that was   *)
(* saved, for any number of saves, watermarks, failed calls and crashes.   *)
(***************************************************************************)
EXTENDS SnapshotFile, WellFoundedInduction, TLAPS

LEMMA LeastNat ==
  ASSUME NEW T, T \subseteq Nat, T # {}
  PROVE  \E x \in T : \A y \in T : x <= y
<1> DEFINE R == OpToRel(<, Nat)
<1>1. IsWellFoundedOn(R, Nat)
  BY NatLessThanWellFounded
<1>2. PICK x \in T : \A y \in T : ~(<<y, x>> \in R)
  <2> HIDE DEF R
  <2>. QED BY <1>1, WFMin
<1>3. R = {ss \in Nat \X Nat : ss[1] < ss[2]}
  BY Zenon DEF OpToRel
<1>4. ASSUME NEW y \in T PROVE x <= y
  <2> HIDE DEF R
  <2>1. y < x => <<y, x>> \in R
    BY <1>3
  <2>2. ~(y < x)
    BY <1>2, <2>1
  <2>. QED BY <2>2
<1>. QED BY <1>4

\* the last name of a directory that has one
LEMMA MaxOf ==
  ASSUME NEW N \in Nat, NEW S, S \subseteq 0..N, S # {}
  PROVE  Max(S) \in S /\ \A y \in S : y <= Max(S)
<1> DEFINE D == {d \in Nat : N - d \in S}
<1>1. D \subseteq Nat /\ D # {}
  <2>1. PICK y \in S : TRUE OBVIOUS
  <2>2. N - y \in D BY <2>1
  <2>. QED BY <2>2
<1>2. PICK d \in D : \A e \in D : d <= e
  BY <1>1, LeastNat
<1>3. N - d \in S
  OBVIOUS
<1>4. ASSUME NEW y \in S PROVE y <= N - d
  <2>1. N - y \in D
    OBVIOUS
  <2>2. d <= N - y
    BY <1>2, <2>1
  <2>. QED BY <2>2
<1>5. \E x \in S : \A y \in S : x >= y
  BY <1>3, <1>4
<1>. QED BY <1>5 DEF Max

-----------------------------------------------------------------------------
FileTypes ==
  /\ pc \in {"idle", "write", "sync", "rename", "syncDir", "down"}
  /\ save \in Nat /\ save <= MaxSaves
  /\ seq \in [Saves -> Names]
  /\ entry \in [Names -> Nat] /\ \A n \in Names : entry[n] <= save
  /\ stable \in [Names -> Nat] /\ \A n \in Names : stable[n] <= save
  /\ returned \in Nat /\ returned <= save
  /\ pc \notin {"idle", "down"} => save # 0

\* A name is given only to a save that is complete and synced: what a crash may do
\* to the content of a file, it cannot do to a file with a final name.
NamedWhole ==
  /\ \A n \in Names : entry[n] # NoSave => entry[n] \in whole \cap synced
  /\ \A n \in Names : stable[n] # NoSave => stable[n] \in whole \cap synced
  /\ pc = "sync" => save \in whole
  /\ pc \in {"rename", "syncDir"} => save \in whole \cap synced

\* The watermark does not fall from save to save, each file has the name of its
\* watermark, and a name only passes to a later save.
NamesGrow ==
  /\ \A v, w \in 1..save : v <= w => seq[v] <= seq[w]
  /\ \A n \in Names : entry[n] # NoSave => seq[entry[n]] = n
  /\ \A n \in Names : stable[n] # NoSave => seq[stable[n]] = n
  /\ \A n \in Names : stable[n] <= entry[n]
  /\ pc = "syncDir" => entry[seq[save]] = save

\* the save that returned nil, or a later one of the same name, is in the directory
\* that a crash leaves
ReturnedStable == returned # NoSave => stable[seq[returned]] >= returned

FileInv == FileTypes /\ NamedWhole /\ NamesGrow /\ ReturnedStable

-----------------------------------------------------------------------------
LEMMA Bounds ==
  /\ Names \subseteq Nat
  /\ MaxSaves \in Nat
  /\ \A v \in Nat : v # 0 /\ v <= MaxSaves => v \in Saves
BY SnapshotFileAssumption DEF Names, Saves

LEMMA WatermarkType ==
  ASSUME FileInv, NEW v \in Nat, v # 0, v <= save
  PROVE  v \in Saves /\ seq[v] \in Names /\ seq[v] \in Nat
<1>1. v \in Saves
  BY Bounds DEF FileInv, FileTypes
<1>. QED BY <1>1, Bounds DEF FileInv, FileTypes

LEMMA InitFile == Init => FileInv
<1> SUFFICES ASSUME Init PROVE FileInv
  OBVIOUS
<1>1. FileTypes
  BY SnapshotFileAssumption DEF Init, FileTypes, Saves, Names, NoSave, Absent
<1>2. NamedWhole
  BY DEF Init, NamedWhole, Absent
<1>3. NamesGrow
  BY DEF Init, NamesGrow, Absent, NoSave
<1>4. ReturnedStable
  BY DEF Init, ReturnedStable
<1>. QED BY <1>1, <1>2, <1>3, <1>4 DEF FileInv

LEMMA OpenTempKeeps == FileInv /\ OpenTemp => FileInv'
<1> SUFFICES ASSUME FileInv, OpenTemp PROVE FileInv'
  OBVIOUS
<1> USE Bounds DEF NoSave
<1>1. PICK n \in Names : /\ save # 0 => n >= seq[save]
                         /\ seq' = [seq EXCEPT ![save + 1] = n]
  BY DEF OpenTemp, Name
<1>2. /\ pc' = "write" /\ save' = save + 1 /\ save < MaxSaves
      /\ UNCHANGED <<entry, stable, whole, synced, returned, loaded, crashes>>
  BY DEF OpenTemp
<1>3. FileTypes'
  BY <1>1, <1>2 DEF FileInv, FileTypes
<1>4. NamedWhole'
  BY <1>2 DEF FileInv, NamedWhole
<1>5. \A v \in 1..save : seq'[v] = seq[v]
  BY <1>1 DEF FileInv, FileTypes
<1>6. \A v \in 1..save : v <= save /\ save # 0 /\ seq[v] <= seq[save]
  BY DEF FileInv, FileTypes, NamesGrow
<1>7. \A v, w \in 1..save' : v <= w => seq'[v] <= seq'[w]
  <2> SUFFICES ASSUME NEW v \in 1..save', NEW w \in 1..save', v <= w
               PROVE  seq'[v] <= seq'[w]
    OBVIOUS
  <2>1. CASE w # save + 1
    BY <1>2, <1>5, <2>1 DEF FileInv, FileTypes, NamesGrow
  <2>2. CASE w = save + 1 /\ v # w
    <3>1. v \in 1..save /\ seq'[v] = seq[v] /\ seq[v] <= seq[save] /\ save # 0
      BY <1>2, <1>5, <1>6, <2>2 DEF FileInv, FileTypes
    <3>2. seq'[w] = n /\ n >= seq[save]
      BY <1>1, <1>2, <2>2, <3>1 DEF FileInv, FileTypes
    <3>3. save \in Nat
      BY DEF FileInv, FileTypes
    <3>4. seq[v] \in Nat /\ seq[save] \in Nat /\ n \in Nat
      BY <3>1, <3>3, WatermarkType
    <3>. QED BY <3>1, <3>2, <3>4
  <2>3. CASE w = save + 1 /\ v = w
    BY <1>1, <2>3, <1>2 DEF FileInv, FileTypes
  <2>. QED BY <2>1, <2>2, <2>3
<1>8. NamesGrow'
  BY <1>2, <1>5, <1>7 DEF FileInv, FileTypes, NamesGrow
<1>9. ReturnedStable'
  BY <1>2, <1>5 DEF FileInv, FileTypes, ReturnedStable
<1>. QED BY <1>3, <1>4, <1>8, <1>9 DEF FileInv

LEMMA CallKeeps == FileInv /\ (Write \/ Sync \/ Rename \/ syncDir) => FileInv'
<1> SUFFICES ASSUME FileInv, Write \/ Sync \/ Rename \/ syncDir PROVE FileInv'
  OBVIOUS
<1> USE Bounds DEF NoSave
<1>1. CASE Write
  <2>1. /\ pc = "write" /\ pc' \in {"sync", "idle"}
        /\ whole' = whole \/ whole' = whole \cup {save}
        /\ pc' = "sync" => whole' = whole \cup {save}
        /\ UNCHANGED <<save, seq, returned, entry, stable, synced>>
    BY <1>1 DEF Write, Proceeds, Fails
  <2>2. FileTypes'
    BY <2>1 DEF FileInv, FileTypes
  <2>3. NamedWhole'
    BY <2>1 DEF FileInv, NamedWhole
  <2>4. NamesGrow' /\ ReturnedStable'
    BY <2>1 DEF FileInv, NamesGrow, ReturnedStable
  <2>. QED BY <2>2, <2>3, <2>4 DEF FileInv
<1>2. CASE Sync
  <2>1. /\ pc = "sync" /\ pc' \in {"rename", "idle"}
        /\ synced' = synced \/ synced' = synced \cup {save}
        /\ pc' = "rename" => synced' = synced \cup {save}
        /\ UNCHANGED <<save, seq, returned, entry, stable, whole>>
    BY <1>2 DEF Sync, Proceeds, Fails
  <2>2. FileTypes'
    BY <2>1 DEF FileInv, FileTypes
  <2>3. NamedWhole'
    BY <2>1 DEF FileInv, NamedWhole
  <2>4. NamesGrow' /\ ReturnedStable'
    BY <2>1 DEF FileInv, NamesGrow, ReturnedStable
  <2>. QED BY <2>2, <2>3, <2>4 DEF FileInv
<1>3. CASE Rename
  <2>1. /\ pc = "rename" /\ pc' \in {"syncDir", "idle"}
        /\ \/ pc' = "syncDir" /\ entry' = [entry EXCEPT ![seq[save]] = save]
           \/ pc' = "idle" /\ entry' = entry
        /\ UNCHANGED <<save, seq, returned, stable, whole, synced>>
    BY <1>3 DEF Rename, Proceeds, Fails, Name
  <2>2. seq[save] \in Names /\ save \in 1..MaxSaves
    BY <2>1 DEF FileInv, FileTypes
  <2>3. FileTypes'
    BY <2>1, <2>2 DEF FileInv, FileTypes
  <2>4. NamedWhole'
    BY <2>1, <2>2 DEF FileInv, FileTypes, NamedWhole
  <2>5. NamesGrow'
    BY <2>1, <2>2 DEF FileInv, FileTypes, NamesGrow
  <2>6. ReturnedStable'
    BY <2>1 DEF FileInv, ReturnedStable
  <2>. QED BY <2>3, <2>4, <2>5, <2>6 DEF FileInv
<1>4. CASE syncDir
  <2>1. /\ pc = "syncDir" /\ pc' = "idle"
        /\ \/ returned' = save /\ stable' = entry
           \/ returned' = returned /\ stable' = stable
        /\ UNCHANGED <<save, seq, entry, whole, synced>>
    BY <1>4 DEF syncDir, Fails
  <2>2. FileTypes'
    BY <2>1 DEF FileInv, FileTypes
  <2>3. NamedWhole'
    BY <2>1 DEF FileInv, NamedWhole
  <2>4. NamesGrow'
    BY <2>1 DEF FileInv, FileTypes, NamesGrow
  <2>5. ReturnedStable'
    BY <2>1 DEF FileInv, FileTypes, NamesGrow, ReturnedStable
  <2>. QED BY <2>2, <2>3, <2>4, <2>5 DEF FileInv
<1>. QED BY <1>1, <1>2, <1>3, <1>4

LEMMA CrashKeeps == FileInv /\ Crash => FileInv'
<1> SUFFICES ASSUME FileInv, Crash PROVE FileInv'
  OBVIOUS
<1> USE Bounds DEF NoSave
<1>1. /\ pc' = "down" /\ stable' = entry' /\ synced' = 1..save
      /\ UNCHANGED <<save, seq, returned>>
  BY DEF Crash
<1>2. PICK kept \in SUBSET Names :
        entry' = [n \in Names |-> IF n \in kept THEN entry[n] ELSE stable[n]]
  BY DEF Crash
<1>3. whole \cap synced \subseteq whole' /\ whole' \subseteq whole
  BY DEF Crash
<1>4. \A n \in Names : entry'[n] \in {entry[n], stable[n]} /\ stable[n] <= entry'[n]
  BY <1>2 DEF FileInv, FileTypes, NamesGrow
<1>5. FileTypes'
  BY <1>1, <1>2, <1>3 DEF FileInv, FileTypes
<1>6. NamedWhole'
  BY <1>1, <1>3, <1>4 DEF FileInv, FileTypes, NamedWhole
<1>7. NamesGrow'
  BY <1>1, <1>4, <1>5 DEF FileInv, FileTypes, NamesGrow
<1>8. ReturnedStable'
  <2> SUFFICES ASSUME returned # NoSave PROVE stable'[seq[returned]] >= returned
    BY <1>1 DEF ReturnedStable
  <2>1. PICK n \in Names : n = seq[returned]
    BY WatermarkType DEF FileInv, FileTypes
  <2>2. stable[n] >= returned
    BY <2>1 DEF FileInv, ReturnedStable
  <2>3. stable'[n] = entry'[n] /\ stable[n] <= entry'[n]
    BY <1>1, <1>4
  <2>4. stable'[n] \in Nat /\ stable[n] \in Nat /\ returned \in Nat
    BY <1>5 DEF FileInv, FileTypes
  <2>5. stable'[n] >= returned
    BY <2>2, <2>3, <2>4
  <2>. QED BY <2>1, <2>5
<1>. QED BY <1>5, <1>6, <1>7, <1>8 DEF FileInv

LEMMA FileStep == FileInv /\ [Next]_vars => FileInv'
<1> SUFFICES ASSUME FileInv, [Next]_vars PROVE FileInv'
  OBVIOUS
<1>1. CASE LoadLatest \/ UNCHANGED vars
  <2>1. /\ pc' \in {pc, "idle"}
        /\ UNCHANGED <<save, seq, returned, entry, stable, whole, synced>>
    BY <1>1 DEF LoadLatest, vars
  <2>2. FileTypes'
    BY <2>1 DEF FileInv, FileTypes
  <2>3. NamedWhole' /\ NamesGrow' /\ ReturnedStable'
    BY <2>1 DEF FileInv, NamedWhole, NamesGrow, ReturnedStable
  <2>. QED BY <2>2, <2>3 DEF FileInv
<1>. QED BY <1>1, OpenTempKeeps, CallKeeps, CrashKeeps DEF Next, SaveAtomically

-----------------------------------------------------------------------------
\* LoadLatest takes the file of the last name: it is whole, and no save that returned
\* nil is later.
LEMMA LoadsLatest ==
  ASSUME FileInv, LoadLatest
  PROVE  loaded' # Torn /\ loaded' >= returned
<1> USE Bounds DEF NoSave
<1> DEFINE files == {n \in Names : entry[n] # NoSave}
           latest == entry[Max(files)]
<1>1. loaded' = IF files = {} THEN NoSave ELSE IF latest \in whole THEN latest ELSE Torn
  BY DEF LoadLatest
<1>2. returned # NoSave => /\ seq[returned] \in files
                           /\ entry[seq[returned]] >= returned
  <2> SUFFICES ASSUME returned # NoSave
               PROVE  seq[returned] \in files /\ entry[seq[returned]] >= returned
    OBVIOUS
  <2>1. PICK n \in Names : n = seq[returned]
    BY WatermarkType DEF FileInv, FileTypes
  <2>2. stable[n] >= returned
    BY <2>1 DEF FileInv, ReturnedStable
  <2>3. stable[n] <= entry[n]
    BY DEF FileInv, NamesGrow
  <2>4. stable[n] \in Nat /\ entry[n] \in Nat /\ returned \in Nat
    BY DEF FileInv, FileTypes
  <2>5. entry[n] >= returned /\ entry[n] # 0
    BY <2>2, <2>3, <2>4
  <2>. QED BY <2>1, <2>5
<1>3. CASE files = {}
  BY <1>1, <1>2, <1>3 DEF FileInv, FileTypes, Torn
<1>4. CASE files # {}
  <2>1. Max(files) \in files /\ \A y \in files : y <= Max(files)
    <3>1. files \subseteq 0..MaxSeq /\ MaxSeq \in Nat
      BY SnapshotFileAssumption DEF Names
    <3> HIDE DEF files
    <3>. QED BY <1>4, <3>1, MaxOf
  <2> DEFINE m == Max(files)
  <2> HIDE DEF m
  <2>2. m \in Names /\ entry[m] # NoSave /\ entry[m] \in whole /\ seq[entry[m]] = m
    BY <2>1 DEF FileInv, NamedWhole, NamesGrow, m
  <2>3. loaded' = entry[m] /\ entry[m] \in Nat /\ entry[m] <= save
    <3>1. latest = entry[m]
      BY DEF m
    <3> HIDE DEF files, latest
    <3>2. loaded' = entry[m]
      BY <1>1, <1>4, <2>2, <3>1
    <3>. QED BY <3>2, <2>2 DEF FileInv, FileTypes
  <2>4. CASE returned = NoSave
    BY <2>3, <2>4 DEF Torn, FileInv, FileTypes
  <2>5. CASE returned # NoSave
    <3>1. seq[returned] <= m /\ returned \in Nat /\ returned <= save
      BY <1>2, <2>1, <2>5 DEF m, FileInv, FileTypes
    <3>2. seq[returned] \in Nat /\ m \in Nat /\ save \in Nat
      BY <2>2, <2>5, <3>1, WatermarkType DEF FileInv, FileTypes
    <3>3. CASE seq[returned] = m
      BY <1>2, <2>3, <2>5, <3>3 DEF Torn
    <3>4. CASE seq[returned] < m
      <4>1. entry[m] <= returned => seq[entry[m]] <= seq[returned]
        BY <2>2, <2>3, <2>5, <3>2, <3>1 DEF FileInv, NamesGrow
      <4>2. ~(entry[m] <= returned)
        BY <2>2, <2>3, <3>2, <3>1, <3>4, <4>1
      <4>. QED BY <2>3, <3>1, <4>2 DEF Torn
    <3>. QED BY <3>2, <3>1, <3>3, <3>4
  <2>. QED BY <2>4, <2>5
<1>. QED BY <1>3, <1>4

\* No start of LoadLatest fails on an incomplete snapshot, whatever calls of
\* SaveAtomically failed and whatever crashes left on disk.
THEOREM StartsFromWholeAlways == Spec => []StartsFromWhole
<1>1. Init => FileInv /\ StartsFromWhole
  BY InitFile DEF Init, StartsFromWhole, Torn, NoSave
<1>2. FileInv /\ StartsFromWhole /\ [Next]_vars => (FileInv /\ StartsFromWhole)'
  <2> SUFFICES ASSUME FileInv, StartsFromWhole, [Next]_vars PROVE StartsFromWhole'
    BY FileStep
  <2>1. CASE LoadLatest
    BY <2>1, LoadsLatest DEF StartsFromWhole
  <2>2. CASE ~LoadLatest
    <3>1. loaded' = loaded
      BY <2>2 DEF Next, vars, SaveAtomically, OpenTemp, Write, Sync, Rename, syncDir,
                  Proceeds, Fails, Crash
    <3>. QED BY <3>1 DEF StartsFromWhole, Torn
  <2>. QED BY <2>1, <2>2
<1>. QED BY <1>1, <1>2, PTL DEF Spec

\* LoadLatest never goes back behind a snapshot for which SaveAtomically returned nil.
THEOREM SavedStaysAlways == Spec => SavedStays
<1>1. FileInv /\ [Next]_vars => [pc = "down" /\ pc' = "idle" => loaded' >= returned]_vars
  <2> SUFFICES ASSUME FileInv, Next, pc = "down", pc' = "idle" PROVE loaded' >= returned
    OBVIOUS
  <2>1. LoadLatest
    BY DEF Next, SaveAtomically, OpenTemp, Write, Sync, Rename, syncDir, Crash
  <2>. QED BY <2>1, LoadsLatest
<1>. QED BY <1>1, InitFile, FileStep, PTL DEF Spec, SavedStays
=============================================================================
