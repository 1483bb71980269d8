----------------------------- MODULE ArchiveScan -----------------------------
(***************************************************************************)
(* analyze_apks over untrusted archives (static_apk_analysis.py): which    *)
(* entries of which APK are read, under the budgets of the policy, and     *)
(* what the result says of those that are not.  The search of the strings  *)
(* of an entry is StringScan, the pass over a DEX file DexFlow.            *)
(***************************************************************************)
EXTENDS Naturals, Sequences, FiniteSets

CONSTANTS
  Collections,       \* sequences of archives: [verdict, entries, corrupt], the entries sorted
  MaxApks, MaxEntries, MaxBytes, MaxEntryBytes, MaxRatio, MaxDexFiles, MaxEmbedded

\* "corrupt" is the entry at which the ZIP library gives up, 0 for none.  The
\* entries are in the order of their names, DEX files first.
Entry == [name : STRING, kind : {"dex", "text", "library", "other"}, rejected : BOOLEAN, size : Nat, packed : Nat,
          readable : BOOLEAN, content : {"good", "malformed", "binary"}]
Verdicts == {"good", "unreadable", "too_big", "too_many", "invalid", "miscounted"}
Archives == [verdict : Verdicts, entries : Seq(Entry), corrupt : Nat]

ASSUME ArchiveAssumption ==
  /\ Collections \subseteq Seq(Archives)
  /\ {MaxApks, MaxEntries, MaxBytes, MaxEntryBytes, MaxRatio, MaxDexFiles, MaxEmbedded} \subseteq Nat

VARIABLES
  collection, archive,   \* the APKs, the one in hand
  entry,                 \* 0 before the archive is opened
  bytes, dexFiles, embedded,
  problems,              \* the limitations of the result: limits and problems
  scans,                 \* <<archive, entry>> of what was analysed
  opened                 \* archives that were analysed to their end

archiveVars == <<collection, archive, entry, bytes, dexFiles, embedded, problems, scans, opened>>

Entries == collection[archive].entries
Here == Entries[entry]
Planned(e) == e.kind \in {"dex", "text"}
Looked == IF Len(collection) < MaxApks THEN Len(collection) ELSE MaxApks

ArchiveTypeOK ==
  /\ collection \in Collections /\ archive \in 1..(Looked + 1) /\ entry \in Nat
  /\ bytes \in 0..MaxBytes /\ dexFiles \in 0..MaxDexFiles /\ embedded \subseteq Nat \X STRING
  /\ Cardinality(embedded) <= MaxEmbedded /\ scans \subseteq Nat \X Nat /\ opened \subseteq 1..Looked

ArchiveInit ==
  /\ collection \in Collections /\ archive = 1 /\ entry = 0
  /\ bytes = 0 /\ dexFiles = 0 /\ embedded = {} /\ scans = {} /\ opened = {}
  /\ problems = IF Len(collection) > MaxApks THEN {"apks"} ELSE {}

Leave == archive' = archive + 1 /\ entry' = 0

\* _preflight_zip_archive, and what ZipFile says of the directory.
Preflight(a) ==
  IF a.verdict = "good" /\ Len(a.entries) > MaxEntries THEN "archive_entries" ELSE a.verdict

OpenArchive ==
  /\ archive <= Looked /\ entry = 0
  /\ IF Preflight(collection[archive]) = "good"
     THEN entry' = 1 /\ UNCHANGED <<archive, problems>>
     ELSE problems' = problems \cup {Preflight(collection[archive])} /\ Leave
  /\ UNCHANGED <<collection, bytes, dexFiles, embedded, scans, opened>>

\* The library raises while the entries are gone through: the rest is left.
GiveUp ==
  /\ archive <= Looked /\ entry > 0 /\ entry = collection[archive].corrupt
  /\ problems' = problems \cup {"invalid_apk_archive"} /\ Leave
  /\ UNCHANGED <<collection, bytes, dexFiles, embedded, scans, opened>>

\* The bounds of _read_zip_entry.
Fits(e) ==
  /\ e.size <= MaxEntryBytes /\ e.size <= MaxRatio * (IF e.packed = 0 THEN 1 ELSE e.packed)
  /\ bytes + e.size <= MaxBytes

Read(e) == Fits(e) /\ e.readable

\* An entry of this name came before.
Repeated == \E i \in 1..(entry - 1) : Entries[i].name = Here.name

\* _record_embedded: code in the archive that is not one of its DEX files.
Embed ==
  LET e == <<archive, Here.name>> IN
  IF Here.kind # "library" \/ e \in embedded THEN [list |-> embedded, full |-> FALSE]
  ELSE IF Cardinality(embedded) >= MaxEmbedded THEN [list |-> embedded, full |-> TRUE]
  ELSE [list |-> embedded \cup {e}, full |-> FALSE]

\* Mutation: a DEX file that cannot be parsed is passed over.
TroubleButMalformed ==
  IF Repeated THEN {"duplicate"} ELSE IF Here.rejected THEN (IF Planned(Here) THEN {"entry_rejected"} ELSE {})
  ELSE IF Here.kind = "dex" /\ dexFiles >= MaxDexFiles THEN {"dex_files"}
  ELSE IF Planned(Here) /\ ~Read(Here) THEN {"read_failed"} ELSE {}

\* Why an entry is not analysed, if it is not.
Trouble ==
  IF Repeated THEN {"duplicate"} ELSE IF Here.rejected THEN (IF Planned(Here) THEN {"entry_rejected"} ELSE {})
  ELSE IF Here.kind = "dex" /\ dexFiles >= MaxDexFiles THEN {"dex_files"}
  ELSE IF Planned(Here) /\ ~Read(Here) THEN {"read_failed"}
  ELSE IF Planned(Here) /\ Here.content # "good" THEN {Here.content}
  ELSE {}

TakeEntry ==
  /\ archive <= Looked /\ entry \in 1..Len(Entries) /\ entry # collection[archive].corrupt
  /\ LET admitted == ~Repeated /\ ~Here.rejected
         tried == admitted /\ Planned(Here) /\ (Here.kind = "dex" => dexFiles < MaxDexFiles)
         good == tried /\ Read(Here) /\ Here.content = "good"
     IN /\ embedded' = IF admitted THEN Embed.list ELSE embedded
        /\ problems' = problems \cup Trouble \cup (IF admitted /\ Embed.full THEN {"embedded_code_entries"} ELSE {})
        /\ bytes' = IF tried /\ Read(Here) THEN bytes + Here.size ELSE bytes
        /\ dexFiles' = IF good /\ Here.kind = "dex" THEN dexFiles + 1 ELSE dexFiles
        /\ scans' = IF good THEN scans \cup {<<archive, entry>>} ELSE scans
  /\ entry' = entry + 1 /\ UNCHANGED <<collection, archive, opened>>

CloseArchive ==
  /\ archive <= Looked /\ entry = Len(Entries) + 1 /\ entry > 0
  /\ opened' = opened \cup {archive} /\ Leave
  /\ UNCHANGED <<collection, bytes, dexFiles, embedded, problems, scans>>

ArchiveNext == OpenArchive \/ GiveUp \/ TakeEntry \/ CloseArchive
ArchiveSpec == ArchiveInit /\ [][ArchiveNext]_archiveVars

\* A result that says completed has analysed every DEX file and every text entry
\* of every APK, however names, sizes and contents are arranged.
CompletedMeansAll ==
  archive > Looked /\ problems = {} =>
    \A a \in DOMAIN collection : \A i \in DOMAIN collection[a].entries :
      Planned(collection[a].entries[i]) => <<a, i>> \in scans

\* Of entries with one name only the first is ever analysed, so that what was
\* analysed is told apart by its name.
FirstOfName ==
  \A s \in scans : \A i \in 1..(s[2] - 1) : collection[s[1]].entries[i].name # collection[s[1]].entries[s[2]].name

\* The walk leaves nothing out in silence and takes nothing twice.
WalkComplete == ArchiveTypeOK /\ CompletedMeansAll /\ FirstOfName
=============================================================================
