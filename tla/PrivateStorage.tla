---------------------------- MODULE PrivateStorage ----------------------------
(***************************************************************************)
(* PrivateStorageService.collect (private_storage.py): the files of an app *)
(* are listed with root, its two directories by turns, the ones that may   *)
(* hold text are searched for the session's canary under budgets, and the  *)
(* report says what was not looked at.  The app goes on running.           *)
(***************************************************************************)
EXTENDS Integers, Sequences, FiniteSets, Functions

CONSTANTS
  Storages,        \* [internal, external -> sequences of files]
  MaxEntries,      \* limit of listed entries
  MaxProbes,       \* max_evidence_count: limit of searched files, and of reported ones
  MaxFile,         \* limit of the size of a searched file
  MaxTotal,        \* limit of searched bytes
  MaxWrites        \* bound: changes the app makes meanwhile

Roots == {"internal", "external"}
\* What find and stat print of a file: a line as expected; a path that a shell would
\* not take literally; a mode of fewer than three digits; or what is not one line.
Lines == {"good", "odd", "short_mode", "malformed"}
Files == [root : Roots, path : STRING, kind : {"file", "directory", "symlink"}, size : Nat, text : BOOLEAN,
          canary : BOOLEAN, open : BOOLEAN, outside : BOOLEAN, deep : BOOLEAN, line : Lines]

ASSUME StorageAssumption ==
  /\ {MaxEntries, MaxProbes, MaxFile, MaxTotal, MaxWrites} \subseteq Nat
  /\ Storages \subseteq [Roots -> Seq(Files)]

VARIABLES
  storage,         \* what is on the device: [Roots -> [places in the output of find -> Files]]
  collection,      \* "idle", "resolved", "listed", "probed", "reported" or "failed"
  entries,         \* what was listed: [turns -> Files]
  inventory,       \* "completed" or "partial"
  candidates,      \* turns of the entries still to be searched
  matches,         \* [paths of searched files -> whether the canary was found]
  scanned,         \* bytes searched
  scan,            \* "completed", "partial", "timed_out" or "error"
  report,          \* [plaintext, open, skipped]: paths
  wrote,           \* history: changes of the app
  missed,          \* history: files that find left out, or grep did not open, without a word
  holding          \* history: files that hold the canary since they were listed

storageVars == <<storage, collection, entries, inventory, candidates, matches, scanned, scan, report, wrote, missed, holding>>

Id(f) == <<f.root, f.path>>
OnDevice == UNION {Range(storage[r]) : r \in Roots}
NoReport == [plaintext |-> {}, open |-> {}, skipped |-> {}]

\* _canary_probe_candidate
Eligible(f) == f.kind = "file" /\ f.text /\ f.size <= MaxFile

\* The limits hold, and nothing is searched that was not listed.
StorageTypeOK ==
  /\ Cardinality(DOMAIN entries) <= MaxEntries /\ Cardinality(DOMAIN matches) <= MaxProbes /\ scanned <= MaxTotal
  /\ DOMAIN matches \subseteq {f.path : f \in Range(entries)}

PrivateStorageInit ==
  /\ storage \in Storages /\ collection = "idle"
  /\ entries = <<>> /\ candidates = {} /\ matches = <<>> /\ scanned = 0
  /\ inventory = "completed" /\ scan = "completed" /\ report = NoReport
  /\ wrote = 0 /\ missed = {} /\ holding = {}

\* The app writes the canary into a file, or takes it out, or removes the file.
AppWrites ==
  /\ wrote < MaxWrites /\ wrote' = wrote + 1 /\ collection # "reported"
  /\ \E r \in Roots : \E i \in DOMAIN storage[r] :
       /\ \/ storage[r][i].kind = "file" /\ storage' = [storage EXCEPT ![r][i].canary = ~@]
          \/ storage' = [storage EXCEPT ![r] = Restrict(@, DOMAIN @ \ {i})]
       /\ holding' = holding \ {Id(storage[r][i])}
  /\ UNCHANGED <<collection, entries, inventory, candidates, matches, scanned, scan, report, missed>>

\* inspect_package: the package is installed, root is available, and the
\* directory of the app is there; otherwise nothing is reported.  From here it is
\* settled which files find will not print: a directory it may not open, a file
\* that is gone when stat looks, all that comes after find is killed.
FindDirectory ==
  /\ collection = "idle" /\ collection' \in {"resolved", "failed"}
  /\ missed' \in SUBSET {Id(f) : f \in OnDevice}
  /\ UNCHANGED <<storage, entries, inventory, candidates, matches, scanned, scan, report, wrote, holding>>

(***************************************************************************)
(* list_storage                                                            *)
(***************************************************************************)
\* The first m of a set of numbers.
FirstOf(T, m) == {i \in T : Cardinality({j \in T : j < i}) < m}

\* find stops at its depth without a word; head keeps one line more than needed, and
\* the status of the pipe is that of head, whatever became of find.
Found(r) == FirstOf({i \in DOMAIN storage[r] : ~storage[r][i].deep /\ Id(storage[r][i]) \notin missed}, MaxEntries + 1)
Parsed(r) == {i \in Found(r) : storage[r][i].line # "malformed"}
Kept(r) == FirstOf(Parsed(r), MaxEntries)

\* One of each directory by turns: the internal ones are even, the external ones odd.
TurnOf(r, i) == 2 * Cardinality({j \in Kept(r) : j < i}) + (IF r = "internal" THEN 0 ELSE 1)
ByTurns == UNION {{<<r, i>> : i \in Kept(r)} : r \in Roots}
AtTurn(t) == CHOOSE p \in ByTurns : TurnOf(p[1], p[2]) = t
Listed == FirstOf({TurnOf(p[1], p[2]) : p \in ByTurns}, MaxEntries)

Cut ==
  \/ \E r \in Roots : Parsed(r) # Found(r) \/ Kept(r) # Parsed(r)
  \/ \E p \in ByTurns : TurnOf(p[1], p[2]) \notin Listed

ListStorage ==
  /\ collection = "resolved" /\ collection' = "listed"
  /\ entries' = [t \in Listed |-> storage[AtTurn(t)[1]][AtTurn(t)[2]]]
  /\ inventory' = IF Cut THEN "partial" ELSE "completed"
  /\ holding' = {Id(f) : f \in {g \in OnDevice : g.canary}}
  /\ LET eligible == {t \in Listed : Eligible(entries'[t])} IN
       /\ candidates' = FirstOf(eligible, MaxProbes)
       /\ scan' = IF candidates' # eligible THEN "partial" ELSE "completed"
  /\ UNCHANGED <<storage, matches, scanned, report, wrote, missed>>

\* The command timed out, or the shell around the pipes failed.
ListFails ==
  /\ collection = "resolved" /\ collection' = "failed"
  /\ UNCHANGED <<storage, entries, inventory, candidates, matches, scanned, scan, report, wrote, missed, holding>>

(***************************************************************************)
(* probe_exact_canary                                                      *)
(***************************************************************************)
Stop(status) ==
  /\ candidates' = {} /\ scan' = status
  /\ UNCHANGED <<storage, collection, entries, inventory, matches, report, wrote, missed, holding>>

Ahead == CHOOSE t \in candidates : \A u \in candidates : t <= u
Behind == candidates \ {Ahead}

\* The first file that does not fit ends the search, whatever comes after it.
OutOfBudget ==
  /\ candidates # {} /\ scanned + entries[Ahead].size > MaxTotal /\ Stop("partial") /\ UNCHANGED scanned

OutOfTime == candidates # {} /\ Stop("partial") /\ UNCHANGED scanned

Fits == candidates # {} /\ scanned + entries[Ahead].size <= MaxTotal

\* A path that a shell would not take literally is listed, but never looked into.
RejectPath ==
  /\ Fits /\ entries[Ahead].line = "odd" /\ candidates' = Behind /\ scan' = "partial"
  /\ UNCHANGED <<storage, collection, entries, inventory, matches, scanned, report, wrote, missed, holding>>

\* grep runs into its timeout, or fails: a file that is gone is a failure.
ProbeFails ==
  /\ Fits /\ entries[Ahead].line # "odd" /\ \E status \in {"timed_out", "error"} : Stop(status)
  /\ scanned' = scanned + entries[Ahead].size

Same(f) == {g \in OnDevice : Id(g) = Id(f)}

\* grep answers of a file that is there.  It answers no as well if it was never run:
\* su and adb end with 1 too when they fail.
Answer(f, ran) ==
  /\ ran => Same(f) # {}
  /\ matches' = [p \in DOMAIN matches \cup {f.path} |->
                    IF p = f.path THEN ran /\ \E g \in Same(f) : g.canary ELSE matches[p]]
  /\ missed' = IF ran THEN missed ELSE missed \cup {Id(f)}
  /\ scanned' = scanned + f.size
  /\ UNCHANGED <<storage, collection, entries, inventory, scan, report, wrote, holding>>

\* Mutation: one match is enough.
ProbeUntilMatch ==
  /\ Fits /\ entries[Ahead].line # "odd" /\ \E ran \in BOOLEAN : Answer(entries[Ahead], ran)
  /\ candidates' = IF matches'[entries[Ahead].path] THEN {} ELSE Behind

\* Two files of one relative path share an answer: the last one counts.
Probe ==
  /\ Fits /\ entries[Ahead].line # "odd" /\ \E ran \in BOOLEAN : Answer(entries[Ahead], ran)
  /\ candidates' = Behind

Probed ==
  /\ collection = "listed" /\ candidates = {} /\ collection' = "probed"
  /\ UNCHANGED <<storage, entries, inventory, candidates, matches, scanned, scan, report, wrote, missed, holding>>

(***************************************************************************)
(* PrivateStorageInspector.inspect                                         *)
(***************************************************************************)
Matched(f) == f.path \in DOMAIN matches /\ matches[f.path]
\* The modes of what is, or looks, external are not looked at.
HasMode(f) == f.kind = "file" /\ ~f.outside

\* The entries in their order, until as many as the limit have become artifacts.
Usable == {t \in DOMAIN entries : entries[t].kind # "symlink" /\ entries[t].line = "good"}
Inspected == {t \in DOMAIN entries : Cardinality({u \in Usable : u < t}) < MaxProbes}
Artifacts == {entries[t] : t \in Usable \cap Inspected}
PassedOver(f) == f.kind = "symlink" \/ f.line # "good" \/ (Eligible(f) /\ f.path \notin DOMAIN matches)
Remaining == IF DOMAIN entries = Inspected THEN {} ELSE {"<remaining>"}

Inspect ==
  /\ collection = "probed" /\ collection' = "reported"
  /\ report' = [plaintext |-> {f.path : f \in {g \in Artifacts : Matched(g)}},
                open |-> {f.path : f \in {g \in Artifacts : HasMode(g) /\ g.open}},
                skipped |-> {f.path : f \in {g \in {entries[t] : t \in Inspected} : PassedOver(g)}} \cup Remaining]
  /\ inventory' = IF Remaining = {} THEN inventory ELSE "partial"
  /\ UNCHANGED <<storage, entries, candidates, matches, scanned, scan, wrote, missed, holding>>

StorageNext ==
  \/ AppWrites \/ FindDirectory \/ ListStorage \/ ListFails \/ OutOfBudget \/ OutOfTime \/ RejectPath \/ ProbeFails \/ Probe \/ Probed \/ Inspect

StorageSpec == PrivateStorageInit /\ [][StorageNext]_storageVars

(***************************************************************************)
(* Properties                                                              *)
(***************************************************************************)
\* Files whose path no other listed one has: an internal file of a directory named
\* external is taken for the external one.
Alone(f) == \A g \in Range(entries) : g.path = f.path => g.root = f.root
Reported == collection = "reported"

\* If the report calls both its parts completed, the canary it does not show was
\* in none of the files it may search, from the listing to the end, but for the
\* files it says it skipped for their mode and for those the shell kept from it
\* without a word: find and grep have no way to say it (private_storage.py:787, 973).
AbsenceIsEvidence ==
  Reported /\ inventory = "completed" /\ scan = "completed" =>
    \A f \in OnDevice : Eligible(f) /\ ~f.deep /\ Alone(f) /\ Id(f) \in holding \ missed =>
      f.path \in report.plaintext \/ (f.line = "short_mode" /\ f.path \in report.skipped)

\* A completed inventory has looked at the mode of every private file that find printed,
\* or says that it has skipped the file.
ModesAllSeen ==
  Reported /\ inventory = "completed" =>
    \A f \in OnDevice : HasMode(f) /\ ~f.deep /\ f.open /\ Id(f) \notin missed => f.path \in report.open \cup report.skipped

\* What was to be searched and was not is listed, alone or as one of the remaining
\* ones, whatever ended the search, and then the search does not count as completed.
UnsearchedIsSaid ==
  Reported => \A f \in Range(entries) : Eligible(f) =>
    \/ f.path \in DOMAIN matches
    \/ {f.path, "<remaining>"} \cap report.skipped # {} /\ scan # "completed"

\* A report that calls itself complete has looked at all it was shown, and says where
\* it has not.
ReportCovers == StorageTypeOK /\ AbsenceIsEvidence /\ ModesAllSeen /\ UnsearchedIsSaid
=============================================================================
