--------------------------- MODULE MCSessionRecords ---------------------------
(***************************************************************************)
(* What the host makes of an app and keeps of a session, in one run: the   *)
(* three parts of the static analysis; a finding of each rule, with the    *)
(* evidence its verdict depends on, over a session that has collected      *)
(* nothing else; the index of evidence and the findings under the state    *)
(* lock; the ledger of a certificate.  They share no state, so each        *)
(* initial state starts one of them, and the others stay at a fixed        *)
(* initial state.                                                          *)
(***************************************************************************)
EXTENDS StringScan, DexFlow, ArchiveScan, FindingLifecycle, EvidenceIndex, CaOwnership

VARIABLE part

(***************************************************************************)
(* Static analysis.                                                        *)
(***************************************************************************)
\* Strings: windows of several sizes; budgets that end in a token, in a file and
\* in the APK; regions that fit, that do not, and that are too long.
Budgets(chunk, string, file, source, candidates) ==
  [chunk |-> chunk, string |-> string, file |-> file, source |-> source, candidates |-> candidates]
SomePolicies == {Budgets(2, 1, 20, 40, 9), Budgets(4, 2, 20, 40, 9), Budgets(4, 3, 20, 40, 9),
               Budgets(3, 2, 4, 6, 9), Budgets(4, 2, 5, 9, 9), Budgets(3, 2, 9, 20, 1)}

Tokens(n) == {{}} \cup {{<<i, j>>} : <<i, j>> \in {<<k, l>> \in (0..(n - 1)) \X (1..n) : k < l /\ l - k <= 4}}
Region(file, n, long) == {[file |-> file, size |-> n, tokens |-> t, long |-> long] : t \in Tokens(n)}
Line(n) == [file |-> "text", size |-> n, tokens |-> IF n > 1 THEN {<<0, 2>>} ELSE {}, long |-> FALSE]
Untouched == <<[file |-> "dex", size |-> 9, tokens |-> {}, long |-> FALSE]>>
SomeApks ==
  {Untouched} \cup
  {<<r>> : r \in Region("dex", 9, FALSE)} \cup
  {<<Line(n), r>> : n \in {0, 2, 3}, r \in UNION {Region("dex", 6, long) : long \in BOOLEAN} \cup Region("text", 4, FALSE)} \cup
  {<<[file |-> "dex", size |-> 3, tokens |-> {}, long |-> FALSE], r, Line(3)>> : r \in Region("dex", 5, TRUE)}

\* Archives: every way in which an entry or a directory can be bad, beside good ones.
Member(name, kind, bytesOf) ==
  [name |-> name, kind |-> kind, rejected |-> FALSE, size |-> bytesOf, packed |-> 1, readable |-> TRUE, content |-> "good"]
Variants(e) == {e, [e EXCEPT !.rejected = TRUE], [e EXCEPT !.readable = FALSE], [e EXCEPT !.size = 5],
                [e EXCEPT !.content = IF e.kind = "dex" THEN "malformed" ELSE "binary"], [e EXCEPT !.packed = 0]}
Archive(verdict, entries, corrupt) == [verdict |-> verdict, entries |-> entries, corrupt |-> corrupt]
Dex(n) == Member(IF n = 1 THEN "classes.dex" ELSE "classes2.dex", "dex", 2)
Text(name) == Member(name, "text", 1)
Empty == <<Archive("good", <<>>, 0)>>
SomeCollections ==
  {Empty} \cup
  {<<Archive("good", <<d, Dex(2), t>>, c)>> : d \in Variants(Dex(1)), t \in Variants(Text("assets/a")), c \in 0..3} \cup
  {<<Archive("good", <<d, d2, l>>, 0), Archive("good", <<Dex(1), Member("lib/b.so", "library", 3)>>, 0)>> :
      d \in Variants(Dex(1)), d2 \in Variants(Dex(1)), l \in Variants(Member("assets/c.jar", "library", 1))} \cup
  {<<Archive(v, <<Dex(1)>>, 0), Archive("good", <<Dex(1), Dex(2), Text("assets/a"), Text("z")>>, 0),
     Archive("good", <<Text("assets/a")>>, 0)>> : v \in Verdicts} \cup
  {<<Archive("good", <<Dex(1), Dex(2), Text("assets/a"), Member("res/b", "other", 1), Text("z")>>, 0)>>,
   <<Archive("good", <<>>, 0), Archive("good", <<Dex(1)>>, 0)>>,
   <<Archive("good", <<Dex(1), Dex(2)>>, 0), Archive("good", <<Dex(1)>>, 0)>>}

FixedStrings == policy = Budgets(2, 1, 20, 40, 9) /\ apk = Untouched
FixedArchives == collection = Empty

(***************************************************************************)
(* Findings.                                                               *)
(***************************************************************************)
Nothing ==
  [manifest |-> TRUE, flags |-> [debuggable |-> "no", test_only |-> "unset"], packageFlags |-> {}, policy |-> "none",
   ipc |-> [registered |-> FALSE, intact |-> FALSE, owned |-> FALSE, outcomes |-> {}], components |-> {},
   static |-> "absent", secrets |-> FALSE, apis |-> FALSE, listed |-> FALSE, proceedApi |-> FALSE, candidates |-> {},
   profile |-> "none", root |-> "no", frida |-> "no", observer |-> "none", files |-> {}, events |-> {}, operations |-> <<>>,
   correlation |-> "none", scenario |-> {}, traffic |-> {}, log |-> {}, cleartext |-> "unset", netConfig |-> FALSE,
   storage |-> [present |-> FALSE, worldReadable |-> FALSE, plaintext |-> FALSE, inventory |-> "none", content |-> "none"],
   reach |-> "none", raises |-> FALSE]

\* Requests of one attribution, and evidence over which an evaluator raises.
By(who, signs) == [sign : signs, by : {who}]
Raising(E) == E \cup {[e EXCEPT !.raises = TRUE] : e \in E}

File(registered, intact, parsed, source) == [registered |-> registered, intact |-> intact, parsed |-> parsed, source |-> source]
GoodFile == File(TRUE, TRUE, TRUE, "runtime")
FileSets ==
  {{}, {GoodFile}, {File(TRUE, FALSE, TRUE, "runtime")}, {File(FALSE, TRUE, TRUE, "runtime")}, {File(TRUE, TRUE, FALSE, "runtime")},
   {File(TRUE, TRUE, TRUE, "fixture")}, {GoodFile, File(TRUE, TRUE, TRUE, "fixture")}, {GoodFile, File(TRUE, FALSE, TRUE, "runtime")}}

\* Sessions with hooks: a file without an observer is what a crash leaves.
Hooked(E) ==
  {[e EXCEPT !.profile = p, !.frida = c, !.observer = o, !.files = f] :
     e \in E, p \in {"none", "quick", "full"}, c \in {"yes", "no", "error"}, o \in {"none", "valid", "other"}, f \in FileSets}
Events1(E, kinds) == {[e EXCEPT !.events = k] : e \in E, k \in SUBSET kinds}
Static(E, keys) ==
  E \cup {[e EXCEPT !.static = s, !.candidates = k] : e \in E, s \in {"completed", "partial", "error"}, k \in SUBSET keys}

\* Crypto operations: parsed, executed and in the window unless said otherwise.
Op(aspect, pair) == [parsed |-> TRUE, executed |-> TRUE, inWindow |-> TRUE, aspect |-> aspect, pair |-> pair]
Ops == {Op("bad", 1), Op("good", 2), Op("good", 1), Op("unknown", 0), [Op("bad", 1) EXCEPT !.parsed = FALSE],
        [Op("bad", 1) EXCEPT !.executed = FALSE], [Op("bad", 1) EXCEPT !.inWindow = FALSE]}
OpLists == {<<>>} \cup {<<o>> : o \in Ops} \cup {<<o, p>> : o \in Ops, p \in Ops}
Ran == [Nothing EXCEPT !.profile = "full", !.frida = "yes", !.observer = "valid", !.files = {GoodFile}]
CryptoEvidence ==
  Static({[Ran EXCEPT !.operations = o, !.correlation = c] : o \in OpLists, c \in {"none", "bad", "good"}}, {"c1"}) \cup
  Static(Hooked({[Nothing EXCEPT !.operations = o] : o \in {<<>>, <<Op("bad", 1)>>, <<Op("good", 1), Op("good", 2)>>}}), {})

WebEvidence(kinds) == Static(Events1({Ran}, kinds), {"c1"}) \cup Hooked(Events1({Nothing}, {"pinning"}))
Scans(E) == {[e EXCEPT !.profile = p, !.root = r] : e \in E, p \in {"none", "quick", "full"}, r \in {"yes", "no", "error"}}
Stored(w, p, i, c) == [present |-> TRUE, worldReadable |-> w, plaintext |-> p, inventory |-> i, content |-> c]
Stores(E) == E \cup {[e EXCEPT !.storage = Stored(w, p, i, c)] :
                       e \in E, w \in BOOLEAN, p \in BOOLEAN, i \in {"completed", "partial", "error"}, c \in {"completed", "error"}}
Stores1(E) == E \cup {[e EXCEPT !.storage = Stored(w, FALSE, i, "none")] : e \in E, w \in BOOLEAN, i \in {"completed", "partial", "error"}}
Inventories == {[Nothing EXCEPT !.static = s, !.listed = l] : s \in {"absent", "completed", "partial", "error"}, l \in BOOLEAN}
Component(exported, protected, launcher) == [exported |-> exported, protected |-> protected, launcher |-> launcher]

SomeEvidence == [r \in Rules |->
  CASE r = "debuggable" -> {[Nothing EXCEPT !.manifest = m, !.flags = [debuggable |-> d, test_only |-> t], !.packageFlags = p] :
                              m \in BOOLEAN, d \in {"yes", "no", "unset"}, t \in {"yes", "no", "unset"}, p \in SUBSET {"debuggable", "test_only"}}
    [] r \in {"policy", "component_policy"} ->
         {[Nothing EXCEPT !.manifest = m, !.policy = p, !.ipc = [registered |-> g, intact |-> i, owned |-> TRUE, outcomes |-> o]] :
            m \in BOOLEAN, p \in {"none", "pass", "potential", "inconclusive"}, g \in BOOLEAN, i \in BOOLEAN,
            o \in SUBSET {"confirmed", "rejected", "not_exercised", "inconclusive"}}
    [] r = "secret" -> {[e EXCEPT !.secrets = f] : e \in Inventories, f \in BOOLEAN}
    [] r = "api_policy" -> {[e EXCEPT !.apis = f] : e \in Inventories, f \in BOOLEAN}
    [] r = "behavior" -> Static(Inventories, {"c1", "c2"})
    [] r = "cleartext" -> {e \in {[Nothing EXCEPT !.manifest = m, !.cleartext = c, !.netConfig = n, !.correlation = k, !.scenario = s,
                                                  !.traffic = t \cup f, !.reach = l] :
                                    m \in BOOLEAN, c \in {"yes", "no", "unset"}, n \in BOOLEAN, k \in {"none", "good"},
                                    s \in {{}, {"cleartext_request"}}, t \in {{}, By("target", {"cleartext_request"})},
                                    f \in {{}, By("other", {"cleartext_request"})}, l \in {"none", "link"}} :
                             e.reach = "link" => e.manifest /\ ~e.netConfig /\ (e.correlation = "good" <=> e.scenario # {})}
    [] r = "token" -> {[Ran EXCEPT !.events = k, !.log = l, !.traffic = t, !.reach = a] :
                         k \in SUBSET {"clear_sink", "unclear_sink"}, l \in SUBSET {"marker", "canary"},
                         t \in SUBSET (By("validation_canary", {"canary_request"}) \cup By("target", {"query_key"}) \cup By("other", {"query_key"})), a \in {"none", "activity"}}
    [] r = "exported" -> {[Nothing EXCEPT !.manifest = m, !.components = c, !.reach = a] :
                            m \in BOOLEAN, a \in {"none", "activity"},
                            c \in SUBSET {Component("yes", FALSE, FALSE), Component("yes", TRUE, FALSE), Component("unknown", FALSE, FALSE)}}
    [] r = "tls" -> {[Ran EXCEPT !.traffic = t, !.events = k] :
                       t \in SUBSET (By("validation_canary", {"canary_request", "canary_response", "certificate_rejected"})
                                     \cup By("other", {"certificate_rejected"})),
                       k \in SUBSET {"pinning", "custom_trust", "accepted", "rejected"}}
    [] r \in Crypto -> CryptoEvidence
    [] r = "bridge" -> Raising(WebEvidence({"remote_bridge", "other"}))
    [] r = "settings" -> WebEvidence({"unsafe_content", "debugging"})
    [] r = "ssl_proceed" -> {[e EXCEPT !.proceedApi = a] : e \in WebEvidence({"matched_proceed", "other"}), a \in BOOLEAN}
    [] r = "observation" -> WebEvidence({"observed"})
    [] r = "private_files" -> Scans(Stores({Nothing}))
    [] r = "stored_canary" -> Scans(Stores1({Nothing, [Nothing EXCEPT !.storage = Stored(FALSE, TRUE, "completed", "completed")]}))
                              \cup Hooked(Events1({Nothing}, {"preference"}))
    [] r = "world_readable" ->
         {[e EXCEPT !.static = "completed", !.candidates = k[1], !.reach = k[2]] :
            e \in Raising(Scans(Stores1({Nothing}))), k \in {<<{}, "none">>, <<{"c1"}, "none">>}} \cup
         {[e EXCEPT !.static = "completed", !.candidates = k, !.reach = "c1"] :
            e \in {x \in Raising(Scans(Stores1({Nothing}))) : x.profile = "full"}, k \in {{"c1"}, {"c1", "c2"}}}
    [] OTHER -> {Nothing}]

\* What changes while a finding lives: traffic, hooks and storage.
SomeLater == [r \in Rules |->
  CASE r = "cleartext" -> {[Nothing EXCEPT !.cleartext = "no", !.traffic = t, !.reach = "link"] :
                             t \in {{}} \cup {By(who, {"cleartext_request"}) : who \in {"target", "other"}}}
    [] r = "token" -> {[Ran EXCEPT !.log = l, !.reach = "activity"] : l \in SUBSET {"marker"}}
    [] r = "world_readable" -> {e \in SomeEvidence[r] : e.profile = "full" /\ e.root = "yes" /\ ~e.raises /\ e.storage.inventory \in {"completed", "partial"}}
    [] r = "bridge" -> {Ran, [Ran EXCEPT !.files = {File(TRUE, FALSE, TRUE, "runtime")}]}
    [] OTHER -> {}]

\* The values of the constants.  TLC evaluates these at every use, and what they
\* stand for once.
MCPolicies == SomePolicies
MCApks == SomeApks
MCCollections == SomeCollections
MCEvidence == SomeEvidence
MCLater == SomeLater

(***************************************************************************)
(* One part at a time, the others stay at a fixed initial state.           *)
(***************************************************************************)
Parts == {"strings", "dex", "archives", "finding", "documents", "certificate"}
FixedFinding == rule = "debuggable" /\ evidence = Nothing
FixedCertificate == installed = NoCertificate

RecordsInit ==
  /\ part \in Parts
  /\ part # "strings" => FixedStrings
  /\ part # "archives" => FixedArchives
  /\ part # "finding" => FixedFinding
  /\ part # "certificate" => FixedCertificate
  /\ StringInit /\ DexInit /\ ArchiveInit /\ FindingInit /\ StoreInit /\ CaInit

StringSearch ==
  part = "strings" /\ StringNext /\ UNCHANGED <<dexVars, archiveVars, findingVars, storeVars, caVars, part>>

RecordsNext ==
  \/ StringSearch
  \/ part = "dex" /\ DexNext /\ UNCHANGED <<stringVars, archiveVars, findingVars, storeVars, caVars, part>>
  \/ part = "archives" /\ ArchiveNext /\ UNCHANGED <<stringVars, dexVars, findingVars, storeVars, caVars, part>>
  \/ part = "finding" /\ FindingNext /\ UNCHANGED <<stringVars, dexVars, archiveVars, storeVars, caVars, part>>
  \/ part = "documents" /\ StoreNext /\ UNCHANGED <<stringVars, dexVars, archiveVars, findingVars, caVars, part>>
  \/ part = "certificate" /\ CaNext /\ UNCHANGED <<stringVars, dexVars, archiveVars, findingVars, storeVars, part>>

recordsVars == <<stringVars, dexVars, archiveVars, findingVars, storeVars, caVars, part>>
RecordsSpec == RecordsInit /\ [][RecordsNext]_recordsVars /\ WF_recordsVars(StringSearch)

\* However regions, budgets and windows fall, the search of the strings comes to
\* an end: every window moves on, and a refused claim ends its region.
StringSearchEnds == part = "strings" ~> region > Len(apk)
=============================================================================
