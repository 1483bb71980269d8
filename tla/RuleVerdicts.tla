----------------------------- MODULE RuleVerdicts -----------------------------
(***************************************************************************)
(* What RuleEngine (rules.py) makes of the evidence of a session: one      *)
(* operator for each evaluator, the gate before them and the treatment of  *)
(* static candidates and of a recorded validation after them.  Evidence is *)
(* a record with one field for each file or inventory the engine reads,    *)
(* and in it only what some verdict depends on.                            *)
(***************************************************************************)
EXTENDS Integers, Sequences, FiniteSets

Statuses == {"pass", "potential", "confirmed", "inconclusive", "skipped", "error"}

\* The rules of core.yaml, those that are evaluated alike under one name.
Rules == {"debuggable", "policy", "component_policy", "secret", "cleartext", "token", "exported", "tls", "digest", "cipher",
          "random", "reuse", "bridge", "settings", "ssl_proceed", "observation", "private_files", "world_readable",
          "stored_canary", "api_policy", "behavior"}
Crypto == {"digest", "cipher", "random", "reuse"}
RootRequired == {"private_files", "world_readable"}
FridaRequired == Crypto \cup {"bridge", "settings", "observation"}
WithCandidates == (Crypto \ {"reuse"}) \cup {"bridge", "settings", "ssl_proceed", "world_readable", "behavior"}

Verdict(status, by) == [status |-> status, by |-> by]

\* What the engine reads of a session: the manifest and its policies, the routes of
\* the component exploration, the inventory of the APKs, the profile and the
\* capabilities of the scan, the hooks, the scenario, the traffic, the log and the
\* inventory of the storage; reach is what a validator could address, and raises
\* that some part of it is such that an evaluator raises over it.
ManifestFlags == [{"debuggable", "test_only"} -> {"yes", "no", "unset"}]
PolicyStatuses == {"none", "pass", "potential", "inconclusive"}
IpcRoutes == [registered : BOOLEAN, intact : BOOLEAN, owned : BOOLEAN, outcomes : SUBSET STRING]
ComponentEntry == [exported : {"yes", "no", "unknown"}, protected : BOOLEAN, launcher : BOOLEAN]
InventoryStates == {"absent", "completed", "partial", "error"}
FridaFile == [registered : BOOLEAN, intact : BOOLEAN, parsed : BOOLEAN, source : STRING]
CryptoOperation == [parsed : BOOLEAN, executed : BOOLEAN, inWindow : BOOLEAN, aspect : {"bad", "good", "unknown"}, pair : Nat]
StorageInventory == [present : BOOLEAN, worldReadable : BOOLEAN, plaintext : BOOLEAN,
                     inventory : {"none", "completed", "partial", "error"}, content : {"none", "completed", "error"}]
EventSigns == {"clear_sink", "logged", "remote_url", "clipboard", "unclear_sink", "remote_data", "pinning", "custom_trust",
               "accepted", "rejected", "remote_bridge", "unsafe_content", "debugging", "matched_proceed", "observed",
               "preference", "row", "package_file", "other"}
TrafficSigns == {"cleartext_request", "query_key", "canary_request", "canary_response", "certificate_rejected"}
\* Who a request is attributed to: the package, the canary, or neither of them.
Attributions == {"target", "validation_canary", "other"}
TrafficEvent == [sign : TrafficSigns, by : Attributions]
LogSigns == {"canary", "marker"}
EvidenceRecord ==
  [manifest : BOOLEAN, flags : ManifestFlags, packageFlags : SUBSET STRING, policy : PolicyStatuses, ipc : IpcRoutes,
   components : SUBSET ComponentEntry, static : InventoryStates, secrets : BOOLEAN, apis : BOOLEAN, listed : BOOLEAN,
   proceedApi : BOOLEAN, candidates : SUBSET STRING, profile : STRING, root : STRING, frida : STRING, observer : STRING,
   files : SUBSET FridaFile, events : SUBSET EventSigns, operations : Seq(CryptoOperation), correlation : STRING,
   scenario : SUBSET TrafficSigns, traffic : SUBSET TrafficEvent, log : SUBSET LogSigns,
   cleartext : STRING, netConfig : BOOLEAN, storage : StorageInventory, reach : STRING, raises : BOOLEAN]

(***************************************************************************)
(* Frida evidence                                                          *)
(***************************************************************************)
Scanned(e) == e.profile # "none"

\* Mutation: a file that does not match its hash is left out, and nothing else.
FridaErrorsButHash(e) ==
  \/ Scanned(e) /\ \E f \in e.files : ~f.registered \/ f.source = "fixture"
  \/ Cardinality({f.source : f \in e.files}) > 1
  \/ \E f \in e.files : ~f.parsed

\* One bad file of a session is enough.  (A mixture is an error by itself.)
FridaErrors(e) ==
  \/ Scanned(e) /\ \E f \in e.files : ~f.registered \/ f.source = "fixture"
  \/ Cardinality({f.source : f \in e.files}) > 1
  \/ \E f \in e.files : ~f.parsed \/ (f.registered /\ ~f.intact)

\* What the hooks reported, as far as it counts.
Events(e) == IF FridaErrors(e) THEN {} ELSE e.events
Operations(e) == IF FridaErrors(e) THEN <<>> ELSE e.operations

ObserverRan(e) == e.observer = "valid"
FridaUsable(e) == ObserverRan(e) /\ e.files # {} /\ ~FridaErrors(e)

(***************************************************************************)
(* Gates: what was not executed says nothing of the app                    *)
(***************************************************************************)
\* The state of a capability is "yes", "no" or "error".
NotExecuted(profile, capability) ==
  IF profile = "quick" THEN "skipped"
  ELSE IF capability = "error" THEN "error" ELSE IF capability = "no" THEN "skipped" ELSE "error"

ExecutionGate(rule, e) ==
  IF ~Scanned(e) THEN {}
  ELSE IF rule \in RootRequired /\ ~e.storage.present THEN {Verdict(NotExecuted(e.profile, e.root), "gate")}
  ELSE IF rule \in FridaRequired /\ ~ObserverRan(e) THEN {Verdict(NotExecuted(e.profile, e.frida), "gate")}
  ELSE {}

\* Rules that have several ways to their evidence, as pairs of a capability and
\* whether its module was executed.
AlternativeGate(e, ways) ==
  IF e.profile # "full" \/ \E w \in ways : w[2] THEN {}
  ELSE IF \E w \in ways : w[1] = "yes" THEN {Verdict("error", "gate")}
  ELSE IF \E w \in ways : w[1] = "error" THEN {Verdict("error", "gate")}
  ELSE {Verdict("skipped", "gate")}

(***************************************************************************)
(* Rules over the manifest and the inventory of the APKs                   *)
(***************************************************************************)
\* _evaluate_locked fills in the flags that the manifest does not state.
Flag(e, name) == IF e.flags[name] # "unset" THEN e.flags[name] = "yes" ELSE name \in e.packageFlags

Debuggable(e) ==
  IF ~e.manifest THEN Verdict("skipped", "static")
  ELSE Verdict(IF Flag(e, "debuggable") \/ Flag(e, "test_only") THEN "confirmed" ELSE "pass", "static")

Policy(e) ==
  IF ~e.manifest THEN Verdict("skipped", "static")
  ELSE Verdict(IF e.policy = "none" THEN "inconclusive" ELSE e.policy, "static")

\* The outcomes of the exploration of components, if its file can be trusted.
Routes(e) == IF e.ipc.registered /\ e.ipc.intact /\ e.ipc.owned THEN e.ipc.outcomes ELSE {}

ComponentPolicy(e) ==
  IF ~e.manifest \/ e.policy = "none" \/ Routes(e) = {} THEN Policy(e)
  ELSE IF "confirmed" \in Routes(e) THEN Verdict("confirmed", "validation")
  ELSE IF Routes(e) = {"rejected"} THEN Verdict("pass", "validation")
  ELSE Verdict(e.policy, "validation")

Exposed(c) == c.exported = "yes" /\ ~c.protected /\ ~c.launcher
Exported(e) ==
  IF ~e.manifest THEN Verdict("skipped", "static")
  ELSE Verdict(IF \E c \in e.components : Exposed(c) THEN "potential" ELSE "pass", "static")

\* Searches of the inventory: something was found, or the search was complete.
Inventory(e, found, listed) ==
  IF e.static = "absent" THEN "skipped" ELSE IF found THEN "potential"
  ELSE IF e.static = "error" THEN "error" ELSE IF e.static = "completed" /\ listed THEN "pass" ELSE "inconclusive"

Secret(e) ==
  LET status == Inventory(e, e.secrets, TRUE) IN Verdict(IF status = "error" THEN "inconclusive" ELSE status, "static")
ApiPolicy(e) == Verdict(Inventory(e, e.apis, e.listed), "static")

Candidates(rule, e) == IF e.static # "absent" /\ rule \in WithCandidates THEN e.candidates ELSE {}
Fallback == Verdict("potential", "fallback")
Behavior(e) ==
  IF Candidates("behavior", e) # {} THEN Fallback ELSE Verdict(Inventory(e, FALSE, e.listed), "fallback")

(***************************************************************************)
(* Rules over traffic, log and hooks                                       *)
(***************************************************************************)
\* Events of a scenario count once their correlation is registered and intact.
Scenario(e) == IF e.correlation = "good" THEN e.scenario ELSE {}

\* Traffic attributed to the package, or carrying the canary; a request of another
\* process, or outside of the scope, does not count.
Signs(e, attributions) == {t.sign : t \in {x \in e.traffic : x.by \in attributions}}
Attributed(e) == Signs(e, {"target", "validation_canary"})
CanaryTraffic(e) == Signs(e, {"validation_canary"})
Traffic(e) == Attributed(e) \cup Scenario(e)

Cleartext(e) ==
  IF "cleartext_request" \in Traffic(e) THEN Verdict("confirmed", "dynamic")
  ELSE IF ~e.manifest THEN Verdict("skipped", "static")
  ELSE IF e.cleartext = "yes" THEN Verdict("potential", "static")
  ELSE IF e.cleartext = "no" /\ ~e.netConfig THEN Verdict("pass", "static")
  ELSE Verdict("inconclusive", "static")

Token(e) ==
  IF "canary_request" \in CanaryTraffic(e) \cup Scenario(e) \/ "canary" \in e.log \/ Events(e) \cap {"clear_sink", "logged", "remote_url", "clipboard"} # {}
  THEN Verdict("confirmed", "dynamic")
  ELSE IF "query_key" \in Traffic(e) \/ "marker" \in e.log \/ Events(e) \cap {"unclear_sink", "remote_data"} # {}
  THEN Verdict("potential", "dynamic")
  ELSE Verdict("inconclusive", "dynamic")

\* TlsBehaviorAnalyzer.analyze; scenario traffic is not part of it.
TlsStatus(e) ==
  IF {"canary_request", "canary_response"} \subseteq CanaryTraffic(e) THEN "confirmed"
  ELSE IF {"canary_request", "certificate_rejected"} \subseteq CanaryTraffic(e) THEN "pass"
  ELSE IF "canary_request" \in CanaryTraffic(e) /\ "pinning" \in Events(e) THEN "inconclusive"
  ELSE IF "custom_trust" \in Events(e) /\ ("accepted" \in Events(e) \/ "rejected" \notin Events(e)) THEN "potential"
  ELSE "inconclusive"
Tls(e) == Verdict(TlsStatus(e), "dynamic")

\* Crypto operations: an aspect of the rule is "bad", "good" or "unknown"; key
\* and IV are one number, 0 when unknown.
Seen(e) ==
  LET ops == Operations(e) IN
  {i \in DOMAIN ops : ops[i].parsed /\ ops[i].executed /\ (e.correlation = "good" => ops[i].inWindow)}
Unparsed(e) ==
  \E i \in DOMAIN Operations(e) : ~Operations(e)[i].parsed /\ (e.correlation = "good" => Operations(e)[i].inWindow)

Matched(rule, e) ==
  IF rule = "reuse" THEN \E i, j \in Seen(e) : i # j /\ e.operations[i].pair # 0 /\ e.operations[i].pair = e.operations[j].pair
  ELSE \E i \in Seen(e) : e.operations[i].aspect = "bad"

\* What has to be known of the operations before they clear the app.
Covered(rule, e) ==
  CASE rule = "reuse" -> Cardinality({i \in Seen(e) : e.operations[i].pair # 0}) >= 2
    [] rule = "random" -> Seen(e) # {} /\ \A i \in Seen(e) : e.operations[i].aspect # "unknown"
    [] OTHER -> \E i \in Seen(e) : e.operations[i].aspect # "unknown"

CryptoRuntime(rule, e) ==
  Verdict(IF Matched(rule, e) THEN (IF rule = "digest" THEN "potential" ELSE "confirmed")
          ELSE IF Unparsed(e) THEN "error" ELSE IF Covered(rule, e) THEN "pass" ELSE "inconclusive", "instrumentation")

WebViewBy(e) == IF Events(e) # {} THEN "instrumentation" ELSE "static"
Bridge(e) == Verdict(IF "remote_bridge" \in Events(e) THEN "potential" ELSE "inconclusive", WebViewBy(e))
Settings(e) == Verdict(IF Events(e) \cap {"unsafe_content", "debugging"} # {} THEN "potential" ELSE "inconclusive", WebViewBy(e))

ProceedListed(e) == e.static # "absent" /\ e.proceedApi
SslProceed(e) ==
  LET gate == IF ProceedListed(e) THEN {} ELSE AlternativeGate(e, {<<e.frida, FridaUsable(e)>>}) IN
  IF gate # {} THEN CHOOSE v \in gate : TRUE
  ELSE Verdict(IF "matched_proceed" \in Events(e) THEN "confirmed" ELSE IF ProceedListed(e) THEN "potential" ELSE "inconclusive",
               WebViewBy(e))

Observation(e) == Verdict(IF "observed" \in Events(e) THEN "pass" ELSE "inconclusive", "instrumentation")

(***************************************************************************)
(* Rules over the storage of the app                                       *)
(***************************************************************************)
PrivateFiles(e) ==
  IF ~e.storage.present THEN Verdict("skipped", "root_assisted")
  ELSE Verdict(IF e.storage.worldReadable \/ e.storage.plaintext THEN "potential" ELSE "pass", "root_assisted")

\* The inspector calls a world-readable file "potential".
WorldReadable(e) ==
  Verdict(IF ~e.storage.present THEN "skipped"
          ELSE IF e.storage.worldReadable THEN "potential"
          ELSE IF e.storage.inventory = "error" THEN "error"
          ELSE IF e.storage.inventory # "completed" THEN "inconclusive" ELSE "pass", "root_assisted")

StoredCanary(e) ==
  LET gate == AlternativeGate(e, {<<e.root, e.storage.present>>, <<e.frida, FridaUsable(e)>>})
      seen == (e.storage.present /\ e.storage.plaintext) \/ Events(e) \cap {"preference", "row", "package_file"} # {}
  IN IF gate # {} THEN CHOOSE v \in gate : TRUE
     ELSE Verdict(IF seen THEN "confirmed" ELSE IF e.storage.present /\ e.storage.content = "error" THEN "error" ELSE "inconclusive",
                  IF e.storage.present THEN "root_assisted" ELSE "instrumentation")

(***************************************************************************)
(* The verdict                                                             *)
(***************************************************************************)
Evaluated(rule, e) ==
  IF rule \in FridaRequired /\ FridaErrors(e) THEN Verdict("error", "instrumentation") ELSE
  CASE rule = "debuggable" -> Debuggable(e)
    [] rule = "policy" -> Policy(e)
    [] rule = "component_policy" -> ComponentPolicy(e)
    [] rule = "secret" -> Secret(e)
    [] rule = "cleartext" -> Cleartext(e)
    [] rule = "token" -> Token(e)
    [] rule = "exported" -> Exported(e)
    [] rule = "tls" -> Tls(e)
    [] rule = "bridge" -> Bridge(e)
    [] rule = "settings" -> Settings(e)
    [] rule = "ssl_proceed" -> SslProceed(e)
    [] rule = "observation" -> Observation(e)
    [] rule = "private_files" -> PrivateFiles(e)
    [] rule = "world_readable" -> WorldReadable(e)
    [] rule = "stored_canary" -> StoredCanary(e)
    [] rule = "api_policy" -> ApiPolicy(e)
    [] rule = "behavior" -> Behavior(e)
    [] OTHER -> CryptoRuntime(rule, e)

NoValidation == [status |-> "none", key |-> "none"]

\* Each call site that would open a file to everybody, and what its own
\* validation said (_storage_candidate_correlation).
Outcome(candidate, validation) ==
  IF validation.key # candidate THEN "unresolved"
  ELSE IF validation.status = "confirmed" THEN "confirmed" ELSE IF validation.status = "pass" THEN "rejected"
  ELSE IF validation.status = "inconclusive" THEN "inconclusive" ELSE "not_exercised"

StorageCandidates(candidates, v, validation) ==
  LET outcomes == {Outcome(c, validation) : c \in candidates} IN
  Verdict(IF "confirmed" \in outcomes THEN "confirmed"
          ELSE IF "inconclusive" \in outcomes THEN "inconclusive"
          ELSE IF "not_exercised" \in outcomes THEN "potential"
          ELSE IF "rejected" \in outcomes
               THEN (IF v.status = "confirmed" THEN "confirmed" ELSE IF "unresolved" \in outcomes THEN "potential" ELSE "pass")
          ELSE IF v.status \in {"pass", "skipped"} THEN "potential"
          ELSE v.status, v.by)

\* A positive observation at run time stands; anything else gives way to the
\* static candidates.
RuntimePositive(rule, e, v) ==
  \/ v.status = "confirmed"
  \/ v.status = "potential" /\ v.by # "static" /\ (rule = "ssl_proceed" => "matched_proceed" \in Events(e))

WithStatic(rule, e, v, validation) ==
  LET candidates == Candidates(rule, e) IN
  IF candidates = {} THEN v
  ELSE IF rule = "world_readable" THEN StorageCandidates(candidates, v, validation)
  ELSE IF v.by = "fallback" \/ RuntimePositive(rule, e, v) THEN v ELSE Fallback

Gated(rule, e) == IF ExecutionGate(rule, e) # {} THEN CHOOSE v \in ExecutionGate(rule, e) : TRUE ELSE Evaluated(rule, e)

\* An evaluator that is reached may raise; the error is the verdict, and the static
\* candidates are not looked at.
Raises(rule, e) == e.raises /\ ExecutionGate(rule, e) = {} /\ ~(rule \in FridaRequired /\ FridaErrors(e))

\* The status of a finding: evidence e, and the validation recorded before.
Status(rule, e, validation) ==
  IF validation.status = "confirmed" THEN "confirmed"
  ELSE IF Raises(rule, e) THEN "error"
  ELSE WithStatic(rule, e, Gated(rule, e), validation).status
=============================================================================
