--------------------------- MODULE FindingLifecycle ---------------------------
(***************************************************************************)
(* One finding of a session: RuleEngine.evaluate writes it from the        *)
(* evidence (rules.py), ValidationService acts on the device and records a *)
(* validation in it (services/validation_service.py), and captures go on   *)
(* collecting evidence.  findings.json is guarded by the state lock, the   *)
(* evidence is not.                                                        *)
(***************************************************************************)
EXTENDS RuleVerdicts

CONSTANTS
  Evidence,          \* [Rules -> sets of evidence a session may start with]
  Later,             \* [Rules -> sets of evidence a later capture may leave]
  MaxAttempts,       \* limit of controlled validations in a session
  MaxGathered        \* bound: captures after the first

\* Candidates come from the inventory of the APKs, and the validator of a storage
\* rule addresses one of them.
ASSUME FindingAssumption ==
  /\ MaxAttempts \in Nat /\ MaxGathered \in Nat
  /\ \A r \in Rules : \A e \in Evidence[r] \cup Later[r] :
       /\ e \in EvidenceRecord /\ (e.static = "absent" => e.candidates = {})
       /\ r = "world_readable" => e.reach \in e.candidates \cup {"none"}

VARIABLES
  rule, evidence,
  finding,           \* [exists, status, validation] in findings.json
  attempts,          \* attempts in the events of the session
  lock,              \* the state lock: "free", "web" or "validator"
  job,               \* what an evaluation has read, for each actor
  validator,         \* [at, result]
  gathered,          \* history: captures after the first
  acted,             \* history: validations that reached the device
  recorded,          \* history: the last validation recorded
  judged             \* history: [e, validation] the status comes from, Unjudged since a later validation

findingVars == <<rule, evidence, finding, attempts, lock, job, validator, gathered, acted, recorded, judged>>
history == <<gathered, acted, recorded, judged>>

Actors == {"web", "validator"}
Validated == {"cleartext", "token", "exported", "world_readable"}
NoJob == [e |-> "none"]
Unjudged == [status |-> "unjudged", key |-> "none"]

\* An evaluation in progress owns the state lock, and only one does.
FindingTypeOK ==
  /\ rule \in Rules /\ finding.status \in Statuses /\ finding.exists \in BOOLEAN
  /\ finding.validation.status \in Statuses \cup {"none"}
  /\ attempts \in 0..MaxAttempts /\ lock \in Actors \cup {"free"}
  /\ validator.at \in {"idle", "reserved", "acted", "recorded", "evaluating", "returned"}
  /\ \A a \in Actors : job[a] # NoJob <=> lock = a

FindingInit ==
  /\ rule \in Rules /\ evidence \in Evidence[rule]
  /\ finding = [exists |-> FALSE, status |-> "skipped", validation |-> NoValidation]
  /\ attempts = 0 /\ lock = "free" /\ job = [a \in Actors |-> NoJob] /\ validator = [at |-> "idle", result |-> NoValidation]
  /\ gathered = 0 /\ acted = 0 /\ recorded = NoValidation
  /\ judged = [e |-> evidence, validation |-> NoValidation]

\* A capture, an inventory or a scan leaves other evidence.
Gather ==
  /\ gathered < MaxGathered /\ gathered' = gathered + 1
  /\ \E e \in Later[rule] : e.candidates = evidence.candidates /\ evidence' = e
  /\ UNCHANGED <<rule, finding, attempts, lock, job, validator, acted, recorded, judged>>

(***************************************************************************)
(* RuleEngine.evaluate                                                     *)
(***************************************************************************)
MayEvaluate(actor) == actor = "validator" => validator.at = "recorded"
Evaluating(actor) == validator' = IF actor = "validator" THEN [validator EXCEPT !.at = "evaluating"] ELSE validator

\* Mutation: the state lock is taken only for saving.
EvaluateReadUnlocked(actor) ==
  /\ MayEvaluate(actor) /\ lock = "free" /\ Evaluating(actor) /\ job[actor] = NoJob
  /\ job' = [job EXCEPT ![actor] = [e |-> evidence, validation |-> finding.validation]]
  /\ UNCHANGED <<rule, evidence, finding, attempts, lock, history>>

\* The evidence and the findings of before, read under the state lock.
EvaluateRead(actor) ==
  /\ MayEvaluate(actor) /\ lock = "free" /\ lock' = actor /\ Evaluating(actor)
  /\ job' = [job EXCEPT ![actor] = [e |-> evidence, validation |-> finding.validation]]
  /\ UNCHANGED <<rule, evidence, finding, attempts, history>>

EvaluateSave(actor) ==
  /\ job[actor] # NoJob
  /\ LET j == job[actor] IN
       /\ finding' = [exists |-> TRUE, status |-> Status(rule, j.e, j.validation), validation |-> j.validation]
       /\ judged' = j
  /\ job' = [job EXCEPT ![actor] = NoJob] /\ lock' = "free"
  /\ validator' = IF actor = "validator" THEN [validator EXCEPT !.at = "returned"] ELSE validator
  /\ UNCHANGED <<rule, evidence, attempts, gathered, acted, recorded>>

(***************************************************************************)
(* ValidationService.validate, under the device lock                       *)
(***************************************************************************)

\* _reserve_validation_attempt
Reserve ==
  /\ rule \in Validated /\ finding.exists /\ validator.at \in {"idle", "returned"}
  /\ attempts < MaxAttempts /\ attempts' = attempts + 1
  /\ validator' = [at |-> "reserved", result |-> NoValidation]
  /\ UNCHANGED <<rule, evidence, finding, lock, job, history>>

Answer(status, e) == [validation |-> [status |-> status, key |-> "none"], e |-> e]
KeyAnswer(status, e) == [validation |-> [status |-> status, key |-> e.reach], e |-> e]

\* What the canary may have left in the traffic, in a capture that was running
\* already or in one of the validator's own; others send requests, too.
Arrivals ==
  {{}, [sign : {"cleartext_request"}, by : {"other"}]} \cup
  {[sign : signs, by : {"validation_canary"}] : signs \in {{"canary_request"}, {"canary_request", "cleartext_request"}}}

CleartextAnswers(e) ==
  {Answer("inconclusive", e)} \cup
  {Answer(IF \E t \in traffic : t.by = "validation_canary" THEN "confirmed" ELSE "inconclusive", [e EXCEPT !.traffic = traffic]) :
     traffic \in {old \cup seen : old \in {{}, e.traffic}, seen \in Arrivals}}

LogAnswers(e, silent) ==
  {Answer("inconclusive", e)} \cup
  {Answer(IF "canary" \in log THEN "confirmed" ELSE silent, [e EXCEPT !.log = log]) : log \in SUBSET {"canary", "marker"}}

StorageAnswers(e) ==
  {KeyAnswer("inconclusive", e)} \cup
  {KeyAnswer(IF s.worldReadable THEN "confirmed" ELSE IF s.inventory = "completed" THEN "pass" ELSE "inconclusive",
             [e EXCEPT !.storage = s]) :
     s \in [present : {TRUE}, worldReadable : BOOLEAN, plaintext : {FALSE}, inventory : {"completed", "partial", "error"}, content : {"none"}]}

\* e.reach: the link, the activity or the receiver the canary may be sent to.
Answers(e) ==
  IF e.reach = "none" THEN {Answer("skipped", e)}
  ELSE CASE rule = "cleartext" -> CleartextAnswers(e)
         [] rule = "token" -> LogAnswers(e, "inconclusive")
         [] rule = "exported" -> LogAnswers(e, "potential")
         [] rule = "world_readable" -> StorageAnswers(e)

Act ==
  /\ validator.at = "reserved"
  /\ \E a \in Answers(evidence) :
       /\ evidence' = a.e
       /\ validator' = [at |-> "acted", result |-> a.validation]
       /\ acted' = IF evidence.reach = "none" THEN acted ELSE acted + 1
  /\ UNCHANGED <<rule, finding, attempts, lock, job, gathered, recorded, judged>>

\* FindingRepository.set_validation
Record ==
  /\ validator.at = "acted" /\ lock = "free"
  /\ finding' = [finding EXCEPT !.validation = validator.result,
                                !.status = IF validator.result.status = "confirmed" THEN "confirmed" ELSE @]
  /\ recorded' = validator.result /\ validator' = [validator EXCEPT !.at = "recorded"]
  /\ judged' = [judged EXCEPT !.validation = Unjudged]
  /\ UNCHANGED <<rule, evidence, attempts, lock, job, gathered, acted>>

\* An exception on the way, or the end of the process.
Abandon ==
  /\ validator.at \in {"reserved", "acted", "recorded", "evaluating"}
  /\ validator' = [validator EXCEPT !.at = "idle"]
  /\ job' = [job EXCEPT !["validator"] = NoJob] /\ lock' = IF lock = "validator" THEN "free" ELSE lock
  /\ UNCHANGED <<rule, evidence, finding, attempts, history>>

WebDies ==
  /\ lock = "web" /\ lock' = "free" /\ job' = [job EXCEPT !["web"] = NoJob]
  /\ UNCHANGED <<rule, evidence, finding, attempts, validator, history>>

FindingNext ==
  \/ Gather \/ Reserve \/ Act \/ Record \/ Abandon \/ WebDies
  \/ \E a \in Actors : EvaluateRead(a) \/ EvaluateSave(a)

FindingSpec == FindingInit /\ [][FindingNext]_findingVars

(***************************************************************************)
(* Properties                                                              *)
(***************************************************************************)
\* No evaluation, however it overlaps, loses a validation that was recorded.
ValidationKept == finding.validation = recorded

\* The limit holds for what reaches the device, whatever is abandoned on the way.
AttemptsBounded == acted <= MaxAttempts

\* When validate returns, the validation it recorded stands and is the one by which
\* the finding was last judged.
Reevaluated == validator.at = "returned" => judged.validation = recorded /\ (recorded = validator.result)

\* A confirmation shows at once, and as long as it is the last validation.
ConfirmationShows == recorded.status = "confirmed" => finding.status = "confirmed"

\* No validation was recorded since the finding was last evaluated.
Evaluated1 == finding.exists /\ judged.validation = finding.validation
E1 == judged.e

\* The root module did not work: a full scan had root, or could not tell, and did
\* not inspect the storage; or its inventory failed and showed nothing.
RootModuleFailed(e) ==
  IF e.storage.present THEN e.storage.inventory = "error" /\ ~e.storage.worldReadable
  ELSE Scanned(e) /\ e.profile # "quick" /\ e.root # "no"

\* A static candidate is never skipped, and only the validation of the one call
\* site there is can clear it.  It gives way to an error in two cases: the
\* evaluator raised, or the root module failed a rule on the storage.  In the
\* second the code does not do what it says of itself: see CandidateSurvivesGate.
CandidateKept ==
  Evaluated1 /\ Candidates(rule, E1) # {} =>
    /\ finding.status # "skipped"
    /\ finding.status = "pass" => rule = "world_readable" /\ Candidates(rule, E1) = {recorded.key} /\ recorded.status = "pass"
    /\ finding.status = "error" => Raises(rule, E1) \/ (rule = "world_readable" /\ RootModuleFailed(E1))

\* "A static storage call-site remains a useful potential even when the
\* Full-profile root module was not executed" (rules.py): the gate does not erase
\* the candidate.
CandidateSurvivesGate ==
  Evaluated1 /\ rule = "world_readable" /\ Candidates(rule, E1) # {} /\ E1.profile = "full" /\ ~E1.storage.present =>
    finding.status \notin {"skipped", "error"}

\* Where a scan did not run the module a rule needs, the rule says nothing of
\* the app, good or bad, beyond its static candidates.
GateHonest ==
  /\ Evaluated1 /\ Scanned(E1)
  /\ (rule \in FridaRequired /\ ~ObserverRan(E1)) \/ (rule \in RootRequired /\ ~E1.storage.present)
  => finding.status \in {"skipped", "error"} \/ Candidates(rule, E1) # {}

\* Frida evidence of which one part is damaged, foreign or from a fixture never
\* decides anything.
BadFridaDecidesNothing ==
  Evaluated1 /\ (\E f \in E1.files : f.registered /\ (~f.intact \/ ~f.parsed \/ (f.source = "fixture" /\ Scanned(E1)))) =>
    /\ rule \in FridaRequired => finding.status \in {"error", "skipped"} \/ Candidates(rule, E1) # {}
    /\ finding.status = Status(rule, [E1 EXCEPT !.events = {}, !.operations = <<>>], finding.validation)

\* A request attributed to the package or to the canary.
OwnSign(e, sign) == \E t \in e.traffic : t.sign = sign /\ t.by # "other"

\* A finding is confirmed by the app's own doing: by its own requests or by those
\* that carry the canary, by routes whose file is the one that was registered, or
\* by a validation; a request of another process confirms nothing.
ConfirmedIsOwn ==
  Evaluated1 /\ finding.status = "confirmed" /\ recorded.status # "confirmed" =>
    /\ rule = "cleartext" =>
         OwnSign(E1, "cleartext_request") \/ ("cleartext_request" \in E1.scenario /\ E1.correlation = "good")
    /\ rule = "component_policy" => E1.ipc.registered /\ E1.ipc.intact
    /\ rule \in Crypto => \E i \in DOMAIN E1.operations : E1.operations[i].executed

\* To pass, the rule has seen all it needs to see.
PassIsCovered ==
  Evaluated1 /\ finding.status = "pass" =>
    CASE rule \in {"debuggable", "policy", "exported"} -> E1.manifest
      [] rule = "component_policy" -> E1.policy = "pass" \/ E1.ipc.outcomes = {"rejected"}
      [] rule = "cleartext" -> E1.manifest /\ E1.cleartext = "no" /\ ~OwnSign(E1, "cleartext_request")
      [] rule \in {"secret", "api_policy", "behavior"} -> E1.static = "completed"
      [] rule \in Crypto ->
           /\ E1.operations # <<>>
           /\ \A i \in DOMAIN E1.operations : E1.correlation # "good" => E1.operations[i].parsed
      [] rule = "world_readable" -> \/ E1.storage.present /\ E1.storage.inventory = "completed"
                                    \/ recorded.status = "pass"
      [] rule = "tls" -> [sign : {"canary_request", "certificate_rejected"}, by : {"validation_canary"}] \subseteq E1.traffic
      [] OTHER -> rule \in {"observation", "private_files"}

\* What a weakness looks like in the evidence, beside what is there.
Worse(e) ==
  {[e EXCEPT !.traffic = @ \cup {[sign |-> w, by |-> "target"]}] : w \in {"cleartext_request", "query_key"}} \cup
  {[e EXCEPT !.events = @ \cup {w}] : w \in {"clear_sink", "matched_proceed", "remote_bridge", "debugging", "custom_trust", "preference"}} \cup
  {[e EXCEPT !.log = @ \cup {"canary"}], [e EXCEPT !.secrets = TRUE], [e EXCEPT !.apis = TRUE],
   [e EXCEPT !.components = @ \cup {[exported |-> "yes", protected |-> FALSE, launcher |-> FALSE]}],
   [e EXCEPT !.storage.worldReadable = TRUE]} \cup
  {[e EXCEPT !.operations = Append(@, [parsed |-> TRUE, executed |-> TRUE, inWindow |-> TRUE, aspect |-> "bad", pair |-> pair])] :
     pair \in IF Seen(e) = {} THEN {1} ELSE {e.operations[i].pair : i \in Seen(e)}}

\* More signs of a weakness never make a finding pass.
WorseNeverPasses ==
  Evaluated1 /\ finding.status # "pass" =>
    \A e \in Worse(E1) : Status(rule, e, finding.validation) # "pass"

\* A validation that was recorded stays, was allowed, and has been judged.
ValidationHonoured == FindingTypeOK /\ ValidationKept /\ AttemptsBounded /\ Reevaluated /\ ConfirmationShows

\* A verdict rests on evidence that is there, is the app's own, and is enough for it,
\* and a static candidate is kept but for the errors CandidateKept names.
VerdictCovered ==
  /\ CandidateKept /\ GateHonest /\ BadFridaDecidesNothing
  /\ ConfirmedIsOwn /\ PassIsCovered /\ WorseNeverPasses
=============================================================================
