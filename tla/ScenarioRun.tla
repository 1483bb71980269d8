----------------------------- MODULE ScenarioRun -----------------------------
(***************************************************************************)
(* ScenarioRunner (scenario.py) over the adb backend (scenario_service.py) *)
(* for the scenarios of a profile, and CandidateMicroScenarioService       *)
(* (micro_scenario.py), which plans a scenario from the form it sees and   *)
(* runs it the same way.  The app changes its screen when it likes.        *)
(***************************************************************************)
EXTENDS Integers, Sequences, FiniteSets

CONSTANTS
  Screens,       \* what may be in front
  Profiles,      \* plans that the loader has read from files
  Components,    \* the manifest: a sequence of [name, launcher, open]
  AnyActivity, NoSelector, NoPlan, NoNode,
  ActivationQuota

\* A node of a screen: what the selectors, the runner and the planner ask of it.
Node == [id : STRING, text : STRING, class : STRING, clickable : BOOLEAN, editable : BOOLEAN,
         enabled : BOOLEAN, safe : BOOLEAN, rank : 0..2, score : Nat]
Point == [NoNode EXCEPT !.clickable = TRUE]     \* the fallback of a selector to a coordinate

Actions == {"launch", "wait_for", "input", "click", "wait_for_transition", "collect", "cleanup"}
ReadOnly == {"wait_for", "wait_for_transition", "collect"}
Mutating == {"launch", "input", "click"}
Outcomes == {"completed", "failed_precondition", "failed_activation", "timeout_unknown", "out_of_scope",
             "partial", "not_exercised"}

(***************************************************************************)
(* Selectors                                                               *)
(***************************************************************************)
\* _resolve_selector: a strategy with one match wins, the class and index come
\* after the names and a coordinate comes last.
Resolve(sel, scr) ==
  LET nodes == scr.nodes
      enabled == {i \in DOMAIN nodes : nodes[i].enabled}
      byId == {i \in enabled : sel.id # "" /\ nodes[i].id = sel.id}
      byText == {i \in enabled : sel.text # "" /\ nodes[i].text = sel.text}
      ofClass == {i \in enabled : sel.class # "" /\ nodes[i].class = sel.class}
      byClass == {i \in ofClass : Cardinality({j \in ofClass : j < i}) = sel.index}
      found == IF Cardinality(byId) = 1 THEN byId ELSE IF Cardinality(byText) = 1 THEN byText ELSE byClass
  IN IF found # {} THEN nodes[CHOOSE i \in found : TRUE] ELSE IF sel.point THEN Point ELSE NoNode

(***************************************************************************)
(* What the loader and the preflight accept                                *)
(***************************************************************************)
ValidSteps(steps) ==
  /\ Len(steps) \in Nat \ {0} /\ DOMAIN steps = 1..Len(steps) /\ steps[1].action = "launch"
  /\ \A i \in DOMAIN steps : (steps[i].action = "cleanup") <=> (i = Len(steps))

ValidStep(s) ==
  /\ s.action \in Actions /\ s.retries \in 0..3
  /\ s.retries > 0 => s.action \in ReadOnly
  /\ s.action \in {"wait_for", "input", "click"} => s.sel # NoSelector
  /\ s.action \in {"launch", "collect", "cleanup"} => s.sel = NoSelector
  /\ s.action = "wait_for_transition" => s.sel # NoSelector \/ s.expect # AnyActivity
  /\ s.action \notin {"launch", "wait_for_transition"} => s.expect = AnyActivity

ASSUME ScenarioAssumption ==
  /\ \A scr \in Screens : scr.nodes \in Seq(Node)
  /\ \A p \in Profiles : ValidSteps(p) /\ \A i \in DOMAIN p : ValidStep(p[i])
  /\ NoPlan \notin Profiles /\ NoNode \in Node /\ ActivationQuota \in Nat

(***************************************************************************)
(* The planner                                                             *)
(***************************************************************************)
\* _launcher_activity
Launcher ==
  LET main == SelectSeq(Components, LAMBDA c : c.launcher)
      open == SelectSeq(Components, LAMBDA c : c.open)
  IN IF main # <<>> THEN main[1].name ELSE IF open # <<>> THEN open[1].name ELSE AnyActivity

\* _selector: the index counts every node of the class, also the disabled ones.
SelectorFor(nodes, i) ==
  LET n == nodes[i] IN
  [id |-> n.id, text |-> IF n.id = "" THEN n.text ELSE "",
   class |-> IF n.id = "" /\ n.text = "" THEN n.class ELSE "",
   index |-> Cardinality({j \in 1..(i - 1) : nodes[j].class = n.class}), point |-> FALSE]

\* The position in S of the highest value, the first of several.
Foremost(S, value) == CHOOSE i \in S : \A j \in S : value[i] > value[j] \/ (value[i] = value[j] /\ i <= j)

Step(action, sel, expect, retries) == [action |-> action, sel |-> sel, expect |-> expect, retries |-> retries]

\* _action_eligible
ActionEligible(n) == n.clickable /\ n.enabled /\ ~n.editable /\ n.safe

\* _plan_from_observation
Plan(scr) ==
  LET nodes == scr.nodes
      inputs == {i \in DOMAIN nodes : nodes[i].editable /\ nodes[i].enabled}
      actions == {i \in DOMAIN nodes : ActionEligible(nodes[i])}
      urgency == [i \in DOMAIN nodes |-> 2 - nodes[i].rank]
      first == Foremost(inputs, urgency)
      second == Foremost(inputs \ {first}, urgency)
      chosen == Foremost(actions, [i \in DOMAIN nodes |-> nodes[i].score])
      type(i) == Step("input", SelectorFor(nodes, i), AnyActivity, 0)
      launch == Step("launch", NoSelector, Launcher, 0)
      appear == Step("wait_for", SelectorFor(nodes, first), AnyActivity, 2)
      tap == Step("click", SelectorFor(nodes, chosen), AnyActivity, 0)
      move == Step("wait_for_transition", NoSelector, AnyActivity, 2)
      collect == Step("collect", NoSelector, AnyActivity, 1)
      leave == Step("cleanup", NoSelector, AnyActivity, 0)
  IN IF inputs = {} \/ actions = {} THEN NoPlan
     ELSE IF inputs = {first} THEN <<launch, appear, type(first), tap, move, collect, leave>>
     ELSE <<launch, appear, type(first), type(second), tap, move, collect, leave>>

(***************************************************************************)
(* A run                                                                   *)
(***************************************************************************)
VARIABLES
  screen,        \* what is in front
  late,          \* the total timeout is over
  pc, plan, index, tries, aim, results, outcome,
  micro,         \* the plan was made from the screen
  sent,          \* history: how often each step reached for the device
  touched        \* history: the controls that were typed into or tapped

scenarioVars == <<screen, late, pc, plan, index, tries, aim, results, outcome, micro, sent, touched>>

Here == plan[index]

ScenarioTypeOK ==
  /\ screen \in Screens /\ late \in BOOLEAN /\ micro \in BOOLEAN
  /\ pc \in {"observe", "preflight", "call", "look", "act", "cleanup", "done"}
  /\ aim \in Node /\ outcome \in Outcomes
  /\ plan # NoPlan => /\ index \in DOMAIN plan /\ tries \in 0..Here.retries
                      /\ results \in [DOMAIN plan -> {"not_reached", "completed", "failed"}]
                      /\ sent \in [DOMAIN plan -> Nat]

Adopt(p) ==
  /\ plan' = p
  /\ results' = IF p = NoPlan THEN <<>> ELSE [i \in DOMAIN p |-> "not_reached"]
  /\ sent' = IF p = NoPlan THEN <<>> ELSE [i \in DOMAIN p |-> 0]

ScenarioInit ==
  /\ screen \in Screens /\ late = FALSE /\ index = 1 /\ tries = 0 /\ aim = NoNode
  /\ outcome = "completed" /\ touched = {}
  /\ \/ /\ micro = FALSE /\ pc = "preflight" /\ plan \in Profiles
        /\ results = [i \in DOMAIN plan |-> "not_reached"] /\ sent = [i \in DOMAIN plan |-> 0]
     \/ micro = TRUE /\ pc = "observe" /\ plan = NoPlan /\ results = <<>> /\ sent = <<>>

\* CandidateMicroScenarioService.run before the runner.
Observe ==
  /\ pc = "observe"
  /\ \/ pc' = "done" /\ outcome' \in {"out_of_scope", "not_exercised"} /\ UNCHANGED <<plan, results, sent>>
     \/ /\ Adopt(IF screen.app THEN Plan(screen) ELSE NoPlan)
        /\ IF ~screen.app THEN pc' = "done" /\ outcome' = "out_of_scope"
           ELSE IF ActivationQuota < 3 \/ plan' = NoPlan THEN pc' = "done" /\ outcome' = "not_exercised"
           ELSE pc' = "preflight" /\ UNCHANGED outcome
  /\ UNCHANGED <<screen, late, index, tries, aim, micro, touched>>

\* _preflight: scope, network guard and observers are there or they are not.
Preflight ==
  /\ pc = "preflight"
  /\ \/ pc' = "call" /\ UNCHANGED outcome
     \/ pc' = "done" /\ outcome' \in {"out_of_scope", "failed_precondition"}
  /\ UNCHANGED <<screen, late, plan, index, tries, aim, results, micro, sent, touched>>

StepFails(how) ==
  /\ results' = [results EXCEPT ![index] = "failed"] /\ outcome' = how
  /\ pc' = "cleanup" /\ UNCHANGED <<index, tries>>

StepCompletes ==
  /\ results' = [results EXCEPT ![index] = "completed"]
  /\ index' = index + 1 /\ tries' = 0 /\ UNCHANGED outcome
  /\ pc' = IF plan[index + 1].action = "cleanup" THEN "cleanup" ELSE "call"

\* Mutation: the count of reads starts again when it is used up.
RetriesAgain(how) ==
  /\ tries' = (tries + 1) % (Here.retries + 1)
  /\ UNCHANGED <<pc, index, results, outcome>>

\* Only what reads is tried again.
Retries(how) ==
  \/ tries < Here.retries /\ tries' = tries + 1 /\ UNCHANGED <<pc, index, results, outcome>>
  \/ tries = Here.retries /\ StepFails(how)

\* Mutation: a mutating call that timed out is sent again.
CallEndsRetried(next) ==
  \/ next
  \/ UNCHANGED <<pc, index, tries, results, outcome>>
  \/ \E how \in {"out_of_scope", "failed_activation"} : StepFails(how)

\* How a mutating call ends: a timeout leaves its effect unknown.
CallEnds(next) ==
  \/ next
  \/ \E how \in {"timeout_unknown", "out_of_scope", "failed_activation"} : StepFails(how)

Reach == sent' = [sent EXCEPT ![index] = @ + 1]

\* backend.launch does nothing when the activity is in front already.  What a
\* launch expects stands for the activity of the step and of the profile.
Launch ==
  /\ pc = "call" /\ Here.action = "launch"
  /\ IF late THEN StepFails("failed_activation") /\ UNCHANGED <<screen, sent>>
     ELSE /\ CallEnds(pc' = "look" /\ UNCHANGED <<index, tries, results, outcome>>)
          /\ Reach
          /\ IF screen.app /\ Here.expect \in {AnyActivity, screen.activity} THEN UNCHANGED screen
             ELSE screen' \in Screens
  /\ UNCHANGED <<late, plan, aim, micro, touched>>

\* _checked_observation after a launch, and before typing and tapping.
LookLaunched ==
  /\ pc = "look"
  /\ \/ StepFails("failed_activation")
     \/ ~late /\ ~screen.app /\ StepFails("out_of_scope")
     \/ ~late /\ screen.app /\ Here.expect \in {AnyActivity, screen.activity} /\ StepCompletes
  /\ UNCHANGED <<screen, late, plan, aim, micro, sent, touched>>

\* _current_selector and what input and click ask of the node.
Aim ==
  /\ pc = "call" /\ Here.action \in {"input", "click"}
  /\ LET node == Resolve(Here.sel, screen)
         fits == /\ node # NoNode
                 /\ IF Here.action = "input" THEN node # Point /\ node.editable ELSE node.clickable
     IN \/ StepFails("failed_activation") /\ UNCHANGED aim
        \/ ~late /\ ~screen.app /\ StepFails("out_of_scope") /\ UNCHANGED aim
        \/ ~late /\ Here.action = "input" /\ screen.app /\ fits /\ StepFails("failed_precondition") /\ UNCHANGED aim
        \/ ~late /\ screen.app /\ fits /\ aim' = node /\ pc' = "act" /\ UNCHANGED <<index, tries, results, outcome>>
  /\ UNCHANGED <<screen, late, plan, micro, sent, touched>>

Act ==
  /\ pc = "act"
  /\ IF late THEN StepFails("failed_activation") /\ UNCHANGED <<sent, touched>>
     ELSE CallEnds(StepCompletes) /\ Reach /\ touched' = touched \cup {aim}
  /\ UNCHANGED <<screen, late, plan, aim, micro>>

\* _wait_for_selector and _run_wait_transition: only reading is tried again.
Wait ==
  /\ pc = "call" /\ Here.action \in {"wait_for", "wait_for_transition"}
  /\ LET met == /\ screen.app /\ (Here.expect \in {AnyActivity, screen.activity})
                /\ Here.sel # NoSelector => Resolve(Here.sel, screen) # NoNode
     IN \/ late /\ StepFails("failed_activation")
        \/ ~late /\ Retries("failed_activation")                         \* a timeout
        \/ ~late /\ StepFails("failed_activation")                       \* no answer that makes sense
        \/ ~late /\ Here.action = "wait_for_transition" /\ StepFails("out_of_scope")
        \/ ~late /\ ~screen.app /\ StepFails("out_of_scope")
        \/ ~late /\ met /\ StepCompletes
  /\ UNCHANGED <<screen, late, plan, aim, micro, sent, touched>>

\* _run_collect: that the total timeout is over counts as a failed observation.
Collect ==
  /\ pc = "call" /\ Here.action = "collect"
  /\ \/ StepFails("partial")
     \/ ~late /\ Retries("partial")
     \/ ~late /\ StepCompletes
  /\ UNCHANGED <<screen, late, plan, aim, micro, sent, touched>>

\* _cleanup_result: it has a bound of its own.
Cleanup ==
  /\ pc = "cleanup" /\ pc' = "done" /\ index' = Len(plan) /\ tries' = 0
  /\ \E ended \in {"completed", "failed"} :
       /\ results' = [results EXCEPT ![Len(plan)] = ended]
       /\ outcome' = IF ended = "failed" /\ outcome = "completed" THEN "partial" ELSE outcome
  /\ UNCHANGED <<screen, late, plan, aim, micro, sent, touched>>

ScreenChanges ==
  /\ pc # "done" /\ screen' \in Screens \ {screen}
  /\ UNCHANGED <<late, pc, plan, index, tries, aim, results, outcome, micro, sent, touched>>

TimeoutPasses ==
  /\ pc \notin {"observe", "preflight", "done"} /\ ~late /\ late' = TRUE
  /\ UNCHANGED <<screen, pc, plan, index, tries, aim, results, outcome, micro, sent, touched>>

RunnerStep ==
  Observe \/ Preflight \/ Launch \/ LookLaunched \/ Aim \/ Act \/ Wait \/ Collect \/ Cleanup
ScenarioNext == RunnerStep \/ ScreenChanges \/ TimeoutPasses
ScenarioSpec == ScenarioInit /\ [][ScenarioNext]_scenarioVars /\ WF_scenarioVars(RunnerStep)

(***************************************************************************)
(* Properties                                                              *)
(***************************************************************************)
Ran == plan # NoPlan /\ pc = "done" /\ results[Len(plan)] # "not_reached"

\* What a caller makes of a result: completed means that every step and the
\* cleanup did what they should; otherwise the steps end with the one that failed,
\* nothing after it was tried, and the cleanup was.
ResultMatchesSteps ==
  pc = "done" /\ plan # NoPlan =>
    LET last == Len(plan)
        failed == {i \in 1..(last - 1) : results[i] = "failed"}
    IN /\ outcome = "completed" <=> \A i \in 1..last : results[i] = "completed"
       /\ \A i \in failed, j \in 1..(last - 1) :
            results[j] = IF j < i THEN "completed" ELSE IF j = i THEN "failed" ELSE "not_reached"
       /\ (\E i \in 1..last : results[i] # "not_reached" \/ sent[i] > 0) => results[last] # "not_reached"

\* A step that changes something on the device reaches for it once, whatever the
\* answer was, and after an unknown outcome nothing else does.
NoReplay ==
  plan # NoPlan =>
    /\ \A i \in DOMAIN plan : sent[i] <= 1
    /\ outcome = "timeout_unknown" => \A i \in DOMAIN plan : sent[i] > 0 => results[i] # "not_reached"

\* A form is planned on one screen and filled in on what is there later.  When
\* the plan knows its controls by names that, on whatever screen, only controls of
\* their kind carry, none of them is confused with a dangerous one.
Controls(id) == {n \in UNION {{scr.nodes[i] : i \in DOMAIN scr.nodes} : scr \in Screens} : n.id = id}
Telling(id) == id # "" /\ \A m, n \in Controls(id) : m.editable = n.editable /\ m.safe = n.safe
NamedControlsAreSafe ==
  micro /\ plan # NoPlan /\ (\A i \in DOMAIN plan : plan[i].action \in {"input", "click"} => Telling(plan[i].sel.id))
    => \A n \in touched : n.editable \/ n.safe

\* What a scenario did to the app, and what its result says it did, agree.
ScenarioTruthful == ScenarioTypeOK /\ ResultMatchesSteps /\ NoReplay /\ NamedControlsAreSafe

\* What micro_scenario.py says of its plan: the activation control is a safe one.
OnlySafeControls == micro => \A n \in touched : n.editable \/ n.safe
=============================================================================
