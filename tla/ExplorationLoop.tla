--------------------------- MODULE ExplorationLoop ---------------------------
(***************************************************************************)
(* AndroidExplorer.run (explorer.py): one bounded exploration of an app    *)
(* behind the traffic guard.  The app is its own master: it may show       *)
(* another screen, a dialog or nothing at all at any moment.  A screen is  *)
(* the fingerprint of a UI hierarchy and the activity it was taken in.     *)
(***************************************************************************)
EXTENDS Naturals, Sequences, FiniteSets, SequencesExt

CONSTANTS
  Screens, NoScreen,
  Nodes,         \* Nodes[s]: the nodes of screen s
  Targets,       \* exported activities and deep links that the manifest offers
  Links,         \* the targets that are deep links
  Refused,       \* the targets that are disabled, of another package or outside the scope
  Activity,      \* Activity[s]: the targets that lead to the activity of screen s
  NoTarget, NoNode,
  Canary,        \* controlled canary delivery with a session canary
  MaxActions, MaxStates, MaxDepth, MaxFailures,   \* ExplorerConfig
  MaxTime        \* bound: max_runtime in units of the timeout of an action

\* What build_actions and the form rules ask of a node.  topic: an input that is of
\* use only until its topic has come up at run time; title: it repeats the name of
\* the activity; menu: the label, if it opens a menu, or "none".
Node == [id : STRING, clickable : BOOLEAN, long : BOOLEAN, editable : BOOLEAN,
         enabled : BOOLEAN, visible : BOOLEAN, filled : BOOLEAN, safe : BOOLEAN,
         semantic : BOOLEAN, form : {"no", "label", "button"}, input : {"carrier", "support"},
         topic : BOOLEAN, title : BOOLEAN, menu : STRING]

ASSUME ExplorerAssumption ==
  /\ \A s \in Screens : Nodes[s] \subseteq Node
  /\ NoScreen \notin Screens /\ Links \subseteq Targets /\ Refused \subseteq Targets /\ NoTarget \notin Targets
  /\ Activity \in [Screens -> SUBSET Targets]
  /\ Canary \in BOOLEAN
  /\ {MaxActions, MaxStates, MaxDepth, MaxFailures, MaxTime} \subseteq Nat \ {0}

VARIABLES
  place,         \* what is in front: a screen of the app, or something else
  workspace,     \* the remote directory of the UI dumps exists
  time,
  pc, current, act, todo, target,
  visited, executed, scrolled, retried, history,
  nav, pending, formPending, keyboard,
  attempted, failures, canary, partial, termination,
  seen,          \* history: the screen of the last observation
  unknown        \* history: taps whose outcome nobody knows

explorerVars == <<place, workspace, time, pc, current, act, todo, target, visited, executed,
  scrolled, retried, history, nav, pending, formPending, keyboard, attempted, failures,
  canary, partial, termination, seen, unknown>>

Elsewhere == {"outside", "dialog", "dead"}
NavStatus == {"attempted", "opened", "blocked", "permission_denied", "outcome_unknown"}
Reasons == {"none", "completed", "stop_requested", "max_runtime", "max_actions", "max_states",
            "coverage_plateau", "action_failure_limit", "action_recovery_failed",
            "state_refresh_failed", "process_state_unavailable", "process_restart_failed",
            "package_boundary", "raised"}
NoAct == [node |-> NoNode, kind |-> "none", form |-> FALSE]

(***************************************************************************)
(* build_actions and the rules for forms                                   *)
(***************************************************************************)
InputCandidate(n) == n.editable /\ n.enabled /\ n.visible /\ ~n.filled

Pressable(n, kind) ==
  /\ ~n.editable /\ n.enabled /\ n.visible /\ n.safe
  /\ IF kind = "tap" THEN n.clickable ELSE n.long

\* The traffic guard is active, or the run would not have begun.
Offered(s) ==
  {a \in [node : Nodes[s], kind : {"input", "tap", "long_tap"}, form : {FALSE}] :
     IF a.kind = "input" THEN InputCandidate(a.node) ELSE Pressable(a.node, a.kind)}

Done(s, n, done) == <<s, n.id, "input">> \in done
Fields(s, done) == {n \in Nodes[s] : IF Done(s, n, done) THEN n.editable /\ n.enabled /\ n.visible
                                     ELSE InputCandidate(n)}
Carriers(s, done) == {n \in Fields(s, done) : n.input = "carrier"}
Supports(s, done) == {n \in Fields(s, done) : n.input = "support"}
FormAction(s, a, done) ==
  /\ Carriers(s, done) # {}
  /\ a.node.form = "label" \/ (a.node.form = "button" /\ a.kind = "tap" /\ Supports(s, done) # {})
HasFormAction(s, done) ==
  \E a \in Offered(s) : a.kind = "tap" /\ <<s, a.node.id, "tap">> \notin done /\ FormAction(s, a, done)

NearbyInputs(s, done) == {n \in Nodes[s] : InputCandidate(n) /\ ~Done(s, n, done)}

\* Mutation: what was executed is not asked for.
CandidatesAgain(s, heard) == {a \in Offered(s) : Len(history) >= MaxDepth => a.kind = "input"}

\* A menu is opened once from a screen, by whichever control has its label.
MenuOpened(s, n) == n.menu # "none" /\ \E m \in Nodes[s], kind \in {"tap", "long_tap"} : m.menu = n.menu /\ <<s, m.id, kind>> \in executed

\* heard: the inputs whose topics the observers have reported.
Candidates(s, heard) ==
  {a \in Offered(s) : /\ <<s, a.node.id, a.kind>> \notin executed
                      /\ Len(history) >= MaxDepth => a.kind = "input"
                      /\ a.kind = "input" => a.node \notin heard
                      /\ ~a.node.title /\ ~MenuOpened(s, a.node)}

(***************************************************************************)
(* Steps of a run                                                          *)
(***************************************************************************)
PerformLabels == {"input", "carrier", "support", "hideForm", "hide", "tap", "scroll", "back",
                  "retryInput", "retryHide", "retryTap", "navigate"}
ObserveLabels == {"observeHide", "observeTap", "observeRetry", "observeScroll", "observeBack",
                  "observeNav", "observeStart"}
ExplorerLabels == {"start", "first", "top", "choose", "recover", "recoverNav", "idle", "pid", "cleanup",
                   "done"} \cup PerformLabels \cup ObserveLabels

ExplorerTypeOK ==
  /\ place \in Screens \cup Elsewhere /\ workspace \in BOOLEAN /\ time \in 0..MaxTime
  /\ pc \in ExplorerLabels /\ current \in Screens \cup {NoScreen} /\ seen \in Screens \cup {NoScreen}
  /\ target \in Targets \cup {NoTarget}
  /\ visited \subseteq Screens /\ scrolled \subseteq Screens /\ history \in Seq(Screens)
  /\ nav \in [Targets -> NavStatus] /\ pending \subseteq Targets
  /\ formPending \in BOOLEAN /\ keyboard \in BOOLEAN /\ partial \in BOOLEAN
  /\ attempted \in Nat /\ failures \in 0..MaxFailures
  /\ canary \in [{"attempts", "failures", "deliveries", "recovered"} -> Nat]
  /\ termination \in Reasons

ExplorerInit ==
  /\ place \in Screens \cup {"outside", "dead"} /\ workspace = FALSE /\ time = 0
  /\ pc = "start" /\ current = NoScreen /\ act = NoAct /\ todo = {} /\ target = NoTarget
  /\ visited = {} /\ executed = {} /\ scrolled = {} /\ retried = {} /\ history = <<>>
  /\ nav = [t \in Targets |-> "attempted"] /\ pending = {}
  /\ formPending = FALSE /\ keyboard = FALSE
  /\ attempted = 0 /\ failures = 0 /\ partial = FALSE /\ termination = "none"
  /\ canary = [c \in {"attempts", "failures", "deliveries", "recovered"} |-> 0]
  /\ seen = NoScreen /\ unknown = {}

counters == <<attempted, failures, canary, partial>>
graph == <<visited, executed, scrolled, retried, history>>
device == <<place, workspace>>
navigation == <<nav, pending, target>>
step == <<act, todo>>

Goto(label) == pc' = label
Early == time < MaxTime

\* block_pending_navigation
BlockPending(n) == [t \in Targets |-> IF t \in pending THEN "blocked" ELSE n[t]]

StopAfter(reason, isPartial, n) ==
  /\ termination' = reason /\ partial' = (partial \/ isPartial)
  /\ nav' = BlockPending(n) /\ pending' = {}
  /\ Goto("cleanup")
Stop(reason, isPartial) == StopAfter(reason, isPartial, nav)

\* dismiss_external_dialog: a permission dialog or an acknowledgement of the
\* system is tapped away, another package is left alone.
Dismissable(s) == place = "dialog" /\ s \in Screens

\* _dump_ui_bounded creates the remote directory before the first dump.
DumpUi == workspace' = TRUE

\* _capture: an observation shows a screen of the app; a dialog of the system
\* that is in front of it may be dismissed.
Sees(s) ==
  /\ Early
  /\ place = s \/ Dismissable(s)
  /\ place' = s /\ DumpUi /\ seen' = s

\* observe_after_action: a process that is dead is launched again.
SeesAfter(s) == Sees(s) \/ (Early /\ place = "dead" /\ place' = s /\ DumpUi /\ seen' = s)

\* Mutation: an expired clock does not end the run.
DeadlineReachedIgnored == FALSE

DeadlineReached ==
  /\ time = MaxTime /\ pc \in {"start", "first", "recover", "recoverNav", "pid"} \cup PerformLabels \cup ObserveLabels
  /\ attempted' = IF pc \in PerformLabels THEN attempted + 1 ELSE attempted
  /\ canary' = IF pc = "carrier" \/ (pc = "navigate" /\ target \in Links /\ Canary)
               THEN [canary EXCEPT !.attempts = @ + 1] ELSE canary
  /\ Stop("max_runtime", FALSE)
  /\ UNCHANGED <<device, time, current, step, target, graph, formPending, keyboard, failures, seen, unknown>>

Start ==
  /\ pc = "start" /\ Early
  /\ \/ place = "dead" /\ place' \in Screens \cup {"outside", "dialog"} /\ Goto("first") /\ UNCHANGED termination
     \/ place # "dead" /\ Goto("first") /\ UNCHANGED <<place, termination>>
     \/ termination' = "raised" /\ Goto("cleanup") /\ UNCHANGED place
  /\ UNCHANGED <<workspace, time, current, step, graph, navigation, formPending, keyboard, counters, seen, unknown>>

\* _activity_attempts and _deep_link_attempts: an activity that is already in
\* front counts as opened.
FirstStatus(t, s) ==
  CASE t \in Refused -> "blocked" [] t \notin Links /\ t \in Activity[s] -> "opened" [] OTHER -> "attempted"

First ==
  /\ pc = "first"
  /\ \/ \E s \in Screens :
          /\ Sees(s) /\ current' = s
          /\ nav' = [t \in Targets |-> FirstStatus(t, s)] /\ pending' = {t \in Targets : FirstStatus(t, s) = "attempted"}
          /\ formPending' = (Canary /\ HasFormAction(s, {}))
          /\ Goto("top") /\ UNCHANGED <<partial, termination>>
     \/ /\ Early /\ termination' = "raised" /\ Goto("cleanup")
        /\ UNCHANGED <<device, current, seen, formPending, nav, pending, partial>>
     \/ /\ Early /\ place \in Elsewhere /\ Stop("package_boundary", TRUE)
        /\ UNCHANGED <<device, current, seen, formPending>>
  /\ UNCHANGED <<time, step, graph, target, keyboard, attempted, failures, canary, unknown>>

\* The conditions of the loop, in their order.
Limit ==
  /\ pc = "top"
  /\ \/ Stop("stop_requested", FALSE)
     \/ MaxTime - time <= 1 /\ Stop("max_runtime", FALSE)
     \/ attempted >= MaxActions /\ Stop("max_actions", FALSE)
     \/ /\ attempted < MaxActions /\ MaxTime - time > 1
        /\ Cardinality(visited) >= MaxStates /\ current \notin visited /\ Stop("max_states", FALSE)
  /\ UNCHANGED <<device, time, current, step, target, graph, formPending, keyboard,
                 attempted, failures, canary, seen, unknown>>

Visit ==
  /\ pc = "top" /\ MaxTime - time > 1 /\ attempted < MaxActions
  /\ Cardinality(visited) < MaxStates \/ current \in visited
  /\ visited' = visited \cup {current}
  /\ IF pending # {} /\ history = <<>> /\ ~formPending
     THEN /\ \E t \in pending : target' = t /\ pending' = pending \ {t}
          /\ Goto("navigate")
     ELSE Goto("choose") /\ UNCHANGED <<target, pending>>
  /\ act' = NoAct /\ todo' = {}
  /\ UNCHANGED <<device, time, current, executed, scrolled, retried, history, nav, formPending,
                 keyboard, counters, termination, seen, unknown>>

Choose ==
  /\ pc = "choose"
  /\ \E heard \in SUBSET {n \in Nodes[current] : n.topic} :
     \/ \E a \in Candidates(current, heard) :
          IF keyboard /\ a.kind # "input"
          THEN /\ keyboard' = FALSE /\ Goto("hide")
               /\ UNCHANGED <<executed, act, formPending, scrolled, history>>
          ELSE LET s == current
                   supp == Supports(s, executed) # {}
                   form == Canary /\ a.kind # "input" /\ FormAction(s, a, executed)
                   enough == MaxActions - attempted >= IF supp THEN 4 ELSE 3
               IN /\ executed' = executed \cup {<<s, a.node.id, a.kind>>}
                  /\ formPending' = (formPending /\ ~form)
                  /\ act' = [a EXCEPT !.form = form /\ enough]
                  /\ Goto(CASE a.kind = "input" -> "input" [] form /\ enough -> "carrier" [] OTHER -> "tap")
                  /\ UNCHANGED <<keyboard, scrolled, history>>
     \/ /\ Candidates(current, heard) = {}
        /\ \/ /\ current \notin scrolled /\ scrolled' = scrolled \cup {current}
              /\ Goto("scroll") /\ UNCHANGED history
           \/ /\ current \in scrolled /\ history # <<>> /\ history' = Front(history)
              /\ Goto("back") /\ UNCHANGED scrolled
           \/ /\ current \in scrolled /\ history = <<>>
              /\ Goto("idle") /\ UNCHANGED <<scrolled, history>>
        /\ UNCHANGED <<executed, act, formPending, keyboard>>
  /\ UNCHANGED <<device, time, current, todo, visited, retried, navigation, counters, termination, seen, unknown>>

(***************************************************************************)
(* perform_action: what was asked for was done, or nobody knows            *)
(***************************************************************************)
Count(source) == canary' = [canary EXCEPT ![source] = @ + 1]
Entered(n) == executed' = executed \cup {<<current, n.id, "input">>} /\ keyboard' = TRUE

\* What is typed, hidden or tapped next in a form, after n actions.
NextForm(n, supports) ==
  CASE supports /\ MaxActions - n >= 3 -> "support" [] MaxActions - n >= 2 -> "hideForm" [] OTHER -> "tap"
\* Mutation: the retry of a form forgets the limit of actions.
NextRetryUnbounded(n, left, open) ==
  CASE left # {} -> "retryInput" [] left = {} /\ open -> "retryHide" [] OTHER -> "retryTap"
NextRetry(n, left, open) ==
  CASE n < MaxActions /\ left # {} -> "retryInput" [] n < MaxActions /\ open -> "retryHide"
    [] n < MaxActions -> "retryTap" [] OTHER -> "top"

Performed ==
  LET n == attempted + 1 IN
  /\ pc \in PerformLabels \ {"navigate"} /\ Early /\ attempted' = n
  /\ \/ /\ pc = "input" /\ Entered(act.node) /\ Goto("top") /\ UNCHANGED <<todo, canary>>
     \/ /\ pc = "carrier" /\ \E m \in Carriers(current, executed) : Entered(m)
        /\ Count("attempts") /\ Goto(NextForm(n, Supports(current, executed) # {})) /\ UNCHANGED todo
     \/ /\ pc = "support" /\ \E m \in Supports(current, executed) : Entered(m)
        /\ Goto(NextForm(n, FALSE)) /\ UNCHANGED <<todo, canary>>
     \/ /\ pc = "retryInput" /\ \E m \in todo : Entered(m) /\ todo' = todo \ {m}
        /\ Goto(NextRetry(n, todo', TRUE)) /\ UNCHANGED canary
     \/ /\ pc \in {"hideForm", "retryHide"} /\ keyboard' = FALSE
        /\ Goto(IF pc = "hideForm" THEN "tap" ELSE NextRetry(n, {}, FALSE)) /\ UNCHANGED <<executed, todo, canary>>
     \/ /\ pc \in {"hide", "tap", "retryTap", "scroll", "back"}
        /\ Goto(CASE pc = "hide" -> "observeHide" [] pc = "tap" -> "observeTap" [] pc = "retryTap" -> "observeRetry"
                   [] pc = "scroll" -> "observeScroll" [] OTHER -> "observeBack")
        /\ UNCHANGED <<executed, keyboard, todo, canary>>
  /\ UNCHANGED <<device, time, current, act, visited, scrolled, retried, history, navigation, formPending,
                 failures, partial, termination, seen, unknown>>

\* Mutation: every action that fails counts as a delivery that failed.
CanaryStepAny == TRUE
CanaryStep == pc \in {"carrier", "support", "hideForm"} \/ (pc = "tap" /\ act.form)

NotPerformed ==
  /\ pc \in PerformLabels \ {"navigate"} /\ Early /\ attempted' = attempted + 1
  /\ failures' = failures + 1 /\ partial' = TRUE
  /\ canary' = [canary EXCEPT !.attempts = IF pc = "carrier" THEN @ + 1 ELSE @,
                              !.failures = IF CanaryStep THEN @ + 1 ELSE @]
  /\ keyboard' = (keyboard /\ pc \notin {"hideForm", "retryHide"})
  /\ unknown' = IF pc \in {"tap", "retryTap"} THEN unknown \cup {<<current, act.node.id, act.kind>>} ELSE unknown
  /\ Goto("recover")
  /\ UNCHANGED <<device, time, current, step, graph, navigation, formPending, termination, seen>>

\* recover_action_failure.  The app is not launched again here.  A navigation
\* gets its verdict afterwards, and none when an exception ends the run.
Verdict(n) == [nav EXCEPT ![target] = n]

Recover ==
  /\ pc \in {"recover", "recoverNav"}
  /\ \/ /\ LET n == IF pc = "recoverNav" THEN Verdict("outcome_unknown") ELSE nav IN
           \/ failures >= MaxFailures /\ StopAfter("action_failure_limit", FALSE, n)
           \/ failures < MaxFailures /\ Early /\ StopAfter("action_recovery_failed", TRUE, n)
        /\ UNCHANGED <<device, current, seen, history, target, canary>>
     \/ /\ failures < MaxFailures /\ Early /\ place \in Elsewhere /\ Stop("package_boundary", TRUE)
        /\ UNCHANGED <<device, current, seen, history, target, canary>>
     \/ \E s \in Screens :
          LET opened == pc = "recoverNav" /\ target \in Activity[s] IN
          /\ failures < MaxFailures /\ Sees(s) /\ current' = s /\ Goto("top")
          /\ nav' = IF pc = "recover" THEN nav ELSE Verdict(IF opened THEN "opened" ELSE "outcome_unknown")
          /\ history' = IF opened /\ s # current THEN Append(history, current) ELSE history
          /\ canary' = IF opened /\ target \in Links /\ Canary
                       THEN [canary EXCEPT !.deliveries = @ + 1, !.recovered = @ + 1] ELSE canary
          /\ target' = NoTarget
          /\ UNCHANGED <<pending, partial, termination>>
  /\ UNCHANGED <<time, step, visited, executed, scrolled, retried, formPending, keyboard, attempted, failures, unknown>>

\* Targeted navigation: opened, refused by the system, refused by the policy, or unknown.
Navigate ==
  /\ pc = "navigate" /\ Early /\ attempted' = attempted + 1
  /\ \/ Goto("observeNav") /\ UNCHANGED <<nav, failures, partial>>
     \/ /\ nav' \in {Verdict("permission_denied"), Verdict("blocked")} /\ Goto("top")
        /\ UNCHANGED <<failures, partial>>
     \/ failures' = failures + 1 /\ partial' = TRUE /\ Goto("recoverNav") /\ UNCHANGED nav
  /\ canary' = IF target \notin Links \/ ~Canary THEN canary
               ELSE [canary EXCEPT !.attempts = @ + 1, !.failures = @ + (failures' - failures)]
  /\ UNCHANGED <<device, time, current, step, target, pending, graph, formPending, keyboard, termination, seen, unknown>>

(***************************************************************************)
(* observe_after_action                                                    *)
(***************************************************************************)
Push(s) == IF s # current THEN Append(history, current) ELSE history

\* After a tap: a form that changed nothing is tried once more with the
\* fields that are near it filled in.
ObserveTap ==
  /\ pc = "observeTap"
  /\ \E s \in Screens, yielded \in BOOLEAN :
       LET key == <<current, act.node.id, act.kind>>
           near == NearbyInputs(current, executed)
           again == /\ s = current /\ ~yielded /\ act.node.semantic /\ key \notin retried
                    /\ near # {} /\ attempted < MaxActions
       IN /\ SeesAfter(s)
          /\ IF again
             THEN /\ retried' = retried \cup {key} /\ Goto("retryInput")
                  /\ todo' \in {f \in SUBSET near : Cardinality(f) = IF Cardinality(near) > 2 THEN 2 ELSE Cardinality(near)}
                  /\ UNCHANGED <<history, current>>
             ELSE /\ history' = Push(s) /\ current' = s /\ Goto("top") /\ UNCHANGED <<retried, todo>>
  /\ canary' = IF act.form THEN [canary EXCEPT !.deliveries = @ + 1] ELSE canary
  /\ UNCHANGED <<time, act, visited, executed, scrolled, navigation, formPending, keyboard,
                 attempted, failures, partial, termination, unknown>>

\* The other observations; going back, scrolling and hiding push nothing.
ObserveOther ==
  /\ pc \in {"observeHide", "observeRetry", "observeScroll", "observeBack", "observeStart"}
  /\ \E s \in Screens : SeesAfter(s) /\ current' = s /\ history' = IF pc = "observeRetry" THEN Push(s) ELSE history
  /\ Goto("top")
  /\ UNCHANGED <<time, step, visited, executed, scrolled, retried, navigation, formPending, keyboard,
                 counters, termination, unknown>>

\* A screen of another activity is not where the navigation wanted to go: the
\* state of the loop stays what it was.
ObserveNav ==
  /\ pc = "observeNav"
  /\ \E s \in Screens :
       LET there == target \in Links \/ target \in Activity[s] IN
       /\ SeesAfter(s)
       /\ nav' = [nav EXCEPT ![target] = IF there THEN "opened" ELSE "blocked"]
       /\ current' = IF there THEN s ELSE current
       /\ history' = IF there THEN Push(s) ELSE history
  /\ canary' = IF target \in Links /\ Canary THEN [canary EXCEPT !.deliveries = @ + 1] ELSE canary
  /\ target' = NoTarget /\ Goto("top")
  /\ UNCHANGED <<time, step, visited, executed, scrolled, retried, pending, formPending, keyboard,
                 attempted, failures, partial, termination, unknown>>

\* The observation fails, or something else is in front and the process of the
\* app is alive, or cannot be asked for.
Unobserved ==
  /\ pc \in ObserveLabels /\ Early
  /\ \E reason \in {"state_refresh_failed", "process_state_unavailable", "package_boundary"} :
       /\ reason # "state_refresh_failed" => place \in Elsewhere
       /\ reason = "package_boundary" => place # "dead"
       /\ termination' = reason
       /\ nav' = [t \in Targets |->
            IF t = target /\ pc = "observeNav" /\ reason # "package_boundary" THEN "outcome_unknown" ELSE BlockPending(nav)[t]]
       /\ canary' = IF pc = "observeTap" /\ act.form /\ reason # "package_boundary"
                    THEN [canary EXCEPT !.failures = @ + 1] ELSE canary
  /\ partial' = TRUE /\ pending' = {} /\ Goto("cleanup")
  /\ UNCHANGED <<device, time, current, step, target, graph, formPending, keyboard, attempted, failures, seen, unknown>>

(***************************************************************************)
(* Nothing to do: wait, look after the process                             *)
(***************************************************************************)
Idle ==
  /\ pc = "idle"
  /\ \/ Goto("top") /\ UNCHANGED termination          \* the observers saw something new
     \/ Goto("pid") /\ UNCHANGED termination
     \/ attempted > 0 /\ Goto("cleanup") /\ termination' = "coverage_plateau"
  /\ UNCHANGED <<device, time, current, step, graph, navigation, formPending, keyboard, counters, seen, unknown>>

Process ==
  /\ pc = "pid" /\ Early
  /\ \/ place # "dead" /\ Goto("top") /\ UNCHANGED <<place, nav, pending, partial, termination>>
     \/ Stop("process_state_unavailable", TRUE) /\ UNCHANGED place
     \/ place = "dead" /\ Stop("process_restart_failed", TRUE) /\ UNCHANGED place
     \/ /\ place = "dead" /\ place' \in Screens \cup {"outside", "dialog"}
        /\ Goto("observeStart") /\ UNCHANGED <<nav, pending, partial, termination>>
  /\ UNCHANGED <<workspace, time, current, step, target, graph, formPending, keyboard,
                 attempted, failures, canary, seen, unknown>>

RemoveWorkspace == workspace' = FALSE

\* finally: the directory on the device is removed, or the result says that it was not.
Cleanup ==
  /\ pc = "cleanup" /\ Goto("done")
  /\ \/ RemoveWorkspace /\ UNCHANGED partial
     \/ (RemoveWorkspace \/ UNCHANGED workspace) /\ partial' = TRUE
  /\ UNCHANGED <<place, time, current, step, graph, navigation, formPending, keyboard,
                 attempted, failures, canary, termination, seen, unknown>>

\* The app, the user and the system.
AppMoves ==
  /\ pc # "done" /\ place' \in (Screens \cup Elsewhere) \ {place}
  /\ UNCHANGED <<workspace, time, pc, current, step, graph, navigation, formPending, keyboard,
                 counters, termination, seen, unknown>>

TimePasses ==
  /\ pc # "done" /\ time < MaxTime /\ time' = time + 1
  /\ UNCHANGED <<device, pc, current, step, graph, navigation, formPending, keyboard,
                 counters, termination, seen, unknown>>

RunStep ==
  \/ Start \/ First \/ Limit \/ Visit \/ Choose \/ Performed \/ NotPerformed \/ Recover \/ Navigate
  \/ ObserveTap \/ ObserveOther \/ ObserveNav \/ Unobserved \/ Idle \/ Process \/ DeadlineReached \/ Cleanup
ExplorerNext == RunStep \/ AppMoves \/ TimePasses

ExplorerSpec == ExplorerInit /\ [][ExplorerNext]_explorerVars
ExplorerFairSpec == ExplorerSpec /\ WF_explorerVars(RunStep) /\ WF_explorerVars(TimePasses)

(***************************************************************************)
(* Properties                                                              *)
(***************************************************************************)
ExplorerLimited == pc \in PerformLabels => attempted < MaxActions

\* The quotas of ExplorerConfig hold over every path through forms, retries and
\* recoveries: none of them starts an action that the quota has no room for, the
\* stack of screens to go back to and the graph of screens stay within theirs.
BudgetsHold ==
  /\ ExplorerLimited /\ attempted <= MaxActions
  /\ Len(history) <= MaxDepth /\ Cardinality(visited) <= MaxStates

\* A tap whose outcome nobody knows is never sent again from the same screen,
\* not by the loop, not by the retry of a form, not after a recovery.
NoBlindRepeat == pc \in {"tap", "retryTap"} => <<current, act.node.id, act.kind>> \notin unknown

\* An action is chosen for the screen that was last observed.  The exception:
\* an activity that was started and did not resume leaves the loop with the
\* screen it had before.
StaleScreenHasCause ==
  pc \in {"top", "choose"} \cup PerformLabels /\ current # seen => \E t \in Targets \ Links : nav[t] = "blocked"

\* Once a screen was visited, every target the manifest offered ends with a
\* verdict, except the one in hand when the time ran out or the app was gone and
\* those that waited for a form that nobody found again.
NavigationSettled ==
  pc = "done" /\ visited # {} =>
    \A t \in Targets : nav[t] = "attempted" =>
      (termination \in {"max_runtime", "package_boundary"} /\ t = target) \/ (termination = "coverage_plateau" /\ formPending)

\* A result that is not partial hides nothing: no action failed, the app was
\* watched to the end and nothing of the explorer is left on the device.
TruthfulResult ==
  pc = "done" /\ ~partial =>
    /\ failures = 0 /\ ~workspace
    /\ termination \in {"stop_requested", "max_runtime", "max_actions", "max_states", "coverage_plateau", "raised"}

\* A canary counts as delivered or as failed at most once for each attempt,
\* unless an action that failed turned out to have opened its target.
CanaryAccounts ==
  /\ canary["deliveries"] + canary["failures"] <= canary["attempts"] + canary["recovered"]
  /\ canary["recovered"] <= failures

\* The limits of the run, over every path through the loop.
LimitsHold == ExplorerTypeOK /\ BudgetsHold

\* The explorer acts on what it knows: never blindly again, never on a screen
\* that it has not just seen.
NoBlindAction == NoBlindRepeat /\ StaleScreenHasCause

\* The result adds up: targets, failures, leftovers and canaries are all told.
ResultTruthful == NavigationSettled /\ TruthfulResult /\ CanaryAccounts

\* Whatever the app does, the run ends and gives its result.
Ends == <>(pc = "done")
=============================================================================
