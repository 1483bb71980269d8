--------------------------- MODULE MCRuntimeChecks ---------------------------
(***************************************************************************)
(* What runs on the device or over what it left, in one run: scenarios,    *)
(* the correlation of their events, the WebView rules, the search of the   *)
(* storage and the calls of exported components.  They share no state, so  *)
(* each initial state starts one of them (one of Parts), and the others    *)
(* stay at a fixed initial state.                                          *)
(***************************************************************************)
EXTENDS ScenarioRun, ScenarioCorrelation, WebViewEvents, PrivateStorage, ComponentValidation

CONSTANT Parts

VARIABLE part

\* Scenarios: a login form whose controls have names, one whose controls have none
\* (with a button that is disabled and one that is dangerous), a home screen and
\* another app.
MCNoNode == [id |-> "", text |-> "", class |-> "", clickable |-> FALSE, editable |-> FALSE, enabled |-> TRUE,
             safe |-> TRUE, rank |-> 0, score |-> 0]
Field(id, rank) == [MCNoNode EXCEPT !.id = id, !.class = "edit", !.editable = TRUE, !.rank = rank]
Button(id, score) == [MCNoNode EXCEPT !.id = id, !.class = "button", !.clickable = TRUE, !.score = score]

Named == [app |-> TRUE, activity |-> "login",
          nodes |-> <<Field("user", 1), Field("password", 0), Button("login", 15), [Button("delete", 30) EXCEPT !.safe = FALSE]>>]
Unnamed == [app |-> TRUE, activity |-> "login",
            nodes |-> <<[Button("", 0) EXCEPT !.enabled = FALSE], Field("", 2), Button("", 15),
                        [Button("", 5) EXCEPT !.safe = FALSE]>>]
Home == [app |-> TRUE, activity |-> "home", nodes |-> <<Button("login", 0), Button("", 5)>>]
Outside == [app |-> FALSE, activity |-> "other", nodes |-> <<Button("", 0)>>]
MCScreens == {Named, Unnamed, Home, Outside}

ById(id) == [id |-> id, text |-> "", class |-> "", index |-> 0, point |-> FALSE]
MCProfiles == {
  <<Step("launch", NoSelector, "login", 0), Step("wait_for", ById("user"), AnyActivity, 1),
    Step("input", ById("user"), AnyActivity, 0), Step("click", [ById("login") EXCEPT !.point = TRUE], AnyActivity, 0),
    Step("wait_for_transition", NoSelector, "home", 1), Step("collect", NoSelector, AnyActivity, 1),
    Step("cleanup", NoSelector, AnyActivity, 0)>>}
MCComponents == <<[name |-> "home", launcher |-> FALSE, open |-> TRUE], [name |-> "login", launcher |-> TRUE, open |-> TRUE]>>

\* Storage: a file for every case, one kind beside another, too many and too big for a budget.
File(root, path, size) ==
  [root |-> root, path |-> path, kind |-> "file", size |-> size, text |-> TRUE, canary |-> FALSE, open |-> FALSE,
   outside |-> root = "external", deep |-> FALSE, line |-> "good"]
Canary(f) == [f EXCEPT !.canary = TRUE, !.open = TRUE]
Cases(f) == {f, Canary(f), [Canary(f) EXCEPT !.text = FALSE], [f EXCEPT !.kind = "symlink"], [Canary(f) EXCEPT !.size = 3],
             [Canary(f) EXCEPT !.line = "malformed"], [Canary(f) EXCEPT !.line = "odd"], [Canary(f) EXCEPT !.line = "short_mode"],
             [Canary(f) EXCEPT !.deep = TRUE], [f EXCEPT !.kind = "directory"]}
Prefs == File("internal", "prefs", 1)
Cache == File("internal", "cache", 2)
Third == File("internal", "third", 1)
Shared(root) == [File(root, "external/a", 1) EXCEPT !.outside = TRUE]
NoStorage == [internal |-> <<>>, external |-> <<>>]
MCStorages ==
  {[internal |-> <<f, g>>, external |-> <<h>>] : f \in Cases(Prefs), g \in Cases(Cache), h \in {Shared("external"), Canary(Shared("external"))}} \cup
  {[internal |-> <<Prefs, f, Canary(Third)>>, external |-> <<>>] : f \in Cases(Cache)} \cup
  {[internal |-> <<Cache, Canary(File("internal", "big", 2))>>, external |-> <<>>],
   [internal |-> <<Prefs, Cache, Third, Canary(File("internal", "last", 1))>>, external |-> <<>>],
   [internal |-> <<Canary(Shared("internal"))>>, external |-> <<Shared("external")>>],
   [internal |-> <<Prefs>>, external |-> <<Canary(Shared("external")), Canary(File("external", "external/b", 1))>>],
   NoStorage}

\* Manifests: activities behind every kind of permission, receivers with two
\* actions, a provider, what is disabled, and what is not exported.
Exported(kind, name, ways) ==
  [kind |-> kind, name |-> name, exported |-> TRUE, launcher |-> FALSE, permission |-> "none", ways |-> ways, enabled |-> TRUE]
Activity(name) == Exported("activity", name, <<>>)
NoComponents == [permission |-> "none", components |-> <<>>]
MCManifests ==
  {NoComponents} \cup
  {[permission |-> p, components |-> <<[Activity("a") EXCEPT !.permission = q], Activity("b")>>] :
     p \in {"none", "platform"}, q \in {"none", "signature", "normal", "platform"}} \cup
  {[permission |-> "none", components |-> c] : c \in {
     <<Exported("receiver", "r", <<"probe", "probe", "unsafe">>), Exported("receiver", "q", <<>>)>>,
     <<Exported("receiver", "r", <<"probe", "probe">>), Activity("a"), Exported("provider", "p", <<"authority">>)>>,
     <<Exported("provider", "o", <<>>), Exported("provider", "p", <<"authority">>), Activity("a")>>,
     <<[Activity("a") EXCEPT !.launcher = TRUE], [Activity("b") EXCEPT !.exported = FALSE], [Activity("c") EXCEPT !.enabled = FALSE],
       Activity("d"), Activity("e"), Exported("provider", "p", <<"authority">>)>>}}
MCTypeQuota == [activity |-> 2, receiver |-> 2, provider |-> 1]

ScenarioFixed == screen = Home /\ micro = TRUE /\ ScenarioInit
StorageFixed == storage = NoStorage /\ PrivateStorageInit
IpcFixed == manifest = NoComponents /\ IpcInit
CorrelationFixed == appPid = 1 /\ CorrelationInit

RuntimeInit ==
  /\ part \in Parts
  /\ IF part = "scenario" THEN ScenarioInit ELSE ScenarioFixed
  /\ IF part = "correlation" THEN CorrelationInit ELSE CorrelationFixed
  /\ IF part = "storage" THEN PrivateStorageInit ELSE StorageFixed
  /\ IF part = "ipc" THEN IpcInit ELSE IpcFixed
  /\ WebViewInit

RuntimeVars == <<scenarioVars, correlationVars, webViewVars, storageVars, ipcVars, part>>

Runner == part = "scenario" /\ RunnerStep /\ UNCHANGED <<correlationVars, webViewVars, storageVars, ipcVars, part>>

RuntimeNext ==
  \/ part = "scenario" /\ ScenarioNext /\ UNCHANGED <<correlationVars, webViewVars, storageVars, ipcVars, part>>
  \/ part = "correlation" /\ CorrelationNext /\ UNCHANGED <<scenarioVars, webViewVars, storageVars, ipcVars, part>>
  \/ part = "webview" /\ WebViewNext /\ UNCHANGED <<scenarioVars, correlationVars, storageVars, ipcVars, part>>
  \/ part = "storage" /\ StorageNext /\ UNCHANGED <<scenarioVars, correlationVars, webViewVars, ipcVars, part>>
  \/ part = "ipc" /\ IpcNext /\ UNCHANGED <<scenarioVars, correlationVars, webViewVars, storageVars, part>>

RuntimeSpec == RuntimeInit /\ [][RuntimeNext]_RuntimeVars /\ WF_RuntimeVars(Runner)

\* Every run of a scenario returns a result, whatever the app does and however
\* calls end.
RunEnds == part = "scenario" ~> pc = "done"
=============================================================================
