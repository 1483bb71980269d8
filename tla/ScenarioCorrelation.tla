------------------------- MODULE ScenarioCorrelation -------------------------
(***************************************************************************)
(* What the observers saw is joined to the steps of a scenario by time and *)
(* process: correlate_scenario_events (scenario_correlation.py) over the   *)
(* summary that ScanService._finalize_scenario_correlation makes of a run. *)
(* The app may be restarted, a step may fail, and a clock has a resolution.*)
(***************************************************************************)
EXTENDS Naturals, FiniteSets, FiniteSetsExt

CONSTANTS
  LastStep,        \* the steps are 1..LastStep, the last one is the cleanup
  Pids,            \* processes the app may have, numbers
  MaxTime,         \* bound: instants the clock can tell apart
  MaxEvents        \* bound: observed events

ASSUME CorrelationAssumption ==
  LastStep \in Nat \ {0} /\ Pids \subseteq Nat \ {0} /\ MaxTime \in Nat /\ MaxEvents \in Nat

VARIABLES
  time,
  running,         \* the step that runs, 0 between steps
  windows,         \* steps that ended: [step, start, end, completed, pid]
  since,           \* start of the running step
  appPid,          \* the process of the app
  seenPid,         \* the process of the last observation, 0 if it found none or there was none
  verified,        \* processes that were observed
  events,          \* [observer, pid, time, owned, in]
  status,          \* "running", "failed", "ended" or "correlated"
  endedAt,
  accepted         \* pairs of an event and a step

correlationVars == <<time, running, windows, since, appPid, seenPid, verified, events, status, endedAt, accepted>>

Sink == LastStep + 1
Window(s, t, u, c, p) == [step |-> s, start |-> t, end |-> u, completed |-> c, pid |-> p]

\* One window for each step that ran, one step for each event that is accepted.
CorrelationTypeOK ==
  /\ \A v, w \in windows : v.step = w.step => v = w
  /\ \A a, b \in accepted : a[1] = b[1] => a = b

CorrelationInit ==
  /\ time = 0 /\ running = 0 /\ windows = {} /\ since = 0 /\ appPid \in Pids /\ seenPid = 0 /\ verified = {}
  /\ events = {} /\ status = "running" /\ endedAt = 0 /\ accepted = {}

Tick ==
  /\ time < MaxTime /\ status # "correlated" /\ time' = time + 1
  /\ UNCHANGED <<running, windows, since, appPid, seenPid, verified, events, status, endedAt, accepted>>

Restart ==
  /\ status # "correlated" /\ \E p \in Pids \ ({appPid} \cup verified \cup {e.pid : e \in events}) : appPid' = p
  /\ UNCHANGED <<time, running, windows, since, seenPid, verified, events, status, endedAt, accepted>>

NextStep == Cardinality({w \in windows : w.step < LastStep}) + 1

BeginStep ==
  /\ running = 0 /\ since' = time
  /\ \/ status = "running" /\ NextStep <= LastStep /\ running' = NextStep
     \/ status = "failed" /\ running' = LastStep
  /\ {w \in windows : w.step = running'} = {}
  /\ UNCHANGED <<time, windows, appPid, seenPid, verified, events, status, endedAt, accepted>>

\* A step observes the app once or more, or not at all (a collection); the cleanup
\* does not.  The process may not be found.
ObserveApp ==
  /\ running \in 1..(LastStep - 1) /\ seenPid' \in {appPid, 0} \ {seenPid}
  /\ verified' = verified \cup ({seenPid'} \ {0})
  /\ UNCHANGED <<time, running, windows, since, appPid, events, status, endedAt, accepted>>

\* The pid of a step is that of the last observation, its own or an earlier one.
EndStep ==
  /\ running # 0
  /\ \E completed \in BOOLEAN :
       /\ windows' = windows \cup {Window(running, since, time, completed, seenPid)}
       /\ status' = IF ~completed THEN "failed" ELSE status
  /\ running' = 0
  /\ UNCHANGED <<time, since, appPid, seenPid, verified, events, endedAt, accepted>>

EndScenario ==
  /\ running = 0 /\ status \in {"running", "failed"} /\ \E w \in windows : w.step = LastStep
  /\ endedAt' = time
  /\ status' = IF status = "running" THEN "ended" ELSE "correlated"
  /\ UNCHANGED <<time, running, windows, since, appPid, seenPid, verified, events, accepted>>

\* Traffic does not know its process, the log is read once after the scenario.
\* owned: a request carries a value of the scenario, goes where the scope allows,
\* and no value of another; the hooks and the log report no value, or such a one.
Happens ==
  /\ Cardinality(events) < MaxEvents /\ status # "correlated"
  /\ \E observer \in {"frida", "traffic", "logcat"}, owned \in BOOLEAN :
       /\ observer = "logcat" => status = "ended"
       /\ observer # "traffic" => owned
       /\ events' = events \cup {[observer |-> observer, pid |-> appPid, time |-> time, owned |-> owned,
                                  in |-> IF status = "ended" THEN Sink ELSE running]}
  /\ UNCHANGED <<time, running, windows, since, appPid, seenPid, verified, status, endedAt, accepted>>

(***************************************************************************)
(* correlate_scenario_events                                               *)
(***************************************************************************)
First == Min(verified)

\* The completed steps and, unless the device went on being used, the time from
\* the end of the scenario to now, with the first process of the list.
Steps(later) ==
  {w \in windows : w.completed} \cup (IF later THEN {} ELSE {Window(Sink, endedAt, time, TRUE, First)})

Holds(w, e) == w.start <= e.time /\ e.time <= w.end

\* What the log says was seen with the sinks, whatever the time.
Claims(w, e) == e.observer = "logcat" => w.step = Sink

Process(e) == IF e.observer = "traffic" THEN First ELSE e.pid

\* Mutation: the first of several steps is as good as any.
ResolvedFirst(steps, e) ==
  LET candidates == {w \in steps : Claims(w, e) /\ Holds(w, e)} IN
  {w \in candidates : \A v \in candidates : w.step <= v.step}

\* No step, or more than one, is no step.
Resolved(steps, e) ==
  LET candidates == {w \in steps : Claims(w, e) /\ Holds(w, e)} IN
  IF Cardinality(candidates) = 1 THEN candidates ELSE {}

Accepts(w, e) == Process(e) \in verified /\ w.pid \in {0, Process(e)} /\ e.owned

CorrelateEvents ==
  /\ status = "ended" /\ status' = "correlated"
  /\ IF verified = {} THEN UNCHANGED accepted ELSE \E later \in BOOLEAN :
       accepted' = UNION {{<<e, w.step>> : w \in {v \in Resolved(Steps(later), e) : Accepts(v, e)}} : e \in events}
  /\ UNCHANGED <<time, running, windows, since, appPid, seenPid, verified, events, endedAt>>

CorrelationNext == Tick \/ Restart \/ BeginStep \/ ObserveApp \/ EndStep \/ EndScenario \/ Happens \/ CorrelateEvents

CorrelationSpec == CorrelationInit /\ [][CorrelationNext]_correlationVars

(***************************************************************************)
(* Properties                                                              *)
(***************************************************************************)
StepWindow(s) == CHOOSE w \in windows : w.step = s
At(t, s) == IF s = Sink THEN t = endedAt ELSE t \in {StepWindow(s).start, StepWindow(s).end}

\* An accepted event happened in its step, or at the very instant at which the
\* step began or ended; and it never is an event of a step that failed.
HappenedInStep == \A a \in accepted : a[1].in = a[2] \/ At(a[1].time, a[2])

\* An event of which two steps may be the cause is given to none of them.
NoGuessing ==
  \A a \in accepted : \A w \in windows :
    w.completed /\ w.step # a[2] /\ a[1].observer # "logcat" => ~(w.start <= a[1].time /\ a[1].time <= w.end)

\* What the hooks report of another process than the one last seen in the step is
\* not the step's; if none was found, it may be any that was seen in the scenario.
OwnProcess ==
  \A a \in accepted : a[1].observer = "frida" =>
    IF a[2] = Sink THEN a[1].pid = First
    ELSE IF StepWindow(a[2]).pid # 0 THEN a[1].pid = StepWindow(a[2]).pid ELSE a[1].pid \in verified

\* Without a restart, no event of the scenario is lost but those on the instant
\* between two steps.
LostOnlyAtSeams ==
  status = "correlated" /\ verified # {} /\ (\A w \in windows : w.completed) /\ Cardinality(verified \cup {e.pid : e \in events}) = 1 =>
    \A e \in events : e.owned /\ e.in \in 1..LastStep =>
      \/ <<e, e.in>> \in accepted
      \/ e.time \in {StepWindow(e.in).start, StepWindow(e.in).end}

\* Events are given to the steps that caused them, or to none.
EventsPlaced == CorrelationTypeOK /\ HappenedInStep /\ NoGuessing /\ OwnProcess /\ LostOnlyAtSeams
=============================================================================
