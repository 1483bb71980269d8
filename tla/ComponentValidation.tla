-------------------------- MODULE ComponentValidation --------------------------
(***************************************************************************)
(* ExportedComponentValidationService (exported_component_validation.py):  *)
(* each exported component of the manifest is called once from outside,    *)
(* within quotas, while the app and the device go on by themselves, and    *)
(* what can be seen afterwards decides the outcome of its route.           *)
(***************************************************************************)
EXTENDS Integers, Sequences, FiniteSets, SequencesExt

CONSTANTS
  Manifests,       \* [permission, components] as the manifest analysis leaves them
  TotalQuota,      \* limit of routes
  TypeQuota,       \* [activity, receiver, provider -> limit of routes]
  MaxMoves         \* bound: what the app does by itself

Types == {"activity", "receiver", "provider"}

\* A component as the manifest analysis leaves it; "none" is no component's name.
Component == [kind : Types, name : STRING \ {"none"}, exported : BOOLEAN, launcher : BOOLEAN, permission : STRING,
              ways : Seq(STRING), enabled : BOOLEAN]

ASSUME IpcAssumption ==
  /\ TotalQuota \in Nat /\ TypeQuota \in [Types -> Nat] /\ MaxMoves \in Nat
  /\ \A m \in Manifests : m.components \in Seq(Component)

VARIABLES
  manifest,
  at,              \* the candidate whose turn it is
  step,            \* "begin", "before", "called", "shown", "reached", "broadcast" or "done"
  before,          \* the activity in front before the call, or "none" if it could not be read
  outcomes,        \* outcomes of the candidates so far
  used,            \* [types -> routes of the quota]
  expired,         \* the deadline of the run has passed
  front,           \* activity in front: a component, "main" or "elsewhere"
  process,         \* whether the app has a process that can be found
  log,             \* canaries in the log of that process, by candidate
  overdue,            \* calls that timed out and may still arrive, by candidate
  moves,           \* history: what the app did by itself
  calls,           \* history: [candidates -> calls made]
  came,            \* history: candidates that came to the front, or logged, after their call was prepared
  blind,           \* history: candidates called while it was not known what is in front
  backed           \* history: candidates after which BACK was accepted

ipcVars == <<manifest, at, step, before, outcomes, used, expired, front, process, log, overdue, moves, calls, came, blind, backed>>
historyVars == <<calls, blind, backed>>
deviceVars == <<front, process, log, overdue, moves, came>>

(***************************************************************************)
(* build_ipc_candidates                                                    *)
(***************************************************************************)
\* A permission is "none", "signature", "normal" (declared by the app), or one of
\* the platform or of another app.
Effective(m, c) == IF c.permission # "none" THEN c.permission ELSE m.permission
Boundary(m, c) ==
  CASE Effective(m, c) = "none" -> "missing" [] Effective(m, c) = "signature" -> "strong"
    [] Effective(m, c) = "normal" -> "weak" [] OTHER -> "unknown"

\* via: the authority of a provider, or whether the action of a receiver sounds harmless.
Candidate(m, c, via) == [type |-> c.kind, name |-> c.name, boundary |-> Boundary(m, c), via |-> via, enabled |-> c.enabled]

\* One for an activity that is not a launcher, one for each action of a receiver
\* and each authority of a provider, one without if there are none.
CandidatesOf(m, c) ==
  IF ~c.exported \/ (c.kind = "activity" /\ c.launcher) THEN <<>>
  ELSE IF c.kind = "activity" THEN <<Candidate(m, c, "component")>>
  ELSE IF c.ways = <<>> THEN <<Candidate(m, c, "none")>>
  ELSE [i \in DOMAIN c.ways |-> Candidate(m, c, c.ways[i])]
IpcCandidates == FlattenSeq([i \in DOMAIN manifest.components |-> CandidatesOf(manifest, manifest.components[i])])

Current == IpcCandidates[at]
Open(c) == c.boundary \in {"missing", "weak"}

\* The quotas hold, and every candidate that had its turn has its outcome.
IpcTypeOK ==
  /\ \A t \in Types : used[t] <= TypeQuota[t]
  /\ used["activity"] + used["receiver"] + used["provider"] <= TotalQuota
  /\ Len(outcomes) = CASE step = "done" -> Len(IpcCandidates) [] step = "reached" -> at [] OTHER -> at - 1

IpcInit ==
  /\ manifest \in Manifests /\ at = 1 /\ step = "begin" /\ before = "main" /\ outcomes = <<>>
  /\ used = [t \in Types |-> 0] /\ expired = FALSE /\ front = "main" /\ process = TRUE /\ log = {} /\ overdue = {}
  /\ moves = 0 /\ calls = [i \in DOMAIN IpcCandidates |-> 0] /\ came = {} /\ blind = {} /\ backed = {}

(***************************************************************************)
(* The device                                                              *)
(***************************************************************************)
InFront(name) == front' = name /\ came' = came \cup {i \in DOMAIN IpcCandidates : i = at /\ step # "begin" /\ Current.name = name}

AppMoves ==
  /\ moves < MaxMoves /\ moves' = moves + 1
  /\ \/ \E name \in {"main", "elsewhere"} \cup {IpcCandidates[i].name : i \in DOMAIN IpcCandidates} : InFront(name) /\ UNCHANGED <<process, log>>
     \/ process' = ~process /\ log' = {} /\ UNCHANGED <<front, came>>
  /\ UNCHANGED <<manifest, at, step, before, outcomes, used, expired, overdue, historyVars>>

\* A call that timed out arrives.
ArrivesLate ==
  /\ \E i \in overdue :
       /\ overdue' = overdue \ {i}
       /\ IF IpcCandidates[i].type = "activity" THEN InFront(IpcCandidates[i].name) /\ UNCHANGED <<process, log>>
          ELSE process' = TRUE /\ log' = log \cup {i} /\ came' = came \cup {i} /\ UNCHANGED front
  /\ UNCHANGED <<manifest, at, step, before, outcomes, used, expired, moves, historyVars>>

Expire ==
  /\ step # "done" /\ ~expired /\ expired' = TRUE
  /\ UNCHANGED <<manifest, at, step, before, outcomes, used, deviceVars, historyVars>>

(***************************************************************************)
(* run                                                                     *)
(***************************************************************************)
Ends(outcome) == outcomes' = Append(outcomes, outcome) /\ at' = at + 1 /\ step' = "begin"
Turn == step = "begin" /\ at <= Len(IpcCandidates)
UsedAll == used["activity"] + used["receiver"] + used["provider"]
Exhausted == UsedAll >= TotalQuota \/ used[Current.type] >= TypeQuota[Current.type] \/ expired

DeniedByScope ==
  /\ step = "begin" /\ at = 1
  /\ outcomes' = [i \in DOMAIN IpcCandidates |-> "out_of_scope"] /\ step' = "done"
  /\ UNCHANGED <<manifest, at, before, used, expired, deviceVars, historyVars>>

PassOver ==
  /\ Turn /\ Exhausted /\ Ends("not_exercised")
  /\ UNCHANGED <<manifest, before, used, expired, deviceVars, historyVars>>

\* A component that is disabled, and one without a harmless way to call it, use
\* the quota too.
Refused(c) == ~c.enabled \/ (c.type = "receiver" /\ c.via # "probe") \/ (c.type = "provider" /\ c.via = "none")

\* _state: the activity in front.  A call that fails or times out, or whose output is
\* cut off, reads as none.
FrontSeen == {front, "none"}

\* The quota is taken, and before an activity is called the one in front is noted.
\* That it could not be read does not keep it from being called.
Take ==
  /\ Turn /\ ~Exhausted /\ used' = [used EXCEPT ![Current.type] = @ + 1]
  /\ IF Refused(Current) THEN Ends("not_exercised") /\ UNCHANGED <<before, blind>>
     ELSE /\ step' = "before" /\ UNCHANGED <<at, outcomes>>
          /\ before' \in IF Current.type = "activity" THEN FrontSeen ELSE {before}
          /\ blind' = IF Current.type = "activity" /\ before' = "none" THEN blind \cup {at} ELSE blind
  /\ UNCHANGED <<manifest, expired, deviceVars, calls, backed>>

Call == calls' = [calls EXCEPT ![at] = @ + 1]
Prepared(type) == step = "before" /\ Current.type = type

\* The command fails, or its output is too long, or cannot be understood.
CallFails ==
  /\ step = "before" /\ Call /\ \E outcome \in {"inconclusive", "rejected"} : Ends(outcome)
  /\ UNCHANGED <<manifest, before, used, expired, deviceVars, blind, backed>>

\* The call may have been made; it is neither repeated nor undone.
TimesOut ==
  /\ step = "before" /\ Current.type # "provider" /\ Call /\ overdue' = overdue \cup {at} /\ Ends("inconclusive")
  /\ UNCHANGED <<manifest, before, used, expired, front, process, log, moves, came, blind, backed>>

\* _activity_route: the activity is shown, another one is, or another app; or
\* what is in front stays there.
LaunchActivity ==
  /\ Prepared("activity") /\ Call /\ step' = "shown"
  /\ \/ \E name \in {Current.name, "main", "elsewhere"} : InFront(name)
     \/ UNCHANGED <<front, came>>
  /\ process' = (process \/ front' # "elsewhere")
  /\ UNCHANGED <<manifest, at, before, outcomes, used, expired, log, overdue, moves, blind, backed>>

\* Mutation: it is enough that the activity is in front.
ActivityOutcomeInFront(c, seen, pid) == IF ~Open(c) THEN "rejected" ELSE IF seen = c.name /\ pid THEN "confirmed" ELSE "inconclusive"

ActivityOutcome(c, seen, pid) ==
  IF ~Open(c) THEN "rejected"
  ELSE IF seen = c.name /\ pid /\ before # c.name THEN "confirmed" ELSE "inconclusive"

\* What is in front is read again, and the process looked for; both may fail.
Judge ==
  /\ step = "shown"
  /\ \E seen \in FrontSeen, pid \in {process, FALSE} :
       IF seen = "elsewhere" THEN Ends("out_of_scope")
       ELSE IF seen = Current.name THEN step' = "reached" /\ outcomes' = Append(outcomes, ActivityOutcome(Current, seen, pid)) /\ at' = at
       ELSE Ends(ActivityOutcome(Current, seen, pid))
  /\ UNCHANGED <<manifest, before, used, expired, deviceVars, historyVars>>

\* BACK is sent; if that fails, a confirmed route is not.
Back ==
  /\ step = "reached" /\ step' = "begin" /\ at' = at + 1
  /\ \/ backed' = backed \cup {at} /\ front' \in {"main", front} /\ UNCHANGED outcomes
     \/ /\ outcomes' = [outcomes EXCEPT ![at] = IF @ = "confirmed" THEN "inconclusive" ELSE @]
        /\ UNCHANGED <<backed, front>>
  /\ UNCHANGED <<manifest, before, used, expired, process, log, overdue, moves, calls, came, blind>>

\* _receiver_route: the broadcast completed, whether the receiver logs it or not.
Broadcast ==
  /\ Prepared("receiver") /\ Call /\ step' = "broadcast" /\ process' = TRUE
  /\ \/ log' = log \cup {at} /\ came' = came \cup {at}
     \/ UNCHANGED <<log, came>>
  /\ UNCHANGED <<manifest, at, before, outcomes, used, expired, front, overdue, moves, blind, backed>>

Heard == process /\ at \in log

\* The log of the process is read, if the process is found and the log can be read.
Listen ==
  /\ step = "broadcast"
  /\ \E heard \in {Heard, FALSE} : Ends(IF ~Open(Current) THEN "rejected" ELSE IF heard THEN "confirmed" ELSE "inconclusive")
  /\ UNCHANGED <<manifest, before, used, expired, deviceVars, historyVars>>

\* _provider_route, as the user of the shell or not at all: rows with sensitive
\* fields, other rows, or none.
Query ==
  /\ Prepared("provider") /\ Call
  /\ \E rows \in {"sensitive", "plain", "none"} :
       Ends(IF rows = "none" THEN "rejected" ELSE IF rows = "sensitive" /\ Open(Current) THEN "confirmed" ELSE "inconclusive")
  /\ UNCHANGED <<manifest, before, used, expired, deviceVars, blind, backed>>

NotAsShell ==
  /\ Prepared("provider") /\ Ends("inconclusive")
  /\ UNCHANGED <<manifest, before, used, expired, deviceVars, historyVars>>

IpcEnds ==
  /\ step = "begin" /\ at > Len(IpcCandidates) /\ step' = "done"
  /\ UNCHANGED <<manifest, at, before, outcomes, used, expired, deviceVars, historyVars>>

IpcNext ==
  \/ AppMoves \/ ArrivesLate \/ Expire \/ DeniedByScope \/ PassOver \/ Take \/ CallFails \/ TimesOut
  \/ LaunchActivity \/ Judge \/ Back \/ Broadcast \/ Listen \/ Query \/ NotAsShell \/ IpcEnds

IpcSpec == IpcInit /\ [][IpcNext]_ipcVars

(***************************************************************************)
(* Properties                                                              *)
(***************************************************************************)
Confirmed(i) == i \in DOMAIN outcomes /\ outcomes[i] = "confirmed" /\ ~(step = "reached" /\ i = at)

\* No route is called twice, not even one that timed out.
CalledOnce == \A i \in DOMAIN calls : calls[i] <= 1

\* A confirmed activity came to the front after its call was prepared: that it was
\* there already, or that an earlier call arrived late, does not confirm it.  The
\* code knows this only if it could read what was in front before the call: the
\* activity that could not be read differs from every candidate
\* (exported_component_validation.py:482, 529).
ShownSinceCall ==
  \A i \in DOMAIN outcomes : Confirmed(i) /\ IpcCandidates[i].type = "activity" => i \in came \cup blind

\* A confirmed activity was left again.
ConfirmedWasLeft == \A i \in DOMAIN outcomes : Confirmed(i) /\ IpcCandidates[i].type = "activity" => i \in backed

\* What a receiver logs for an earlier call that arrives late is not taken for an
\* answer to a later one.
OwnAnswer == \A i \in DOMAIN outcomes : Confirmed(i) /\ IpcCandidates[i].type = "receiver" => i \in came

\* A component is called once, and confirmed by what this call did.
CallsConfirmed == IpcTypeOK /\ CalledOnce /\ ShownSinceCall /\ ConfirmedWasLeft /\ OwnAnswer
=============================================================================
