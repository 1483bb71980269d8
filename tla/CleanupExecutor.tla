-------------------------- MODULE CleanupExecutor --------------------------
(***************************************************************************)
(* Giving back what a session changed (cleanup.py): the per-action         *)
(* handlers that compare the device with the ledger before they touch it,  *)
(* the rollback of a failed start and the cleanup of a session.  Several   *)
(* actors (CLI processes, web threads) run operations; an actor that holds *)
(* the device lock (DeviceLock) is the only one past its first steps.      *)
(***************************************************************************)
EXTENDS SessionLedger

CONSTANTS
  Actors,        \* threads that run modifying operations
  NoActor,       \* nobody holds the device lock
  NoSession,     \* the session of an idle actor
  MaxFaults,     \* bound: adb, OS and file calls that report failure
  MaxCrashes     \* bound: actors that die inside an operation

ASSUME ActorAssumption ==
  /\ NoActor \notin Actors /\ NoSession \notin Sessions
  /\ MaxFaults \in Nat /\ MaxCrashes \in Nat

VARIABLES
  lock,          \* the actor that holds the device lock, or NoActor
  pc,            \* pc[a]: the next step of actor a
  on,            \* on[a]: the session it works on
  frame,         \* frame[a]: its local variables
  faults,        \* calls that have reported failure so far
  crashes,       \* actors that have died inside an operation
  trespass,      \* history: the actions of one session were executed while the
                 \* device belonged to another one
  spared         \* history: processes that a failing call of the OS let pass for ended

actorVars == <<lock, pc, on, frame, faults, crashes, trespass, spared>>

(***************************************************************************)
(* Local variables.  job: the operation that was called; phase: the code   *)
(* that is going through ledger actions for it; todo: the actions still to *)
(* execute, current: the one in hand, verdict: what came of it; ready:     *)
(* the device answered; errors: something failed.  The rest belongs to     *)
(* traffic.start: port, process, proxy value read, mapping found in place, *)
(* recorded action ids by kind, and the changes made; registered belongs   *)
(* to traffic.stop: the evidence files are in the index.                   *)
(***************************************************************************)
Jobs == {"none", "start", "stop", "cleanup"}
Phases == {"none", "rollback", "stop", "cleanup"}
Verdicts == EntryStatuses \ {"pending"}
NoIds == [k \in Kinds |-> 0]
Frames == [job : Jobs, phase : Phases, todo : SUBSET Nat, current : Nat,
           verdict : Verdicts, ready : BOOLEAN, errors : BOOLEAN,
           port : Ports \cup {NoProxy}, proc : 0..MaxSpawns, prev : ProxyValues,
           adopt : BOOLEAN, ids : [Kinds -> Nat], made : SUBSET Kinds,
           registered : BOOLEAN]
IdleFrame == [job |-> "none", phase |-> "none", todo |-> {}, current |-> 0,
              verdict |-> "completed", ready |-> TRUE, errors |-> FALSE,
              port |-> NoProxy, proc |-> 0, prev |-> NoProxy,
              adopt |-> FALSE, ids |-> NoIds, made |-> {},
              registered |-> FALSE]

Goto(a, l) == pc' = [pc EXCEPT ![a] = l]
Keep(a) == UNCHANGED <<lock, on>>
NoFault == UNCHANGED <<faults, crashes, trespass, spared>>
Fault == faults < MaxFaults /\ faults' = faults + 1 /\ UNCHANGED <<crashes, trespass, spared>>

\* terminate_owned does not tell a failing call from an ended process: OpenProcess
\* that is refused counts as "not there", a wait that runs out as "gone".
Spare(n) ==
  /\ faults < MaxFaults /\ faults' = faults + 1
  /\ spared' = spared \cup {n}
  /\ UNCHANGED <<crashes, trespass>>

\* The operation returns or raises: __exit__ of the device lock, if held.
Return(a) ==
  /\ lock' = IF lock = a THEN NoActor ELSE lock
  /\ pc' = [pc EXCEPT ![a] = "idle"]
  /\ on' = [on EXCEPT ![a] = NoSession]
  /\ frame' = [frame EXCEPT ![a] = IdleFrame]

(***************************************************************************)
(* One ledger action: decide, apply, mark.  Between reading the device and *)
(* writing it lie two adb calls, hence two steps.                          *)
(***************************************************************************)
Action(a) == ledger[on[a]][frame[a].current].action

\* Mutation: any value but the previous one is taken for the applied one.
ProxyVerdictUnchecked(s, e, current) ==
  IF s \notin captured THEN "failed" ELSE IF current = e.prev THEN "skipped" ELSE "apply"

\* restore_owned_proxy before its write, when the setting reads as "current";
\* "apply" stands for going on to the write.
ProxyVerdict(s, e, current) ==
  CASE s \notin captured -> "failed"
    [] s \in captured /\ current = e.prev -> "skipped"
    [] s \in captured /\ current \notin {e.prev, e.port} -> "conflict"
    [] OTHER -> "apply"

\* Mutation: whatever the endpoint maps to is removed.
ReverseVerdictUnchecked(mapping) == IF mapping = "none" THEN "skipped" ELSE "apply"

\* remove_owned_reverse before its write, for the mapping found
ReverseVerdict(mapping) ==
  CASE mapping = "none" -> "skipped"
    [] mapping = "other" -> "conflict"
    [] OTHER -> "apply"

\* terminate_owned before TerminateProcess
ProcessVerdict(e) ==
  CASE Alive(e.proc) -> "apply"
    [] ~Alive(e.proc) /\ e.proc \in reused -> "failed"
    [] OTHER -> "skipped"

DeviceVerdict(s, e) ==
  CASE e.kind = "proxy" -> ProxyVerdict(s, e, proxy)
    [] e.kind = "reverse" -> ReverseVerdict(reverse[e.port])
    [] OTHER -> ProcessVerdict(e)

\* The order of execution: cleanup and rollback go backwards through the
\* ledger; traffic.stop takes process, proxy, reverse.
StopRank(k) == CASE k = "process" -> 1 [] k = "proxy" -> 2 [] OTHER -> 3
\* Mutation: the ledger is gone through in recording order.
BeforeForward(a, i, j) ==
  IF frame[a].phase = "stop"
  THEN StopRank(ledger[on[a]][i].action.kind) <= StopRank(ledger[on[a]][j].action.kind)
  ELSE i <= j

Before(a, i, j) ==
  IF frame[a].phase = "stop"
  THEN StopRank(ledger[on[a]][i].action.kind) <= StopRank(ledger[on[a]][j].action.kind)
  ELSE i >= j

AfterActions(a) == CASE frame[a].phase = "rollback" -> "endRollback"
                     [] frame[a].phase = "stop" -> "evidence"
                     [] OTHER -> "endCleanup"

Decide(a) ==
  /\ pc[a] = "next"
  /\ \E i \in frame[a].todo :
       /\ \A j \in frame[a].todo : Before(a, i, j)
       /\ LET e == ledger[on[a]][i].action
              v == DeviceVerdict(on[a], e)
              With(x) == frame' = [frame EXCEPT ![a].current = i, ![a].verdict = x]
          IN \/ /\ ~frame[a].ready /\ e.kind # "process"
                /\ With("failed") /\ Goto(a, "mark") /\ NoFault
             \/ /\ frame[a].ready \/ e.kind = "process"
                /\ IF v = "apply" THEN With("completed") /\ Goto(a, "apply")
                                  ELSE With(v) /\ Goto(a, "mark")
                /\ NoFault
             \/ /\ frame[a].ready \/ e.kind = "process"      \* the read itself fails
                /\ With("failed") /\ Goto(a, "mark") /\ Fault
             \/ /\ e.kind = "process"                        \* OpenProcess fails
                /\ With("skipped") /\ Goto(a, "mark") /\ Spare(e.proc)
  /\ Keep(a)
  /\ UNCHANGED <<sessionVars, deviceVars>>

Effect(e, took) ==
  CASE e.kind = "proxy" -> PutSetting(e.prev, took)
    [] e.kind = "reverse" -> SetReverse(e.port, "none", took)
    [] OTHER -> Terminate(IF took THEN e.proc ELSE 0)

\* A process that has just exited cannot be terminated, which is a failure; one
\* that is still there after the wait counts as terminated.
Apply(a) ==
  LET isProcess == Action(a).kind = "process"
      exited == isProcess /\ ~Alive(Action(a).proc)
  IN
  /\ pc[a] = "apply"
  /\ \/ ~exited /\ Effect(Action(a), TRUE) /\ NoFault /\ UNCHANGED frame
     \/ exited /\ UNCHANGED deviceVars /\ NoFault /\ frame' = [frame EXCEPT ![a].verdict = "failed"]
     \/ \E took \in BOOLEAN :
          Effect(Action(a), took) /\ Fault /\ frame' = [frame EXCEPT ![a].verdict = "failed"]
     \/ isProcess /\ UNCHANGED <<deviceVars, frame>> /\ Spare(Action(a).proc)
  /\ Goto(a, "mark")
  /\ Keep(a)
  /\ UNCHANGED sessionVars

\* Mutation: a failed action is tried again at once.
MarkRetrying(a) ==
  LET f == frame[a]  rest == IF f.verdict \in Settled THEN f.todo \ {f.current} ELSE f.todo IN
  /\ pc[a] = "mark"
  /\ UpdateAction(on[a], f.current, f.verdict)
  /\ frame' = [frame EXCEPT ![a].todo = rest,
                            ![a].errors = @ \/ f.verdict \notin Settled]
  /\ Goto(a, IF rest = {} THEN AfterActions(a) ELSE "next")
  /\ Keep(a) /\ NoFault
  /\ UNCHANGED deviceVars

Mark(a) ==
  LET f == frame[a]  rest == f.todo \ {f.current} IN
  /\ pc[a] = "mark"
  /\ UpdateAction(on[a], f.current, f.verdict)
  /\ frame' = [frame EXCEPT ![a].todo = rest,
                            ![a].errors = @ \/ f.verdict \notin Settled]
  /\ Goto(a, IF rest = {} THEN AfterActions(a) ELSE "next")
  /\ Keep(a) /\ NoFault
  /\ UNCHANGED deviceVars

\* History: actions I are about to be executed for the session of a.
Trespassing(a, I) ==
  trespass' = (trespass \/ (I # {} /\ \E t \in Sessions \ {on[a]} : PendingCleanup(t)))

\* Start going through actions I; require_authorized_device is asked once, if
\* one of them is on the device, and its failure fails those.
Begin(a, phase, I) ==
  /\ \E ready \in BOOLEAN :
       /\ \/ ready /\ UNCHANGED faults
          \/ /\ ~ready /\ faults < MaxFaults /\ faults' = faults + 1
             /\ \E i \in I : ledger[on[a]][i].action.kind # "process"
       /\ frame' = [frame EXCEPT ![a].phase = phase, ![a].todo = I, ![a].ready = ready]
  /\ Trespassing(a, I) /\ UNCHANGED <<crashes, spared>>

(***************************************************************************)
(* rollback_actions: a start that failed, still under its device lock      *)
(***************************************************************************)
Recorded(a) == {frame[a].ids[k] : k \in Kinds} \ {0}

BeginRollback(a) ==
  LET I == Recorded(a) \cap Unsettled(on[a]) IN
  /\ pc[a] = "rollback" /\ Recorded(a) # {}
  /\ Begin(a, "rollback", I)
  /\ Goto(a, IF I = {} THEN "endRollback" ELSE "next")
  /\ Keep(a)
  /\ UNCHANGED <<sessionVars, deviceVars>>

EndRollback(a) ==
  /\ pc[a] = "endRollback"
  /\ SetStatus(on[a], IF PendingCleanup(on[a]) THEN "cleanup_required" ELSE "active")
  /\ Return(a) /\ NoFault
  /\ UNCHANGED deviceVars

(***************************************************************************)
(* cleanup                                                                 *)
(***************************************************************************)
CleanedAlready(s) == status[s] = "cleaned" /\ ~PendingCleanup(s)

ReturnCleaned(a) ==
  /\ pc[a] = "cleanup" /\ CleanedAlready(on[a])
  /\ Return(a) /\ NoFault
  /\ UNCHANGED <<sessionVars, deviceVars>>

BeginCleanup(a) ==
  LET I == Unsettled(on[a]) IN
  /\ pc[a] = "cleanup" /\ ~CleanedAlready(on[a])
  /\ SetStatus(on[a], "cleaning")
  /\ Begin(a, "cleanup", I)
  /\ Goto(a, IF I = {} THEN "endCleanup" ELSE "next")
  /\ Keep(a)
  /\ UNCHANGED deviceVars

EndCleanup(a) ==
  /\ pc[a] = "endCleanup"
  /\ SetStatus(on[a], IF Unsettled(on[a]) = {} THEN "cleaned" ELSE "cleanup_failed")
  /\ Return(a) /\ NoFault
  /\ UNCHANGED deviceVars

ExecutorStep(a) ==
  \/ Decide(a) \/ Apply(a) \/ Mark(a)
  \/ BeginRollback(a) \/ EndRollback(a)
  \/ ReturnCleaned(a) \/ BeginCleanup(a) \/ EndCleanup(a)
=============================================================================
