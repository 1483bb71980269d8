-------------------------- MODULE FridaObservation --------------------------
(***************************************************************************)
(* Frida observation (frida_controller.py) of several sessions of one      *)
(* device, with the ledger actions it records and the handlers of          *)
(* cleanup.py that give them back.  start, stop and cleanup hold the       *)
(* device lock from their checks to their end, so at most one operation is *)
(* under way; its process may die at any step, and ledger, state.json,     *)
(* device and host processes outlive it.                                   *)
(***************************************************************************)
EXTENDS FridaDevice, Sequences

CONSTANTS
  NoSession,     \* the session of no operation
  MaxActions,    \* bound: length of a ledger
  MaxFaults,     \* bound: calls that report failure
  MaxCrashes     \* bound: operations that die

ASSUME FridaAssumption ==
  /\ NoSession \notin Sessions
  /\ MaxActions \in Nat /\ MaxFaults \in Nat /\ MaxCrashes \in Nat

VARIABLES
  status,        \* status[s]: SessionStatus of an activated session
  ledger,        \* ledger[s]: its cleanup actions, in recording order
  observer,      \* observer[s]: frida/state.json
  pc,            \* the next step of the operation under way
  op,            \* its local variables
  faults, crashes,
  spared         \* history: clients that a failing call of the OS let pass for ended

fridaVars == <<fridaDeviceVars, status, ledger, observer, pc, op, faults, crashes, spared>>

Settled == {"completed", "skipped"}
EntryStatuses == {"pending", "failed"} \cup Settled

\* identified: the payload holds the /proc identity of the process.  It is
\* empty in the first recording of a server.
FridaKinds == {"file", "server", "client"}
Entries == [kind : FridaKinds, proc : 0..MaxProcs, identified : BOOLEAN, status : EntryStatuses]
NoEntryIds == [k \in FridaKinds |-> 0]

\* state.json; owned: server_started_by_framework, server: the PID in use
Observers == [status : {"none", "running", "stopped", "stop_failed"},
              ids : [FridaKinds -> 0..MaxActions], server : 0..MaxProcs,
              owned : BOOLEAN, evidence : BOOLEAN]
NoObserver == [status |-> "none", ids |-> NoEntryIds, server |-> 0,
               owned |-> FALSE, evidence |-> FALSE]

\* Locals: the operation and its session, the phase that goes through ledger
\* actions, those left, the one in hand and its verdict; whether the device
\* answered, whether something failed, whether evidence is registered; what a
\* start has made so far.
NoOp == [job |-> "none", on |-> NoSession, phase |-> "none", todo |-> {}, current |-> 0,
         verdict |-> "completed", ready |-> TRUE, errors |-> FALSE, registered |-> FALSE,
         server |-> 0, client |-> 0, owned |-> FALSE, ids |-> NoEntryIds]
Ops == [job : {"none", "start", "stop", "cleanup"}, on : Sessions \cup {NoSession},
        phase : {"none", "rollback", "stop", "cleanup"}, todo : SUBSET (1..MaxActions),
        current : 0..MaxActions, verdict : {"completed", "skipped", "failed"},
        ready : BOOLEAN, errors : BOOLEAN, registered : BOOLEAN,
        server : 0..MaxProcs, client : 0..MaxProcs, owned : BOOLEAN,
        ids : [FridaKinds -> 0..MaxActions]]
FridaLabels == {"idle", "probe", "recordFile", "push", "launch", "recordServer", "identify",
                "popen", "handshake", "recordClient", "running", "rollback", "endRollback",
                "dropClient", "stop", "evidence", "stopped", "activate",
                "next", "apply", "mark", "cleanup", "endCleanup"}

TypeOK ==
  /\ FridaDeviceTypeOK
  /\ status \in [Sessions -> {"active", "cleanup_required", "cleaning", "cleaned", "cleanup_failed"}]
  /\ \A s \in Sessions : Len(ledger[s]) <= MaxActions /\ \A i \in DOMAIN ledger[s] : ledger[s][i] \in Entries
  /\ observer \in [Sessions -> Observers]
  /\ pc \in FridaLabels /\ op \in Ops
  /\ faults \in 0..MaxFaults /\ crashes \in 0..MaxCrashes
  /\ spared \subseteq 0..MaxProcs

Init ==
  /\ FridaDeviceInit
  /\ status = [s \in Sessions |-> "active"]
  /\ ledger = [s \in Sessions |-> <<>>]
  /\ observer = [s \in Sessions |-> NoObserver]
  /\ pc = "idle" /\ op = NoOp
  /\ faults = 0 /\ crashes = 0 /\ spared = {}

Fault == faults < MaxFaults /\ faults' = faults + 1 /\ UNCHANGED <<crashes, spared>>
NoFault == UNCHANGED <<faults, crashes, spared>>

\* terminate_owned does not tell a failing call from an ended client: OpenProcess
\* that is refused counts as "not there", a wait that runs out as "gone".
Spare(n) ==
  /\ faults < MaxFaults /\ faults' = faults + 1
  /\ spared' = spared \cup {n} /\ UNCHANGED crashes
Return == pc' = "idle" /\ op' = NoOp

(***************************************************************************)
(* The session record (session.py), for the session of the operation.      *)
(***************************************************************************)
Indices(s) == 1..Len(ledger[s])
Unsettled(s) == {i \in Indices(s) : ledger[s][i].status \notin Settled}

SlotFree(s) ==
  /\ status[s] \in {"active", "cleanup_required"}
  /\ \A i \in Indices(s) : ledger[s][i].status # "failed"
  /\ \A t \in Sessions \ {s} : status[t] # "cleaned" => Unsettled(t) = {}

Record(kind, proc, identified) ==
  /\ Len(ledger[op.on]) < MaxActions
  /\ status[op.on] # "cleaned"
  /\ ledger' = [ledger EXCEPT ![op.on] =
       Append(@, [kind |-> kind, proc |-> proc, identified |-> identified, status |-> "pending"])]
  /\ status' = [status EXCEPT ![op.on] = "cleanup_required"]

SetStatus(v) == status' = [status EXCEPT ![op.on] = v] /\ UNCHANGED ledger

(***************************************************************************)
(* One ledger action: decide from the device, apply, mark.                 *)
(***************************************************************************)
Action == ledger[op.on][op.current]

\* Mutation: a process is ended for its PID alone.
ProcessVerdictByPid(e) ==
  IF Running(e.proc) \/ e.proc \in occupied THEN "apply" ELSE "skipped"

\* _stop_remote_process and terminate_owned before their kill: nobody has the
\* PID, an unidentified or unrelated process has it, or the recorded one.
ProcessVerdict(e) ==
  CASE ~Running(e.proc) /\ e.proc \notin occupied -> "skipped"
    [] Running(e.proc) /\ e.identified -> "apply"
    [] OTHER -> "failed"

Verdict(e) ==
  IF e.kind = "file" THEN IF op.on \in file THEN "apply" ELSE "skipped"
  ELSE ProcessVerdict(e)

\* What the handlers make of a read that fails: the test for the file counts
\* every failure as "no such file", unless adb itself cannot be run.
FailedRead(e) == IF e.kind = "file" THEN {"skipped", "failed"} ELSE {"failed"}

StopRank(k) == CASE k = "client" -> 1 [] k = "server" -> 2 [] OTHER -> 3
Before(i, j) ==
  IF op.phase = "stop"
  THEN StopRank(ledger[op.on][i].kind) <= StopRank(ledger[op.on][j].kind)
  ELSE i >= j

AfterActions == CASE op.phase = "rollback" -> "endRollback"
                  [] op.phase = "stop" -> "evidence"
                  [] OTHER -> "endCleanup"

Decide ==
  /\ pc = "next"
  /\ \E i \in op.todo :
       /\ \A j \in op.todo : Before(i, j)
       /\ LET e == ledger[op.on][i]
              v == Verdict(e)
              asked == op.ready \/ e.kind = "client"
              With(x) == op' = [op EXCEPT !.current = i, !.verdict = x]
          IN \/ /\ ~asked
                /\ With("failed") /\ pc' = "mark" /\ NoFault
             \/ /\ asked
                /\ IF v = "apply" THEN With("completed") /\ pc' = "apply"
                                  ELSE With(v) /\ pc' = "mark"
                /\ NoFault
             \/ /\ asked
                /\ \E x \in FailedRead(e) : With(x)
                /\ pc' = "mark" /\ Fault
             \/ /\ e.kind = "client"                         \* OpenProcess fails
                /\ With("skipped") /\ pc' = "mark" /\ Spare(e.proc)
  /\ UNCHANGED <<fridaDeviceVars, status, ledger, observer>>

Effect(e, took) == IF e.kind = "file" THEN RemoveFile(op.on, took) ELSE Kill(e.proc, took)

\* Mutation: a kill that is reported as failed counts as done.
ApplyIgnoringFailure ==
  /\ pc = "apply"
  /\ \/ Effect(Action, TRUE) /\ NoFault
     \/ \E took \in BOOLEAN : Effect(Action, took) /\ Fault
  /\ pc' = "mark" /\ UNCHANGED <<op, status, ledger, observer>>

\* A kill of a process that has just exited fails, and so does one that does
\* not end the server within the timeout; a client that is still there after the
\* wait counts as terminated.
Apply ==
  LET gone == Action.kind # "file" /\ ~Running(Action.proc) IN
  /\ pc = "apply"
  /\ \/ /\ Effect(Action, TRUE) /\ NoFault
        /\ op' = [op EXCEPT !.verdict = IF gone THEN "failed" ELSE @]
     \/ \E took \in BOOLEAN : Effect(Action, took) /\ Fault /\ op' = [op EXCEPT !.verdict = "failed"]
     \/ Action.kind = "client" /\ UNCHANGED <<fridaDeviceVars, op>> /\ Spare(Action.proc)
  /\ pc' = "mark" /\ UNCHANGED <<status, ledger, observer>>

\* Mutation: a failed action is tried again at once.
MarkRetrying ==
  LET rest == IF op.verdict \in Settled THEN op.todo \ {op.current} ELSE op.todo IN
  /\ pc = "mark"
  /\ ledger' = [ledger EXCEPT ![op.on][op.current].status = op.verdict]
  /\ op' = [op EXCEPT !.todo = rest, !.errors = @ \/ op.verdict = "failed"]
  /\ pc' = IF rest = {} THEN AfterActions ELSE "next"
  /\ NoFault /\ UNCHANGED <<fridaDeviceVars, status, observer>>

Mark ==
  LET rest == op.todo \ {op.current} IN
  /\ pc = "mark"
  /\ ledger' = [ledger EXCEPT ![op.on][op.current].status = op.verdict]
  /\ op' = [op EXCEPT !.todo = rest, !.errors = @ \/ op.verdict = "failed"]
  /\ pc' = IF rest = {} THEN AfterActions ELSE "next"
  /\ NoFault /\ UNCHANGED <<fridaDeviceVars, status, observer>>

\* Go through actions I.  rollback and cleanup ask once whether the device is
\* authorized when one of them is on it; stop does not ask.
Begin(phase, I, registered) ==
  /\ op' \in {[op EXCEPT !.phase = phase, !.todo = I, !.ready = r, !.errors = FALSE,
                         !.registered = registered] : r \in BOOLEAN}
  /\ \/ op'.ready /\ NoFault
     \/ ~op'.ready /\ phase # "stop" /\ (\E i \in I : ledger[op.on][i].kind # "client") /\ Fault
  /\ pc' = IF I = {} THEN (IF phase = "rollback" THEN "endRollback" ELSE "endCleanup") ELSE "next"

(***************************************************************************)
(* start                                                                   *)
(***************************************************************************)

\* The checks are made before the device lock and again under it.
StartLock(s) ==
  /\ pc = "idle"
  /\ observer[s].status \notin {"running", "stop_failed"} /\ SlotFree(s)
  /\ Len(ledger[s]) + 3 <= MaxActions
  /\ op' = [NoOp EXCEPT !.job = "start", !.on = s]
  /\ pc' = "probe" /\ NoFault
  /\ UNCHANGED <<fridaDeviceVars, status, ledger, observer>>

\* A server that runs is used, whoever started it; else one is started.
StartProbe ==
  /\ pc = "probe"
  /\ \/ \E x \in servers : op' = [op EXCEPT !.server = x.id] /\ pc' = "popen"
     \/ servers = {} /\ op' = [op EXCEPT !.owned = TRUE] /\ pc' = "recordFile"
  /\ NoFault /\ UNCHANGED <<fridaDeviceVars, status, ledger, observer>>

\* No authorized device, no root, no binary, incompatible versions.
StartRefused ==
  /\ pc = "probe"
  /\ Return /\ NoFault
  /\ UNCHANGED <<fridaDeviceVars, status, ledger, observer>>

\* record_cleanup_action; when the event log cannot be appended the action is
\* in the ledger, but its id is not kept for the rollback.
StartRecord(kind, proc, identified, to) ==
  /\ Record(kind, proc, identified)
  /\ \/ op' = [op EXCEPT !.ids[kind] = Len(ledger[op.on]) + 1] /\ pc' = to /\ NoFault
     \/ pc' = "rollback" /\ Fault /\ UNCHANGED op
  /\ UNCHANGED <<fridaDeviceVars, observer>>

StartRecordFile == pc = "recordFile" /\ StartRecord("file", 0, TRUE, "push")

\* The push and the checks of what was pushed: mode, hash, version.
StartPush ==
  /\ pc = "push"
  /\ \/ PutFile(op.on, TRUE) /\ pc' = "launch" /\ NoFault
     \/ \E took \in BOOLEAN : PutFile(op.on, took) /\ pc' = "rollback" /\ Fault
  /\ UNCHANGED <<op, status, ledger, observer>>

StartLaunch ==
  /\ pc = "launch"
  /\ \/ /\ LaunchServer(op.on, TRUE)
        /\ op' = [op EXCEPT !.server = started + 1] /\ pc' = "recordServer" /\ NoFault
     \/ /\ \E took \in BOOLEAN : LaunchServer(op.on, took)
        /\ pc' = "rollback" /\ Fault /\ UNCHANGED op
  /\ UNCHANGED <<status, ledger, observer>>

StartRecordServer ==
  pc = "recordServer" /\ StartRecord("server", op.server, FALSE, "identify")

\* The identity is read from /proc and completes the payload; ten seconds
\* without success end the start.
StartIdentify ==
  LET Complete == ledger' = [ledger EXCEPT ![op.on][op.ids["server"]].identified = TRUE] IN
  /\ pc = "identify"
  /\ \/ Serving(op.server) /\ Complete /\ pc' = "popen" /\ NoFault
     \/ ~Serving(op.server) /\ pc' = "rollback" /\ NoFault /\ UNCHANGED ledger
     \/ Serving(op.server) /\ pc' = "rollback" /\ Fault /\ (Complete \/ UNCHANGED ledger)
  /\ UNCHANGED <<op, fridaDeviceVars, status, observer>>

StartClient ==
  /\ pc = "popen"
  /\ LaunchClient
  /\ op' = [op EXCEPT !.client = started + 1]
  /\ pc' = "handshake" /\ NoFault
  /\ UNCHANGED <<status, ledger, observer>>

\* The observer reports that it is loaded, and the client's identity is read;
\* a client or a server that has exited ends the start.
StartHandshake ==
  /\ pc = "handshake"
  /\ pc' = IF op.client \in clients /\ Serving(op.server) THEN "recordClient" ELSE "rollback"
  /\ NoFault /\ UNCHANGED <<op, fridaDeviceVars, status, ledger, observer>>

StartRecordClient ==
  pc = "recordClient" /\ StartRecord("client", op.client, TRUE, "running")

\* state.json is written, then the event log; if that raises, what was started
\* is rolled back and state.json stays.
StartRunning ==
  /\ pc = "running"
  /\ observer' = [observer EXCEPT ![op.on] = [status |-> "running", ids |-> op.ids,
       server |-> op.server, owned |-> op.owned, evidence |-> FALSE]]
  /\ \/ Return /\ NoFault
     \/ pc' = "rollback" /\ Fault /\ UNCHANGED op
  /\ UNCHANGED <<fridaDeviceVars, status, ledger>>

\* A call of the try block raises before it has an effect; a server or client
\* beyond the bound on processes counts as one that could not be started.
StartRaises ==
  /\ pc \in {"recordFile", "recordServer", "popen", "handshake", "recordClient", "running", "launch"}
  /\ pc' = "rollback"
  /\ Fault \/ (pc \in {"launch", "popen"} /\ started = MaxProcs /\ NoFault)
  /\ UNCHANGED <<op, fridaDeviceVars, status, ledger, observer>>

Recorded == {op.ids[k] : k \in FridaKinds} \ {0}

\* rollback_actions, called only when an id was kept
BeginRollback ==
  /\ pc = "rollback" /\ Recorded # {}
  /\ Begin("rollback", Recorded \cap Unsettled(op.on), FALSE)
  /\ UNCHANGED <<fridaDeviceVars, status, ledger, observer>>

RollbackNothing ==
  /\ pc = "rollback" /\ Recorded = {}
  /\ pc' = "dropClient" /\ NoFault
  /\ UNCHANGED <<op, fridaDeviceVars, status, ledger, observer>>

EndRollback ==
  /\ pc = "endRollback"
  /\ SetStatus(IF Unsettled(op.on) # {} THEN "cleanup_required" ELSE "active")
  /\ pc' = "dropClient" /\ NoFault
  /\ UNCHANGED <<op, fridaDeviceVars, observer>>

\* Mutation: the client is left to the ledger, recorded or not.
StartKeepsClient ==
  /\ pc = "dropClient"
  /\ Return /\ NoFault
  /\ UNCHANGED <<fridaDeviceVars, status, ledger, observer>>

\* A client that no kept id stands for is terminated directly, once, and whatever
\* comes of it the start is over.
StartDropClient ==
  LET drops == op.ids["client"] = 0 /\ op.client \in clients IN
  /\ pc = "dropClient"
  /\ \/ Kill(IF drops THEN op.client ELSE 0, TRUE) /\ NoFault
     \/ drops /\ UNCHANGED fridaDeviceVars /\ Spare(op.client)
  /\ Return
  /\ UNCHANGED <<status, ledger, observer>>

(***************************************************************************)
(* stop, on its own or inside CleanupService.cleanup, and cleanup          *)
(***************************************************************************)
StopLock(s) ==
  /\ pc = "idle" /\ observer[s].status \in {"running", "stop_failed"}
  /\ op' = [NoOp EXCEPT !.job = "stop", !.on = s]
  /\ pc' = "stop" /\ NoFault
  /\ UNCHANGED <<fridaDeviceVars, status, ledger, observer>>

\* Server and file are given back only if this session started the server;
\* the status of the actions in the ledger is not looked at.
StopBegin ==
  LET o == observer[op.on]
      I == {o.ids["client"]} \cup IF o.owned THEN {o.ids["server"], o.ids["file"]} ELSE {} IN
  /\ pc = "stop"
  /\ Begin("stop", I, o.evidence)
  /\ UNCHANGED <<fridaDeviceVars, status, ledger, observer>>

StopEvidence ==
  /\ pc = "evidence"
  /\ \/ op' = [op EXCEPT !.registered = TRUE] /\ NoFault
     \/ ~op.registered /\ op' = [op EXCEPT !.errors = TRUE] /\ Fault
  /\ pc' = "stopped"
  /\ UNCHANGED <<fridaDeviceVars, status, ledger, observer>>

StopReturns ==
  IF op.job = "cleanup" THEN pc' = "cleanup" /\ UNCHANGED op ELSE Return

StopPersist ==
  /\ pc = "stopped"
  /\ observer' = [observer EXCEPT
       ![op.on].status = IF op.errors THEN "stop_failed" ELSE "stopped",
       ![op.on].evidence = op.registered]
  /\ IF op.errors THEN StopReturns ELSE pc' = "activate" /\ UNCHANGED op
  /\ NoFault /\ UNCHANGED <<fridaDeviceVars, status, ledger>>

StopActivate ==
  /\ pc = "activate"
  /\ SetStatus("active")
  /\ StopReturns /\ NoFault
  /\ UNCHANGED <<fridaDeviceVars, observer>>

\* The ledger, state.json or the session cannot be written: stop raises, and
\* the cleanup that called it goes on.
StopRaises ==
  /\ pc \in {"mark", "stopped", "activate"} /\ op.phase = "stop"
  /\ Fault /\ StopReturns
  /\ UNCHANGED <<fridaDeviceVars, status, ledger, observer>>

\* Mutation: an observation that is running is not stopped first.
CleanupLockNoStop(s) ==
  /\ pc = "idle"
  /\ op' = [NoOp EXCEPT !.job = "cleanup", !.on = s]
  /\ pc' = "cleanup"
  /\ NoFault /\ UNCHANGED <<fridaDeviceVars, status, ledger, observer>>

\* CleanupService.cleanup: an observation that is running is stopped first.
CleanupLock(s) ==
  /\ pc = "idle"
  /\ op' = [NoOp EXCEPT !.job = "cleanup", !.on = s]
  /\ pc' = IF observer[s].status = "running" THEN "stop" ELSE "cleanup"
  /\ NoFault /\ UNCHANGED <<fridaDeviceVars, status, ledger, observer>>

CleanedAlready == status[op.on] = "cleaned" /\ Unsettled(op.on) = {}

ReturnCleaned ==
  /\ pc = "cleanup" /\ CleanedAlready
  /\ Return /\ NoFault
  /\ UNCHANGED <<fridaDeviceVars, status, ledger, observer>>

BeginCleanup ==
  /\ pc = "cleanup" /\ ~CleanedAlready
  /\ Begin("cleanup", Unsettled(op.on), FALSE)
  /\ SetStatus("cleaning")
  /\ UNCHANGED <<fridaDeviceVars, observer>>

EndCleanup ==
  /\ pc = "endCleanup"
  /\ SetStatus(IF Unsettled(op.on) = {} THEN "cleaned" ELSE "cleanup_failed")
  /\ Return /\ NoFault
  /\ UNCHANGED <<fridaDeviceVars, observer>>

(***************************************************************************)
(* The specification                                                       *)
(***************************************************************************)
\* The process of the operation dies, or an exception that nobody handles ends
\* it: the OS drops the device lock, everything else stays as it is.
Crash ==
  /\ pc # "idle" /\ crashes < MaxCrashes
  /\ crashes' = crashes + 1 /\ UNCHANGED <<faults, spared>>
  /\ Return
  /\ UNCHANGED <<fridaDeviceVars, status, ledger, observer>>

\* Between the check of a process's identity and the kill its PID is not handed
\* out again: adb has no call that would close this gap.
Interference ==
  /\ FridaEnvironment
  /\ pc = "apply" => Action.proc \notin occupied' \ occupied
  /\ UNCHANGED <<status, ledger, observer, pc, op, faults, crashes, spared>>

StartStep ==
  \/ StartProbe \/ StartRefused \/ StartRecordFile \/ StartPush \/ StartLaunch
  \/ StartRecordServer \/ StartIdentify \/ StartClient \/ StartHandshake
  \/ StartRecordClient \/ StartRunning \/ StartRaises
  \/ BeginRollback \/ RollbackNothing \/ EndRollback \/ StartDropClient
StopStep ==
  \/ StopBegin \/ StopEvidence \/ StopPersist \/ StopActivate \/ StopRaises
CleanupStep == ReturnCleaned \/ BeginCleanup \/ EndCleanup
OperationStep == StartStep \/ StopStep \/ CleanupStep \/ Decide \/ Apply \/ Mark

Next ==
  \/ \E s \in Sessions : StartLock(s) \/ StopLock(s) \/ CleanupLock(s)
  \/ OperationStep
  \/ Crash
  \/ Interference

Spec == Init /\ [][Next]_fridaVars

\* An operation that was called goes on: every call has a timeout.
FairSpec == Spec /\ WF_fridaVars(OperationStep)

(***************************************************************************)
(* Properties                                                              *)
(***************************************************************************)
Owes(s, kind, n) ==
  \E i \in Unsettled(s) : ledger[s][i].kind = kind /\ ledger[s][i].proc = n

\* A process of the framework that neither a ledger nor the operation under way
\* knows was left by an operation that died, or, for a server, by a call that
\* failed after the server was up; one process for each such event.  Clients that a
\* call of the OS let pass for ended are set apart.
OrphanServers == {x \in servers : x.by # Outsider /\ ~Owes(x.by, "server", x.id) /\ op.server # x.id}
OrphanClients ==
  {n \in clients \ spared : (\A s \in Sessions : ~Owes(s, "client", n)) /\ op.client # n}
OrphansHaveCause ==
  /\ Cardinality(OrphanServers) <= crashes + faults
  /\ Cardinality(OrphanClients) <= crashes

\* A frida-server file is on the device only while a ledger still has to remove
\* it, whatever dies and whatever others do, as long as no call fails.
FilesAreOwed == faults = 0 => \A s \in file : Owes(s, "file", 0)

\* Once an action on a process is settled the process does not run, whatever
\* failed in between; a client may run on only if OpenProcess was refused or the wait
\* for its end ran out.
SettledMeansGone ==
  \A s \in Sessions : \A i \in Indices(s) \ Unsettled(s) :
    LET e == ledger[s][i] IN
    e.kind # "file" => ~Running(e.proc) \/ (e.kind = "client" /\ e.proc \in spared)

\* When no call fails, an action on a process that runs can fail only because
\* an operation died before it had recorded who the process is.
FailureHasCause ==
  pc = "mark" /\ op.verdict = "failed" /\ faults = 0 /\ Running(Action.proc) =>
    ~Action.identified /\ crashes > 0

\* What is left on device and host and is in no ledger has a failure or a death
\* for a cause.
LeftoversHaveCause == OrphansHaveCause /\ FilesAreOwed

\* What a ledger says of an action is so: settled means gone, or passed for gone,
\* and failed has a reason.
LedgerTruthful == TypeOK /\ SettledMeansGone /\ FailureHasCause

\* An observation that state.json calls running is alive and covered by the
\* ledger, while nothing fails, dies or happens on its own.
RunningIsLive ==
  pc = "idle" /\ faults = 0 /\ crashes = 0 /\ outside = 0 =>
    \A s \in Sessions : observer[s].status = "running" =>
      /\ Serving(observer[s].server)
      /\ \E n \in clients : Owes(s, "client", n)

\* The framework never ends a process it did not start, also when a PID was
\* handed out again, nor a server that was there before its session started one.
OwnServersOnly ==
  /\ ~stray'
  /\ outside' = outside => \A x \in servers \ servers' : x.by = op.on

\* No operation ends the server that the running observation of another session
\* uses, whoever started that server.
Undisturbed(t) ==
  observer[t].status = "running" /\ outside' = outside /\ Serving(observer[t].server) =>
    Serving(observer[t].server)'
RunningUndisturbed == \A t \in Sessions \ {op.on} : Undisturbed(t)

\* Neither what others run nor what others use is ended by an operation.
EndsOnlyItsOwn == [][OwnServersOnly /\ RunningUndisturbed]_fridaVars

\* Every operation that was called returns.
Returns == pc # "idle" ~> pc = "idle"
=============================================================================
