--------------------------- MODULE TrafficCapture ---------------------------
(***************************************************************************)
(* Traffic capture of a session (traffic.py): start applies an adb reverse *)
(* mapping and the global proxy for a mitmdump process, recording each     *)
(* change in the ledger before making it; stop gives them back one by one. *)
(***************************************************************************)
EXTENDS CleanupExecutor

VARIABLE cap     \* cap[s]: traffic/state.json, status "none" when there is none

Captures == [status : {"none", "running", "stopped", "stop_failed"},
             ids : [Kinds -> Nat], made : SUBSET Kinds, evidence : BOOLEAN]
NoCapture == [status |-> "none", ids |-> NoIds, made |-> {}, evidence |-> FALSE]

CaptureTypeOK == cap \in [Sessions -> Captures]
CaptureInit == cap = [s \in Sessions |-> NoCapture]

MayStart(s) ==
  /\ cap[s].status \notin {"running", "stop_failed"}
  /\ SlotFree(s)

(***************************************************************************)
(* start                                                                   *)
(***************************************************************************)
\* The checks before the device lock, and the port the OS hands out.
StartRequest(a, s) ==
  /\ pc[a] = "idle" /\ MayStart(s) /\ s \in captured
  /\ \E p \in FreePorts :
       frame' = [frame EXCEPT ![a] = [IdleFrame EXCEPT !.job = "start", !.port = p]]
  /\ on' = [on EXCEPT ![a] = s]
  /\ Goto(a, "startLock") /\ NoFault
  /\ UNCHANGED <<lock, cap, sessionVars, deviceVars>>

\* Mutation: what was checked before waiting for the lock is not checked again.
StartLockUnchecked(a) ==
  /\ pc[a] = "startLock" /\ lock = NoActor
  /\ reverse[frame[a].port] # "other"
  /\ lock' = a
  /\ frame' = [frame EXCEPT ![a].adopt = reverse[frame[a].port] = "own"]
  /\ Goto(a, "spawn") /\ NoFault
  /\ UNCHANGED <<on, cap, sessionVars, deviceVars>>

\* Everything is checked again under the lock; the mapping may be there already.
StartLock(a) ==
  /\ pc[a] = "startLock" /\ lock = NoActor
  /\ MayStart(on[a])
  /\ reverse[frame[a].port] # "other"
  /\ lock' = a
  /\ frame' = [frame EXCEPT ![a].adopt = reverse[frame[a].port] = "own"]
  /\ Goto(a, "spawn") /\ NoFault
  /\ UNCHANGED <<on, cap, sessionVars, deviceVars>>

\* DeviceBusyError, a check that fails, a device that is not authorized.
StartRefused(a) ==
  /\ pc[a] = "startLock"
  /\ Return(a) /\ NoFault
  /\ UNCHANGED <<cap, sessionVars, deviceVars>>

StartSpawn(a) ==
  /\ pc[a] = "spawn"
  /\ Spawn(frame[a].port)
  /\ frame' = [frame EXCEPT ![a].proc = spawned + 1]
  /\ Goto(a, "recordProcess") /\ Keep(a) /\ NoFault
  /\ UNCHANGED <<cap, sessionVars>>

\* mitmdump does not start or does not listen: nothing is left of it.
StartSpawnFails(a) ==
  /\ pc[a] = "spawn"
  /\ Return(a) /\ (Fault \/ (spawned = MaxSpawns /\ NoFault))
  /\ UNCHANGED <<cap, sessionVars, deviceVars>>

\* record_cleanup_action and the id kept for the rollback; when the event log
\* cannot be appended the action is in the ledger but its id is not kept.
StartRecord(a, kind, prev, from, to) ==
  /\ pc[a] = from
  /\ RecordAction(on[a], [kind |-> kind, port |-> frame[a].port, prev |-> prev,
                          proc |-> frame[a].proc])
  /\ \/ /\ frame' = [frame EXCEPT ![a].ids[kind] = Len(ledger[on[a]]) + 1]
        /\ Goto(a, to) /\ NoFault
     \/ Fault /\ Goto(a, "rollback") /\ UNCHANGED frame
  /\ Keep(a)
  /\ UNCHANGED <<cap, deviceVars>>

StartRecordProcess(a) ==
  StartRecord(a, "process", NoProxy, "recordProcess",
              IF frame[a].adopt THEN "readProxy" ELSE "recordReverse")
StartRecordReverse(a) ==
  StartRecord(a, "reverse", NoProxy, "recordReverse", "addReverse")
StartRecordProxy(a) ==
  StartRecord(a, "proxy", frame[a].prev, "recordProxy", "putProxy")

\* A change of the device; when the call fails it may have had its effect.
StartChanged(a, kind, to) ==
  /\ frame' = [frame EXCEPT ![a].made = @ \cup {kind}]
  /\ Goto(a, to) /\ NoFault

StartAddReverse(a) ==
  /\ pc[a] = "addReverse"
  /\ \/ SetReverse(frame[a].port, "own", TRUE) /\ StartChanged(a, "reverse", "readProxy")
     \/ /\ \E took \in BOOLEAN : SetReverse(frame[a].port, "own", took)
        /\ Fault /\ Goto(a, "rollback") /\ UNCHANGED frame
  /\ Keep(a)
  /\ UNCHANGED <<cap, sessionVars>>

\* Mutation: the proxy is set without an action that gives it back.
StartReadProxyUnrecorded(a) ==
  /\ pc[a] = "readProxy"
  /\ frame' = [frame EXCEPT ![a].prev = proxy]
  /\ Goto(a, IF proxy = frame[a].port THEN "running" ELSE "putProxy")
  /\ Keep(a) /\ NoFault
  /\ UNCHANGED <<cap, sessionVars, deviceVars>>

StartReadProxy(a) ==
  /\ pc[a] = "readProxy"
  /\ frame' = [frame EXCEPT ![a].prev = proxy]
  /\ Goto(a, IF proxy = frame[a].port THEN "running" ELSE "recordProxy")
  /\ Keep(a) /\ NoFault
  /\ UNCHANGED <<cap, sessionVars, deviceVars>>

\* Mutation: a failure is reported without a rollback.
StartPutProxyNoRollback(a) ==
  /\ pc[a] = "putProxy"
  /\ \/ PutSetting(frame[a].port, TRUE) /\ StartChanged(a, "proxy", "running") /\ Keep(a)
     \/ /\ \E took \in BOOLEAN : PutSetting(frame[a].port, took)
        /\ Fault /\ Return(a)
  /\ UNCHANGED <<cap, sessionVars>>

StartPutProxy(a) ==
  /\ pc[a] = "putProxy"
  /\ \/ PutSetting(frame[a].port, TRUE) /\ StartChanged(a, "proxy", "running")
     \/ /\ \E took \in BOOLEAN : PutSetting(frame[a].port, took)
        /\ Fault /\ Goto(a, "rollback") /\ UNCHANGED frame
  /\ Keep(a)
  /\ UNCHANGED <<cap, sessionVars>>

\* The application is launched and state.json is written, then the event log;
\* if that raises, what was started is rolled back and state.json stays.
StartRunning(a) ==
  /\ pc[a] = "running"
  /\ cap' = [cap EXCEPT ![on[a]] = [status |-> "running", ids |-> frame[a].ids,
                                    made |-> frame[a].made, evidence |-> FALSE]]
  /\ \/ Return(a) /\ NoFault
     \/ Fault /\ Goto(a, "rollback") /\ Keep(a) /\ UNCHANGED frame
  /\ UNCHANGED <<sessionVars, deviceVars>>

\* A call of the try block raises before it has an effect.
StartRaises(a) ==
  /\ pc[a] \in {"recordProcess", "recordReverse", "readProxy", "recordProxy", "running"}
  /\ Fault /\ Goto(a, "rollback") /\ Keep(a)
  /\ UNCHANGED <<frame, cap, sessionVars, deviceVars>>

\* Nothing was recorded yet: the except block only terminates mitmdump, once, and
\* whatever comes of it the start is over.
StartDropProcess(a) ==
  /\ pc[a] = "rollback" /\ Recorded(a) = {}
  /\ \/ Terminate(frame[a].proc) /\ NoFault
     \/ UNCHANGED deviceVars /\ Spare(frame[a].proc)
  /\ Return(a)
  /\ UNCHANGED <<cap, sessionVars>>

(***************************************************************************)
(* stop, on its own or inside CleanupService.cleanup                       *)
(***************************************************************************)
StopRequest(a, s) ==
  /\ pc[a] = "idle" /\ cap[s].status \in {"running", "stop_failed"}
  /\ frame' = [frame EXCEPT ![a] = [IdleFrame EXCEPT !.job = "stop"]]
  /\ on' = [on EXCEPT ![a] = s]
  /\ Goto(a, "stopLock") /\ NoFault
  /\ UNCHANGED <<lock, cap, sessionVars, deviceVars>>

\* Busy, or another actor has stopped the capture meanwhile.
StopRefused(a) ==
  /\ pc[a] = "stopLock"
  /\ lock # NoActor \/ cap[on[a]].status = "stopped"
  /\ Return(a) /\ NoFault
  /\ UNCHANGED <<cap, sessionVars, deviceVars>>

StopLock(a) ==
  /\ pc[a] = "stopLock" /\ lock = NoActor /\ cap[on[a]].status # "stopped"
  /\ lock' = a
  /\ Goto(a, "stop") /\ NoFault
  /\ UNCHANGED <<on, frame, cap, sessionVars, deviceVars>>

\* Whatever the ledger says of them: stop does not look at their status.
StopBegin(a) ==
  LET c == cap[on[a]]
      I == {c.ids["process"]} \cup {c.ids[k] : k \in c.made} IN
  /\ pc[a] = "stop"
  /\ frame' = [frame EXCEPT ![a].phase = "stop", ![a].registered = c.evidence, ![a].todo = I]
  /\ Goto(a, "next") /\ Keep(a)
  /\ Trespassing(a, I) /\ UNCHANGED <<faults, crashes, spared>>
  /\ UNCHANGED <<cap, sessionVars, deviceVars>>

\* Evidence files are registered unless they were; a failure is one more error.
StopEvidence(a) ==
  /\ pc[a] = "evidence"
  /\ \/ NoFault /\ frame' = [frame EXCEPT ![a].registered = TRUE]
     \/ /\ ~frame[a].registered /\ Fault
        /\ frame' = [frame EXCEPT ![a].errors = TRUE]
  /\ Goto(a, "stopped") /\ Keep(a)
  /\ UNCHANGED <<cap, sessionVars, deviceVars>>

\* The end of stop: back to the caller, or on to the cleanup that called it.
StopReturns(a) ==
  IF frame[a].job = "cleanup"
  THEN /\ frame' = [frame EXCEPT ![a] = [IdleFrame EXCEPT !.job = "cleanup"]]
       /\ Goto(a, "cleanup") /\ Keep(a)
  ELSE Return(a)

\* Mutation: the session goes on whether or not everything was given back.
StopPersistAnyway(a) ==
  /\ pc[a] = "stopped"
  /\ cap' = [cap EXCEPT
       ![on[a]].status = IF frame[a].errors THEN "stop_failed" ELSE "stopped",
       ![on[a]].evidence = frame[a].registered]
  /\ Goto(a, "activate") /\ Keep(a) /\ UNCHANGED frame
  /\ NoFault
  /\ UNCHANGED <<sessionVars, deviceVars>>

\* state.json gets the outcome; only without errors does the session go back
\* to ACTIVE, in a write of its own.
StopPersist(a) ==
  /\ pc[a] = "stopped"
  /\ cap' = [cap EXCEPT
       ![on[a]].status = IF frame[a].errors THEN "stop_failed" ELSE "stopped",
       ![on[a]].evidence = frame[a].registered]
  /\ IF frame[a].errors THEN StopReturns(a)
     ELSE Goto(a, "activate") /\ Keep(a) /\ UNCHANGED frame
  /\ NoFault
  /\ UNCHANGED <<sessionVars, deviceVars>>

\* The ledger, state.json or the session cannot be written: stop raises, and a
\* cleanup that called it goes on.
StopRaises(a) ==
  /\ pc[a] \in {"mark", "stopped", "activate"} /\ frame[a].phase = "stop"
  /\ Fault /\ StopReturns(a)
  /\ UNCHANGED <<cap, sessionVars, deviceVars>>

StopActivate(a) ==
  /\ pc[a] = "activate"
  /\ SetStatus(on[a], "active")
  /\ StopReturns(a) /\ NoFault
  /\ UNCHANGED <<cap, deviceVars>>

StartStep(a) ==
  \/ StartLock(a) \/ StartRefused(a) \/ StartSpawn(a) \/ StartSpawnFails(a)
  \/ StartRecordProcess(a) \/ StartRecordReverse(a) \/ StartAddReverse(a)
  \/ StartReadProxy(a) \/ StartRecordProxy(a) \/ StartPutProxy(a)
  \/ StartRunning(a) \/ StartRaises(a) \/ StartDropProcess(a)

StopStep(a) ==
  \/ StopRefused(a) \/ StopLock(a) \/ StopBegin(a)
  \/ StopEvidence(a) \/ StopPersist(a) \/ StopRaises(a) \/ StopActivate(a)
=============================================================================
