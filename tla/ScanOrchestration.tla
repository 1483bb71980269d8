------------------------- MODULE ScanOrchestration --------------------------
(***************************************************************************)
(* Scans (services/scan_service.py) of several sessions of one device by   *)
(* several threads: what a scan holds the device lock for, what it does    *)
(* after it has released the lock, and what happens to it meanwhile.  A    *)
(* capture is started, stopped and cleaned in one step here; its own steps *)
(* are in CaptureWorkflow and FridaObservation.                            *)
(***************************************************************************)
EXTENDS Naturals, FiniteSets

CONSTANTS
  Sessions, Threads,
  NoThread, NoSession,
  MaxScans,      \* bound: scans that begin
  MaxOthers,     \* bound: cleanups, stop requests, starts and stops of captures that others ask for
  MaxMishaps     \* bound: calls that raise or report failure, threads that die

ASSUME ScanAssumption ==
  /\ NoThread \notin Threads /\ NoSession \notin Sessions /\ IsFiniteSet(Threads)
  /\ MaxScans \in Nat /\ MaxOthers \in Nat /\ MaxMishaps \in Nat

VARIABLES
  status,        \* status[s]: SessionStatus of an activated session
  owed,          \* owed[s][r]: what the ledger of s still has to give back
  capture,       \* capture[s][r]: status in the state.json of capture r; idle: none or stopped
  scanJson,      \* scanJson[s]: scan.json
  control,       \* control[s]: runtime-control.json, by the scans begun before it; 0: no file
  deviceLock,    \* the thread inside the device lock
  pc, loc,       \* next step and local variables of each thread
  scans,         \* scans that have begun
  overlap,       \* history: sessions with two scans under way at once
  reopened,      \* history: sessions of which a capture was stopped again since they were cleaned
  others,        \* requests of others so far
  faults, crashes

scanVars == <<status, owed, capture, scanJson, control, deviceLock, pc, loc,
              scans, overlap, reopened, others, faults, crashes>>
world == <<status, owed, capture>>
files == <<scanJson, control>>

Captures == {"traffic", "frida"}
Profiles == {"quick", "full", "none"}
NoScan == [status |-> "none", by |-> 0, profile |-> "none", cleanup |-> "absent"]
ScanFiles == [status : {"none", "running", "completed", "error"}, by : 0..MaxScans,
              profile : Profiles, cleanup : {"absent", "yes", "no"}]

\* n: the number of the scan, 0 before it begins; doc: the scan.json that was
\* read and is written back; clean: whether the cleanup succeeded.
NoLocals == [job |-> "none", s |-> NoSession, profile |-> "none", autonomous |-> FALSE, n |-> 0,
             traffic |-> FALSE, frida |-> FALSE, raised |-> FALSE,
             clean |-> FALSE, doc |-> NoScan]
Locals == [job : {"none", "scan", "failed", "cleanup"}, s : Sessions \cup {NoSession},
           profile : Profiles, autonomous : BOOLEAN, n : 0..MaxScans, traffic : BOOLEAN,
           frida : BOOLEAN, raised : BOOLEAN, clean : BOOLEAN, doc : ScanFiles]

BodyLabels == {"unlink", "writeRunning", "traffic", "frida", "launch", "window", "stopFrida",
               "stopTraffic", "rules", "completed", "report", "unlock"}
ScanLabels == {"idle", "lock", "cleanTake", "cleanEnd", "finRead", "finWrite", "finReport",
               "failRead", "failWrite"} \cup BodyLabels

TypeOK ==
  /\ status \in [Sessions -> {"active", "cleanup_required", "cleaning", "cleaned", "cleanup_failed"}]
  /\ owed \in [Sessions -> [Captures -> {"no", "pending", "failed"}]]
  /\ capture \in [Sessions -> [Captures -> {"idle", "running", "stop_failed"}]]
  /\ scanJson \in [Sessions -> ScanFiles] /\ control \in [Sessions -> 0..MaxScans]
  /\ deviceLock \in Threads \cup {NoThread}
  /\ pc \in [Threads -> ScanLabels] /\ loc \in [Threads -> Locals]
  /\ scans \in 0..MaxScans /\ overlap \subseteq Sessions /\ reopened \subseteq Sessions
  /\ others \in 0..MaxOthers
  /\ faults \in 0..MaxMishaps /\ crashes \in 0..MaxMishaps

Init ==
  /\ status = [s \in Sessions |-> "active"]
  /\ owed = [s \in Sessions |-> [r \in Captures |-> "no"]]
  /\ capture = [s \in Sessions |-> [r \in Captures |-> "idle"]]
  /\ scanJson = [s \in Sessions |-> NoScan] /\ control = [s \in Sessions |-> 0]
  /\ deviceLock = NoThread
  /\ pc = [t \in Threads |-> "idle"] /\ loc = [t \in Threads |-> NoLocals]
  /\ scans = 0 /\ overlap = {} /\ reopened = {} /\ others = 0 /\ faults = 0 /\ crashes = 0

Mishap == faults + crashes < MaxMishaps
Fault == Mishap /\ faults' = faults + 1 /\ UNCHANGED <<others, crashes>>
NoFault == UNCHANGED <<others, faults, crashes>>
Other == others < MaxOthers /\ others' = others + 1 /\ UNCHANGED <<faults, crashes>>

To(t, label) == pc' = [pc EXCEPT ![t] = label]
Return(t) == To(t, "idle") /\ loc' = [loc EXCEPT ![t] = NoLocals]
Release(t) == deviceLock' = IF deviceLock = t THEN NoThread ELSE deviceLock

(***************************************************************************)
(* Captures and cleanup of a session, as the scan sees them.               *)
(***************************************************************************)
Owes(s) == \E r \in Captures : owed[s][r] # "no"

SlotFree(s) ==
  /\ status[s] \in {"active", "cleanup_required"}
  /\ \A r \in Captures : owed[s][r] # "failed"
  /\ \A x \in Sessions \ {s} : status[x] # "cleaned" => ~Owes(x)

MayStart(s, r) == SlotFree(s) /\ capture[s][r] \notin {"running", "stop_failed"}

Started(s, r) ==
  /\ MayStart(s, r)
  /\ capture' = [capture EXCEPT ![s][r] = "running"]
  /\ owed' = [owed EXCEPT ![s][r] = "pending"]
  /\ status' = [status EXCEPT ![s] = "cleanup_required"]

\* A start that raises has been rolled back, or its rollback failed.
StartFailed(s, r) ==
  \/ UNCHANGED world /\ NoFault
  \/ /\ MayStart(s, r) /\ Fault
     /\ owed' = [owed EXCEPT ![s][r] = "failed"]
     /\ status' = [status EXCEPT ![s] = "cleanup_required"]
     /\ UNCHANGED capture

Stopped(s, r) ==
  /\ capture' = [capture EXCEPT ![s][r] = "idle"]
  /\ owed' = [owed EXCEPT ![s][r] = "no"]
  /\ status' = [status EXCEPT ![s] = "active"]

\* A stop that raises leaves the capture running, one that fails says so.  It
\* may fail over the evidence, with everything given back, and a termination
\* that raises marks an action as failed that had been settled before.
StopFailed(s, r) ==
  /\ capture' \in {[capture EXCEPT ![s][r] = c] : c \in {"running", "stop_failed"}}
  /\ owed' \in {[owed EXCEPT ![s][r] = o] :
                  o \in IF owed[s][r] = "no" THEN {"no", "failed"} ELSE {"no", "pending", "failed"}}
  /\ UNCHANGED status

\* CleanupService.cleanup: captures that run are stopped, to become one of
\* "ends", and the ledger is settled, also when a stop raised or failed.
StopRunning(s, ends) ==
  \E end \in [Captures -> ends] :
    capture' = [capture EXCEPT ![s] = [r \in Captures |-> IF @[r] = "running" THEN end[r] ELSE @[r]]]

CleanedUp(s, ends) ==
  /\ StopRunning(s, ends)
  /\ owed' = [owed EXCEPT ![s] = [r \in Captures |-> "no"]]
  /\ status' = [status EXCEPT ![s] = "cleaned"]

CleanupLeft(s) ==
  /\ StopRunning(s, {"idle", "running", "stop_failed"})
  /\ \E left \in SUBSET {r \in Captures : owed[s][r] # "no" \/ capture[s][r] = "running"} :
       /\ left # {}
       /\ owed' = [owed EXCEPT ![s] = [r \in Captures |-> IF r \in left THEN "failed" ELSE "no"]]
  /\ status' = [status EXCEPT ![s] = "cleanup_failed"]

\* A stop, by itself or in a later cleanup that fails, of a cleaned session.
Reopened(s) == reopened' = IF status[s] = "cleaned" THEN reopened \cup {s} ELSE reopened

(***************************************************************************)
(* scan_session: requests and the device lock                              *)
(***************************************************************************)
Call(job, s) == [NoLocals EXCEPT !.job = job, !.s = s]
Scanning(s) == {t \in Threads : loc[t].job \in {"scan", "failed"} /\ loc[t].s = s}

Request(t, s, profile, autonomous) ==
  /\ pc[t] = "idle" /\ SlotFree(s)
  /\ scans + Cardinality({x \in Threads : pc[x] \in {"lock", "unlink"}}) < MaxScans
  /\ loc' = [loc EXCEPT ![t] = [Call("scan", s) EXCEPT !.profile = profile, !.autonomous = autonomous]]
  /\ To(t, "lock")
  /\ overlap' = IF Scanning(s) = {} THEN overlap ELSE overlap \cup {s}
  /\ NoFault /\ UNCHANGED <<world, files, deviceLock, scans, reopened>>

\* Mutation: the slot is not checked again under the lock.
LockUnchecked(t) ==
  /\ pc[t] = "lock" /\ deviceLock = NoThread
  /\ deviceLock' = t /\ To(t, "unlink")
  /\ NoFault /\ UNCHANGED <<world, files, loc, scans, overlap, reopened>>

Lock(t) ==
  /\ pc[t] = "lock" /\ deviceLock = NoThread /\ SlotFree(loc[t].s)
  /\ deviceLock' = t /\ To(t, "unlink")
  /\ NoFault /\ UNCHANGED <<world, files, loc, scans, overlap, reopened>>

\* A scan of the full profile that ends with an exception is finalised.
Failed(t) ==
  IF loc[t].profile = "full"
  THEN loc' = [loc EXCEPT ![t] = Call("failed", loc[t].s)] /\ To(t, "failRead")
  ELSE Return(t)

Finalise(t) == loc' = [loc EXCEPT ![t] = Call("scan", loc[t].s)] /\ To(t, "cleanTake")

\* The device is busy or the slot is taken: handled like any other exception.
Refused(t) ==
  /\ pc[t] = "lock" /\ (deviceLock # NoThread \/ ~SlotFree(loc[t].s))
  /\ Failed(t)
  /\ NoFault /\ UNCHANGED <<world, files, deviceLock, scans, overlap, reopened>>

(***************************************************************************)
(* _scan_session_locked                                                    *)
(***************************************************************************)
Body == <<deviceLock, overlap, reopened>>

Unlink(t) ==
  /\ pc[t] = "unlink"
  /\ control' = [control EXCEPT ![loc[t].s] = 0]
  /\ scans' = scans + 1 /\ loc' = [loc EXCEPT ![t].n = scans + 1]
  /\ To(t, "writeRunning")
  /\ NoFault /\ UNCHANGED <<world, scanJson, Body>>

WriteScan(t, state) ==
  scanJson' = [scanJson EXCEPT ![loc[t].s] =
    [status |-> state, by |-> loc[t].n, profile |-> loc[t].profile, cleanup |-> "absent"]]

WriteRunning(t) ==
  /\ pc[t] = "writeRunning"
  /\ WriteScan(t, "running")
  /\ To(t, IF loc[t].profile = "full" THEN "traffic" ELSE "launch")
  /\ NoFault /\ UNCHANGED <<world, control, loc, scans, Body>>

StartTraffic(t) ==
  /\ pc[t] = "traffic"
  /\ \/ Started(loc[t].s, "traffic") /\ loc' = [loc EXCEPT ![t].traffic = TRUE] /\ NoFault
     \/ StartFailed(loc[t].s, "traffic") /\ UNCHANGED loc
  /\ To(t, "frida") /\ UNCHANGED <<files, scans, Body>>

\* Mutation: a spawned app is not held to the traffic guard.
StartFridaUnguarded(t) ==
  /\ pc[t] = "frida"
  /\ \/ Started(loc[t].s, "frida") /\ loc' = [loc EXCEPT ![t].frida = TRUE] /\ NoFault
     \/ StartFailed(loc[t].s, "frida") /\ UNCHANGED loc
  /\ To(t, "launch") /\ UNCHANGED <<files, scans, Body>>

\* An autonomous scan whose traffic guard did not start does not spawn the app.
Guarded(t) == loc[t].autonomous => loc[t].traffic

StartFrida(t) ==
  /\ pc[t] = "frida"
  /\ \/ /\ Guarded(t) /\ Started(loc[t].s, "frida")
        /\ loc' = [loc EXCEPT ![t].frida = TRUE] /\ NoFault
     \/ Guarded(t) /\ StartFailed(loc[t].s, "frida") /\ UNCHANGED loc
     \/ ~Guarded(t) /\ UNCHANGED <<world, loc>> /\ NoFault
  /\ To(t, "launch") /\ UNCHANGED <<files, scans, Body>>

\* Frida spawns the app; otherwise it is launched, under the same guard.  With
\* no app and no capture there is no runtime window.
Launch(t) ==
  /\ pc[t] = "launch"
  /\ \/ (loc[t].frida \/ loc[t].traffic \/ Guarded(t)) /\ To(t, "window")
     \/ ~loc[t].frida /\ ~loc[t].traffic /\ To(t, "stopFrida")
  /\ NoFault /\ UNCHANGED <<world, files, loc, scans, Body>>

\* The wait, or the exploration, ends after its time or when it sees a request
\* in runtime-control.json.
EndWindow(t) ==
  /\ pc[t] = "window" /\ To(t, "stopFrida")
  /\ NoFault /\ UNCHANGED <<world, files, loc, scans, Body>>

\* finally: what was started is stopped, whatever the stop answers.
StopOne(t, r, on, to) ==
  /\ \/ ~on /\ UNCHANGED world /\ NoFault
     \/ on /\ Stopped(loc[t].s, r) /\ NoFault
     \/ on /\ StopFailed(loc[t].s, r) /\ Fault
  /\ To(t, to) /\ UNCHANGED <<files, loc, scans, Body>>

StopFrida(t) == pc[t] = "stopFrida" /\ StopOne(t, "frida", loc[t].frida, "stopTraffic")
StopTraffic(t) ==
  pc[t] = "stopTraffic" /\ StopOne(t, "traffic", loc[t].traffic, IF loc[t].raised THEN "unlock" ELSE "rules")

WriteRules(t) ==
  /\ pc[t] = "rules" /\ WriteScan(t, "running") /\ To(t, "completed")
  /\ NoFault /\ UNCHANGED <<world, control, loc, scans, Body>>

\* After the rules have been evaluated; written once more after the report.
WriteCompleted(t) ==
  /\ pc[t] = "completed" /\ WriteScan(t, "completed") /\ To(t, "report")
  /\ NoFault /\ UNCHANGED <<world, control, loc, scans, Body>>

Report(t) ==
  /\ pc[t] = "report"
  /\ \/ WriteScan(t, "completed") /\ UNCHANGED loc /\ NoFault
     \/ WriteScan(t, "error") /\ loc' = [loc EXCEPT ![t].raised = TRUE] /\ Fault
  /\ To(t, "unlock") /\ UNCHANGED <<world, control, scans, Body>>

\* An exception, of the code or from outside (Ctrl+C); the finally clause is
\* around the captures and the window.
Raise(t) ==
  /\ pc[t] \in {"unlink", "writeRunning", "traffic", "frida", "launch", "window",
                "rules", "completed", "report"}
  /\ loc' = [loc EXCEPT ![t].raised = TRUE]
  /\ To(t, IF pc[t] \in {"traffic", "frida", "launch", "window"} THEN "stopFrida" ELSE "unlock")
  /\ Fault /\ UNCHANGED <<world, files, scans, Body>>

\* The device lock is released before the captures' ledger is cleaned.
Unlock(t) ==
  /\ pc[t] = "unlock" /\ Release(t)
  /\ IF loc[t].raised THEN Failed(t)
     ELSE IF loc[t].profile = "full" THEN Finalise(t) ELSE Return(t)
  /\ NoFault /\ UNCHANGED <<world, files, scans, overlap, reopened>>

(***************************************************************************)
(* _finalize_full_assessment, _finalize_failed_full_assessment, and a      *)
(* cleanup that somebody asked for                                         *)
(***************************************************************************)
AfterCleanup(t) == CASE loc[t].job = "scan" -> "finRead" [] loc[t].job = "failed" -> "failWrite"
                     [] OTHER -> "idle"
\* What a cleanup reports is kept by the finalisations only.
Cleaned(t, ok) ==
  /\ To(t, AfterCleanup(t))
  /\ loc' = [loc EXCEPT ![t] = IF loc[t].job = "cleanup" THEN NoLocals ELSE [@ EXCEPT !.clean = ok]]

FailRead(t) ==
  /\ pc[t] = "failRead"
  /\ loc' = [loc EXCEPT ![t].doc = scanJson[loc[t].s]] /\ To(t, "cleanTake")
  /\ NoFault /\ UNCHANGED <<world, files, deviceLock, scans, overlap, reopened>>

CallCleanup(t, s) ==
  /\ pc[t] = "idle"
  /\ loc' = [loc EXCEPT ![t] = Call("cleanup", s)] /\ To(t, "cleanTake")
  /\ Other /\ UNCHANGED <<world, files, deviceLock, scans, overlap, reopened>>

CleanTake(t) ==
  LET s == loc[t].s IN
  /\ pc[t] = "cleanTake"
  /\ \/ /\ deviceLock = NoThread /\ deviceLock' = t
        /\ status' = [status EXCEPT ![s] = IF @ = "cleaned" /\ ~Owes(s) THEN @ ELSE "cleaning"]
        /\ To(t, "cleanEnd") /\ UNCHANGED loc
     \/ deviceLock # NoThread /\ Cleaned(t, FALSE) /\ UNCHANGED <<deviceLock, status>>
  /\ NoFault /\ UNCHANGED <<owed, capture, files, scans, overlap, reopened>>

\* Mutation: a cleanup that left something counts as done.
CleanEndRegardless(t) ==
  /\ pc[t] = "cleanEnd" /\ Release(t)
  /\ \/ CleanedUp(loc[t].s, {"idle"}) /\ NoFault
     \/ CleanupLeft(loc[t].s) /\ Fault
  /\ Cleaned(t, TRUE) /\ reopened' = reopened \ {loc[t].s} /\ UNCHANGED <<files, scans, overlap>>

CleanEnd(t) ==
  /\ pc[t] = "cleanEnd" /\ Release(t)
  /\ \/ /\ \/ CleanedUp(loc[t].s, {"idle"}) /\ NoFault
           \/ CleanedUp(loc[t].s, {"idle", "running", "stop_failed"}) /\ Fault
        /\ Cleaned(t, TRUE) /\ reopened' = reopened \ {loc[t].s}
     \/ CleanupLeft(loc[t].s) /\ Fault /\ Cleaned(t, FALSE) /\ Reopened(loc[t].s)
  /\ UNCHANGED <<files, scans, overlap>>

FinRead(t) ==
  /\ pc[t] = "finRead"
  /\ loc' = [loc EXCEPT ![t].doc = scanJson[loc[t].s]] /\ To(t, "finWrite")
  /\ NoFault /\ UNCHANGED <<world, files, deviceLock, scans, overlap, reopened>>

CleanupField(t) == IF loc[t].clean THEN "yes" ELSE "no"

\* The document that was read is changed and written back.
FinWrite(t) ==
  /\ pc[t] = "finWrite"
  /\ scanJson' = [scanJson EXCEPT ![loc[t].s] = [loc[t].doc EXCEPT !.cleanup = CleanupField(t)]]
  /\ To(t, "finReport") /\ NoFault /\ UNCHANGED <<world, control, loc, deviceLock, scans, overlap, reopened>>

\* and, after the report was made or not, once more.
FinReport(t) ==
  /\ pc[t] = "finReport"
  /\ scanJson' = [scanJson EXCEPT ![loc[t].s] = [loc[t].doc EXCEPT !.cleanup = CleanupField(t)]]
  /\ Return(t) /\ NoFault /\ UNCHANGED <<world, control, deviceLock, scans, overlap, reopened>>

FailWrite(t) ==
  /\ pc[t] = "failWrite"
  /\ scanJson' = [scanJson EXCEPT ![loc[t].s] =
       [loc[t].doc EXCEPT !.status = "error", !.cleanup = CleanupField(t)]]
  /\ Return(t) /\ NoFault /\ UNCHANGED <<world, control, deviceLock, scans, overlap, reopened>>

\* Reading or writing scan.json fails: the finalisation ends there.
FinalisationRaises(t) ==
  /\ pc[t] \in {"failRead", "failWrite", "finRead", "finWrite", "finReport"}
  /\ Return(t) /\ Fault /\ UNCHANGED <<world, files, deviceLock, scans, overlap, reopened>>

(***************************************************************************)
(* Other requests                                                          *)
(***************************************************************************)
\* request_runtime_stop, for a session whose scan.json has the full profile.
RequestStop(s) ==
  /\ scanJson[s].profile = "full"
  /\ control' = [control EXCEPT ![s] = scans]
  /\ Other /\ UNCHANGED <<world, scanJson, deviceLock, pc, loc, scans, overlap, reopened>>

\* A capture that is started on its own, under the device lock.
UserCapture(s) ==
  /\ deviceLock = NoThread /\ Started(s, "traffic")
  /\ Other /\ UNCHANGED <<files, deviceLock, pc, loc, scans, overlap, reopened>>

\* A capture that runs, or whose stop has failed, is stopped on its own under the
\* device lock, whatever the session's status.
UserStop(s, r) ==
  /\ deviceLock = NoThread /\ capture[s][r] # "idle"
  /\ Stopped(s, r) \/ StopFailed(s, r)
  /\ Reopened(s)
  /\ Other /\ UNCHANGED <<files, deviceLock, pc, loc, scans, overlap>>

\* The process of a thread dies: its lock is free, a start that was under way
\* leaves what it had recorded.
Crash(t) ==
  /\ pc[t] # "idle" /\ Mishap
  /\ crashes' = crashes + 1 /\ UNCHANGED <<others, faults>>
  /\ Return(t) /\ Release(t)
  /\ \/ UNCHANGED <<owed, status>>
     \/ /\ pc[t] \in Captures /\ MayStart(loc[t].s, pc[t])
        /\ owed' = [owed EXCEPT ![loc[t].s][pc[t]] = "pending"]
        /\ status' = [status EXCEPT ![loc[t].s] = "cleanup_required"]
  /\ UNCHANGED <<capture, files, scans, overlap, reopened>>

ScanStep(t) ==
  \/ Lock(t) \/ Refused(t)
  \/ Unlink(t) \/ WriteRunning(t) \/ StartTraffic(t) \/ StartFrida(t) \/ Launch(t) \/ EndWindow(t)
  \/ StopFrida(t) \/ StopTraffic(t) \/ WriteRules(t) \/ WriteCompleted(t) \/ Report(t)
  \/ Raise(t) \/ Unlock(t)
FinalisationStep(t) ==
  \/ FailRead(t) \/ CleanTake(t) \/ CleanEnd(t) \/ FinRead(t) \/ FinWrite(t) \/ FinReport(t)
  \/ FailWrite(t) \/ FinalisationRaises(t)
ThreadStep(t) == ScanStep(t) \/ FinalisationStep(t)

Next ==
  \/ \E t \in Threads :
       \/ \E s \in Sessions :
            \/ Request(t, s, "quick", FALSE)
            \/ \E a \in BOOLEAN : Request(t, s, "full", a)
            \/ CallCleanup(t, s)
       \/ ThreadStep(t)
       \/ Crash(t)
  \/ \E s \in Sessions : RequestStop(s) \/ UserCapture(s) \/ \E r \in Captures : UserStop(s, r)

Spec == Init /\ [][Next]_scanVars

(***************************************************************************)
(* Properties                                                              *)
(***************************************************************************)
\* While a scan is under the device lock no other session owes anything to the
\* device, although captures and other scans come in between its request and
\* its lock, and between its unlock and its cleanup.  A cleaned session is not
\* asked: it owes something only when a later stop of one of its captures failed.
ScanOwnsDevice ==
  \A t \in Threads : pc[t] \in BodyLabels =>
    \A x \in Sessions \ {loc[t].s} : Owes(x) => status[x] = "cleaned" /\ x \in reopened

\* The app of an autonomous scan runs only behind the capture of that scan: in
\* the window its traffic capture is running, whatever others do meanwhile.
GuardedExploration ==
  \A t \in Threads : pc[t] = "window" /\ loc[t].autonomous => capture[loc[t].s]["traffic"] = "running"

\* A scan.json that reports a successful cleanup is right: the session owes
\* nothing, although the document was read before and written after others'
\* steps.  It goes stale in one way: a capture of the cleaned session is stopped
\* again, by itself or in a later cleanup, which makes the session active again
\* or leaves it with a debt.
CleanReportTruthful ==
  \A s \in Sessions :
    scanJson[s].cleanup = "yes" => s \in reopened \/ (~Owes(s) /\ status[s] = "cleaned")

Reported(t) ==
  pc[t] \in {"traffic", "frida", "launch", "window", "stopFrida", "stopTraffic", "rules", "completed"} =>
    scanJson[loc[t].s].status = "running" /\ scanJson[loc[t].s].by = loc[t].n

\* From the first to the last write of a scan under the lock, scan.json says that
\* it is running and is that scan's, for sessions of which two scans were never
\* under way at once: one that is refused the device writes its error there too.
LoneScanReported == \A t \in Threads : loc[t].s \notin overlap => Reported(t)

\* Nothing goes on and scan.json still says running: then the scan was a quick
\* one, its process died, or its finalisation failed as well.
StaleRunningHasCause ==
  \A s \in Sessions \ overlap :
    scanJson[s].status = "running" /\ Scanning(s) = {} /\ crashes = 0 =>
      faults >= (IF scanJson[s].profile = "quick" THEN 1 ELSE 2)

\* A stop request that a scan can see in its window was made after it had begun.
StopsItsScan ==
  \A t \in Threads : pc[t] = "window" /\ control[loc[t].s] # 0 => control[loc[t].s] >= loc[t].n

\* scan.json and runtime-control.json tell the truth about the scan that runs, its
\* end, its cleanup and the request to stop it.
FilesTruthful ==
  TypeOK /\ CleanReportTruthful /\ LoneScanReported /\ StaleRunningHasCause /\ StopsItsScan
=============================================================================
