---------------------- MODULE ScanOrchestration_proofs ----------------------
(***************************************************************************)
(* For every set of sessions and threads and all bounds: what a scan holds *)
(* the device lock for, and what scan.json and runtime-control.json say of *)
(* scans, their end, their cleanup and the request to stop them.           *)
(***************************************************************************)
EXTENDS ScanOrchestration, FiniteSetTheorems, TLAPS

(***************************************************************************)
(* The inductive invariant                                                 *)
(***************************************************************************)
Waiting == {x \in Threads : pc[x] \in {"lock", "unlink"}}
Finishing == {"finRead", "finWrite", "finReport"}
Failing == {"failRead", "failWrite"}
Inside == BodyLabels \cup {"cleanEnd"}

\* The bounds count what is under way, too.
Bounded == scans + Cardinality(Waiting) <= MaxScans /\ faults + crashes <= MaxMishaps

\* A thread that is under the lock has it.
Holds == \A t \in Threads : pc[t] \in Inside => deviceLock = t

\* What a thread is doing, by its next step.
JobOf(t) ==
  /\ pc[t] = "idle" <=> loc[t].job = "none"
  /\ pc[t] # "idle" => loc[t].s \in Sessions
  /\ pc[t] \in BodyLabels \cup {"lock"} => loc[t].job = "scan" /\ loc[t].profile \in {"quick", "full"}
  /\ pc[t] \in Finishing => loc[t].job = "scan"
  /\ pc[t] \in Failing => loc[t].job = "failed"
JobFits == \A t \in Threads : JobOf(t)

\* What a thread has done, by its next step.
ProgressOf(t) ==
  /\ pc[t] \in {"lock", "unlink", "writeRunning", "traffic"} => ~loc[t].traffic
  /\ pc[t] \in {"lock", "unlink", "writeRunning", "traffic", "frida"} => ~loc[t].frida
  /\ pc[t] \in {"lock"} \cup (BodyLabels \ {"stopFrida", "stopTraffic", "unlock"}) => ~loc[t].raised
Progress == \A t \in Threads : ProgressOf(t)

Shape == TypeOK /\ Bounded /\ Holds /\ JobFits /\ Progress

\* The ledgers: nothing is owed by a cleaned session unless it was reopened, the
\* session of a scan under the lock has not begun to be cleaned, and ScanOwnsDevice.
Ledgers ==
  /\ \A s \in Sessions : status[s] = "cleaned" => ~Owes(s) \/ s \in reopened
  /\ \A t \in Threads : pc[t] \in BodyLabels => status[loc[t].s] \in {"active", "cleanup_required"}
  /\ ScanOwnsDevice

\* The traffic guard, from the start of the capture to the end of the window.
Guards ==
  \A t \in Threads :
    /\ pc[t] \in {"frida", "launch", "window"} /\ loc[t].traffic => capture[loc[t].s]["traffic"] = "running"
    /\ pc[t] \in {"launch", "window"} /\ loc[t].autonomous /\ loc[t].frida => loc[t].traffic
    /\ pc[t] = "window" /\ loc[t].autonomous => loc[t].traffic

\* What a finalisation has seen of the cleanup stays true until it is written,
\* or the session is reopened.
Settled(s) == (status[s] = "cleaned" /\ ~Owes(s)) \/ s \in reopened
CleanClaims ==
  /\ \A s \in Sessions : scanJson[s].cleanup = "yes" => Settled(s)
  /\ \A t \in Threads : loc[t].clean \/ loc[t].doc.cleanup = "yes" => loc[t].s \in Sessions /\ Settled(loc[t].s)

\* Two threads with a scan of the same session have been noted.
Scans(t) == loc[t].job \in {"scan", "failed"}
Overlaps == \A t, x \in Threads : t # x /\ Scans(t) /\ Scans(x) /\ loc[t].s = loc[x].s => loc[t].s \in overlap

\* Why scan.json may say running, by the next step of the scan that is under way.
Cause(s) == faults >= (IF scanJson[s].profile = "quick" THEN 1 ELSE 2)
Running(s) == scanJson[s].status = "running"
ScanExplains(t) ==
  LET s == loc[t].s IN
  /\ pc[t] \in {"lock", "unlink", "writeRunning"} /\ Running(s) => Cause(s)
  /\ pc[t] \in BodyLabels /\ Running(s) => Cause(s) \/ scanJson[s].profile = loc[t].profile
  /\ pc[t] = "report" => ~Running(s)
  /\ pc[t] = "unlock" /\ ~loc[t].raised => ~Running(s)
  /\ loc[t].raised => faults >= 1
  /\ loc[t].job = "failed" /\ Running(s) => Cause(s) \/ faults >= 1
  /\ loc[t].job = "scan" /\ pc[t] \in {"cleanTake", "cleanEnd"} \cup Finishing => ~Running(s)
  /\ pc[t] \in {"finWrite", "finReport"} => loc[t].doc.status # "running"
Explained == crashes = 0 => \A t \in Threads : Scans(t) /\ loc[t].s \notin overlap => ScanExplains(t)

\* A request to stop that is there was made after the scan's own removal of it.
Stops ==
  \A t \in Threads : pc[t] \in BodyLabels \ {"unlink", "unlock"} =>
    loc[t].n <= scans /\ (control[loc[t].s] # 0 => control[loc[t].s] >= loc[t].n)

IInv ==
  /\ Shape /\ Ledgers /\ Guards /\ CleanClaims /\ Overlaps /\ LoneScanReported
  /\ Explained /\ StaleRunningHasCause /\ Stops

(***************************************************************************)
(* Types                                                                   *)
(***************************************************************************)
\* Locals of a thread that begins, and of one that does nothing.
LEMMA EmptyLocals == NoScan \in ScanFiles /\ NoLocals \in Locals
  BY ScanAssumption DEF ScanAssumption, NoScan, ScanFiles, NoLocals, Locals, Profiles

LEMMA CallType ==
  ASSUME NEW job \in {"scan", "failed", "cleanup"}, NEW s \in Sessions
  PROVE  /\ Call(job, s) \in Locals
         /\ Call(job, s).job = job /\ Call(job, s).s = s
         /\ ~Call(job, s).traffic /\ ~Call(job, s).frida /\ ~Call(job, s).raised /\ ~Call(job, s).clean
         /\ Call(job, s).doc = NoScan
  BY EmptyLocals DEF Call, NoLocals, Locals, Profiles

\* Each assignment to one local variable keeps the type of all.
LEMMA LocalsUpdate ==
  ASSUME NEW l \in Locals
  PROVE  /\ \A p \in Profiles, a \in BOOLEAN : [l EXCEPT !.profile = p, !.autonomous = a] \in Locals
         /\ \A n \in 0..MaxScans : [l EXCEPT !.n = n] \in Locals
         /\ [l EXCEPT !.traffic = TRUE] \in Locals
         /\ [l EXCEPT !.frida = TRUE] \in Locals
         /\ [l EXCEPT !.raised = TRUE] \in Locals
         /\ \A ok \in BOOLEAN : [l EXCEPT !.clean = ok] \in Locals
         /\ \A d \in ScanFiles : [l EXCEPT !.doc = d] \in Locals
  BY DEF Locals

\* At most one more thread waits, and none that did not before counts twice.
LEMMA WaitingSteps ==
  ASSUME TypeOK, NEW t \in Threads, NEW label \in ScanLabels, To(t, label)
  PROVE  /\ IsFiniteSet(Waiting) /\ Cardinality(Waiting) \in Nat
         /\ pc[t] \in {"lock", "unlink"} /\ label \in {"lock", "unlink"} => Cardinality(Waiting') = Cardinality(Waiting)
         /\ pc[t] \notin {"lock", "unlink"} /\ label \notin {"lock", "unlink"} => Cardinality(Waiting') = Cardinality(Waiting)
         /\ pc[t] \in {"lock", "unlink"} /\ label \notin {"lock", "unlink"} => Cardinality(Waiting') = Cardinality(Waiting) - 1
         /\ pc[t] \notin {"lock", "unlink"} /\ label \in {"lock", "unlink"} => Cardinality(Waiting') = Cardinality(Waiting) + 1
<1>. DEFINE W == {"lock", "unlink"}
<1>1. IsFiniteSet(Waiting) /\ Cardinality(Waiting) \in Nat
  BY ScanAssumption, FS_Subset, FS_CardinalityType DEF ScanAssumption, Waiting
<1>2. Waiting' = IF label \in W THEN Waiting \cup {t} ELSE Waiting \ {t}
  BY DEF TypeOK, Waiting, To
<1>3. t \in Waiting <=> pc[t] \in W
  BY DEF Waiting
<1>4. CASE label \in W /\ pc[t] \in W
  BY <1>1, <1>2, <1>3, <1>4
<1>5. CASE label \notin W /\ pc[t] \notin W
  BY <1>1, <1>2, <1>3, <1>5
<1>6. CASE label \in W /\ pc[t] \notin W
  BY <1>1, <1>2, <1>3, <1>6, FS_AddElement
<1>7. CASE label \notin W /\ pc[t] \in W
  BY <1>1, <1>2, <1>3, <1>7, FS_RemoveElement
<1>. QED BY <1>1, <1>4, <1>5, <1>6, <1>7

\* What happens to captures and ledgers keeps their types.
WorldOK ==
  /\ status \in [Sessions -> {"active", "cleanup_required", "cleaning", "cleaned", "cleanup_failed"}]
  /\ owed \in [Sessions -> [Captures -> {"no", "pending", "failed"}]]
  /\ capture \in [Sessions -> [Captures -> {"idle", "running", "stop_failed"}]]

LEMMA WorldUpdates ==
  ASSUME WorldOK, NEW s \in Sessions, NEW r \in Captures
  PROVE  /\ \A a \in {"active", "cleanup_required", "cleaning", "cleaned", "cleanup_failed"} :
              [status EXCEPT ![s] = a] \in [Sessions -> {"active", "cleanup_required", "cleaning", "cleaned", "cleanup_failed"}]
         /\ \A o \in {"no", "pending", "failed"} :
              [owed EXCEPT ![s][r] = o] \in [Sessions -> [Captures -> {"no", "pending", "failed"}]]
         /\ \A c \in {"idle", "running", "stop_failed"} :
              [capture EXCEPT ![s][r] = c] \in [Sessions -> [Captures -> {"idle", "running", "stop_failed"}]]
<1>1. \A o \in {"no", "pending", "failed"} : [owed[s] EXCEPT ![r] = o] \in [Captures -> {"no", "pending", "failed"}]
  BY DEF WorldOK
<1>2. \A c \in {"idle", "running", "stop_failed"} :
        [capture[s] EXCEPT ![r] = c] \in [Captures -> {"idle", "running", "stop_failed"}]
  BY DEF WorldOK
<1>. QED BY <1>1, <1>2 DEF WorldOK

LEMMA CaptureTypes ==
  ASSUME WorldOK, NEW s \in Sessions, NEW r \in Captures,
         Started(s, r) \/ StartFailed(s, r) \/ Stopped(s, r) \/ StopFailed(s, r)
  PROVE  WorldOK'
<1>1. CASE Started(s, r)
  BY <1>1, WorldUpdates DEF Started, WorldOK
<1>2. CASE UNCHANGED world
  BY <1>2 DEF WorldOK, world
<1>3. CASE StartFailed(s, r)
  <2>1. CASE /\ owed' = [owed EXCEPT ![s][r] = "failed"] /\ status' = [status EXCEPT ![s] = "cleanup_required"]
             /\ UNCHANGED capture
    BY <2>1, WorldUpdates DEF WorldOK
  <2>. QED BY <1>2, <1>3, <2>1 DEF StartFailed
<1>4. CASE Stopped(s, r)
  BY <1>4, WorldUpdates DEF Stopped, WorldOK
<1>5. CASE StopFailed(s, r)
  <2>1. PICK c \in {"running", "stop_failed"}, o \in {"no", "pending", "failed"} :
          capture' = [capture EXCEPT ![s][r] = c] /\ owed' = [owed EXCEPT ![s][r] = o]
    BY <1>5 DEF StopFailed
  <2>2. UNCHANGED status
    BY <1>5 DEF StopFailed
  <2>. QED BY <2>1, <2>2, WorldUpdates DEF WorldOK
<1>. QED BY <1>1, <1>3, <1>4, <1>5

LEMMA StopRunningType ==
  ASSUME WorldOK, NEW s \in Sessions, NEW ends \in SUBSET {"idle", "running", "stop_failed"}, StopRunning(s, ends)
  PROVE  /\ capture' \in [Sessions -> [Captures -> {"idle", "running", "stop_failed"}]]
         /\ \A x \in Sessions \ {s} : capture'[x] = capture[x]
<1>. DEFINE Kinds == {"idle", "running", "stop_failed"}
<1>1. PICK end \in [Captures -> ends] :
        capture' = [capture EXCEPT ![s] = [r \in Captures |-> IF @[r] = "running" THEN end[r] ELSE @[r]]]
  BY DEF StopRunning
<1>2. [r \in Captures |-> IF capture[s][r] = "running" THEN end[r] ELSE capture[s][r]] \in [Captures -> Kinds]
  BY DEF WorldOK
<1>3. capture' = [capture EXCEPT ![s] = [r \in Captures |-> IF capture[s][r] = "running" THEN end[r] ELSE capture[s][r]]]
  BY <1>1 DEF WorldOK
<1>. QED BY <1>2, <1>3 DEF WorldOK

LEMMA CleanupTypes ==
  ASSUME WorldOK, NEW s \in Sessions,
         (\E ends \in SUBSET {"idle", "running", "stop_failed"} : CleanedUp(s, ends)) \/ CleanupLeft(s)
  PROVE  WorldOK'
<1>1. ASSUME NEW ends \in SUBSET {"idle", "running", "stop_failed"}, CleanedUp(s, ends) PROVE WorldOK'
  BY <1>1, StopRunningType DEF CleanedUp, WorldOK
<1>2. CASE CleanupLeft(s)
  <2>1. PICK left : owed' = [owed EXCEPT ![s] = [r \in Captures |-> IF r \in left THEN "failed" ELSE "no"]]
    BY <1>2 DEF CleanupLeft
  <2>2. owed' \in [Sessions -> [Captures -> {"no", "pending", "failed"}]]
    BY <2>1 DEF WorldOK
  <2>3. StopRunning(s, {"idle", "running", "stop_failed"}) /\ status' = [status EXCEPT ![s] = "cleanup_failed"]
    BY <1>2 DEF CleanupLeft
  <2>. QED BY <2>2, <2>3, StopRunningType DEF WorldOK
<1>. QED BY <1>1, <1>2

FilesOK == scanJson \in [Sessions -> ScanFiles] /\ control \in [Sessions -> 0..MaxScans]
ThreadsOK == deviceLock \in Threads \cup {NoThread} /\ pc \in [Threads -> ScanLabels] /\ loc \in [Threads -> Locals]
BoundsOK ==
  /\ scans \in 0..MaxScans /\ overlap \subseteq Sessions /\ reopened \subseteq Sessions /\ others \in 0..MaxOthers
  /\ faults \in 0..MaxMishaps /\ crashes \in 0..MaxMishaps

LEMMA TypeParts == TypeOK <=> WorldOK /\ FilesOK /\ ThreadsOK /\ BoundsOK
  BY DEF TypeOK, WorldOK, FilesOK, ThreadsOK, BoundsOK

\* What a cleanup that ends has done, and what it says of it.
LEMMA CleanEnds ==
  ASSUME NEW t \in Threads, CleanEnd(t)
  PROVE  /\ CleanupLeft(loc[t].s) \/ \E ends \in SUBSET {"idle", "running", "stop_failed"} : CleanedUp(loc[t].s, ends)
         /\ Cleaned(t, TRUE) \/ Cleaned(t, FALSE)
         /\ \/ reopened' = reopened \ {loc[t].s} /\ \E ends \in SUBSET {"idle", "running", "stop_failed"} : CleanedUp(loc[t].s, ends)
            \/ CleanupLeft(loc[t].s) /\ Cleaned(t, FALSE) /\ Reopened(loc[t].s)
<1>1. ASSUME CleanedUp(loc[t].s, {"idle"}) PROVE \E ends \in SUBSET {"idle", "running", "stop_failed"} : CleanedUp(loc[t].s, ends)
  <2>1. {"idle"} \in SUBSET {"idle", "running", "stop_failed"}
    OBVIOUS
  <2>. QED BY <1>1, <2>1
<1>2. ASSUME CleanedUp(loc[t].s, {"idle", "running", "stop_failed"})
      PROVE  \E ends \in SUBSET {"idle", "running", "stop_failed"} : CleanedUp(loc[t].s, ends)
  BY <1>2
<1>. QED BY <1>1, <1>2 DEF CleanEnd

\* Captures and ledgers keep their types.
LEMMA WorldInv == ASSUME Shape, [Next]_scanVars PROVE WorldOK'
<1>. USE DEF world
<1>t. WorldOK /\ \A t \in Threads : pc[t] # "idle" => loc[t].s \in Sessions
  BY TypeParts DEF Shape, JobFits, JobOf
<1>1. ASSUME NEW t \in Threads, StartTraffic(t) PROVE WorldOK'
  BY <1>1, <1>t, CaptureTypes DEF StartTraffic, Captures
<1>2. ASSUME NEW t \in Threads, StartFrida(t) PROVE WorldOK'
  <2>1. CASE ~Guarded(t)
    BY <1>2, <1>t, <2>1 DEF StartFrida, WorldOK
  <2>. QED BY <1>2, <1>t, <2>1, CaptureTypes DEF StartFrida, Captures
<1>3. ASSUME NEW t \in Threads, NEW r \in Captures, NEW on, NEW to, pc[t] # "idle", StopOne(t, r, on, to) PROVE WorldOK'
  <2>1. CASE UNCHANGED world
    BY <1>t, <2>1 DEF WorldOK
  <2>. QED BY <1>3, <1>t, <2>1, CaptureTypes DEF StopOne
<1>4. ASSUME NEW t \in Threads, CleanEnd(t) PROVE WorldOK'
  <2>1. CleanupLeft(loc[t].s) \/ \E ends \in SUBSET {"idle", "running", "stop_failed"} : CleanedUp(loc[t].s, ends)
    BY <1>4, CleanEnds
  <2>. QED BY <1>4, <1>t, <2>1, CleanupTypes DEF CleanEnd
<1>5. ASSUME NEW t \in Threads, CleanTake(t) PROVE WorldOK'
  <2>1. UNCHANGED <<owed, capture>>
    BY <1>5 DEF CleanTake
  <2>2. UNCHANGED status \/ status' = [status EXCEPT ![loc[t].s] = IF @ = "cleaned" /\ ~Owes(loc[t].s) THEN @ ELSE "cleaning"]
    BY <1>5 DEF CleanTake
  <2>. QED BY <1>t, <2>1, <2>2 DEF WorldOK
<1>6. ASSUME NEW s \in Sessions, UserCapture(s) \/ \E r \in Captures : UserStop(s, r) PROVE WorldOK'
  BY <1>6, <1>t, CaptureTypes DEF UserCapture, UserStop, Captures
<1>7. ASSUME NEW t \in Threads, Crash(t) PROVE WorldOK'
  <2>1. UNCHANGED capture /\ pc[t] # "idle"
    BY <1>7 DEF Crash
  <2>2. CASE UNCHANGED <<owed, status>>
    BY <1>t, <2>1, <2>2 DEF WorldOK
  <2>3. CASE /\ pc[t] \in Captures /\ owed' = [owed EXCEPT ![loc[t].s][pc[t]] = "pending"]
             /\ status' = [status EXCEPT ![loc[t].s] = "cleanup_required"]
    <3>1. owed' \in [Sessions -> [Captures -> {"no", "pending", "failed"}]]
      BY <1>t, <2>1, <2>3, WorldUpdates
    <3>2. status' \in [Sessions -> {"active", "cleanup_required", "cleaning", "cleaned", "cleanup_failed"}]
      BY <1>t, <2>1, <2>3 DEF WorldOK
    <3>. QED BY <1>t, <2>1, <3>1, <3>2 DEF WorldOK
  <2>. QED BY <1>7, <2>2, <2>3 DEF Crash
<1>8. ASSUME NEW t \in Threads, StopFrida(t) \/ StopTraffic(t) PROVE WorldOK'
  BY <1>8, <1>3 DEF StopFrida, StopTraffic, Captures
<1>9. ASSUME UNCHANGED world PROVE WorldOK'
  BY <1>t, <1>9 DEF WorldOK
<1>10. CASE UNCHANGED scanVars
  BY <1>9, <1>10 DEF scanVars
<1>11. ASSUME NEW t \in Threads,
              \/ Lock(t) \/ Refused(t) \/ Unlink(t) \/ WriteRunning(t) \/ Launch(t) \/ EndWindow(t)
              \/ WriteRules(t) \/ WriteCompleted(t) \/ Report(t) \/ Raise(t) \/ Unlock(t)
              \/ FailRead(t) \/ FinRead(t) \/ FinWrite(t) \/ FinReport(t) \/ FailWrite(t) \/ FinalisationRaises(t)
       PROVE  UNCHANGED world
  BY <1>11 DEF Lock, Refused, Unlink, WriteRunning, Launch, EndWindow, WriteRules, WriteCompleted, Report,
               Raise, Unlock, FailRead, FinRead, FinWrite, FinReport, FailWrite, FinalisationRaises
<1>12. ASSUME NEW t \in Threads, NEW s \in Sessions,
              Request(t, s, "quick", FALSE) \/ (\E a \in BOOLEAN : Request(t, s, "full", a)) \/ CallCleanup(t, s) \/ RequestStop(s)
       PROVE  UNCHANGED world
  BY <1>12 DEF Request, CallCleanup, RequestStop
<1>13. ASSUME NEW t \in Threads, ThreadStep(t) PROVE WorldOK'
  BY <1>13, <1>1, <1>2, <1>4, <1>5, <1>8, <1>9, <1>11 DEF ThreadStep, ScanStep, FinalisationStep
<1>14. ASSUME NEW s \in Sessions, RequestStop(s) PROVE UNCHANGED world
  BY <1>14 DEF RequestStop
<1>. QED BY <1>6, <1>7, <1>9, <1>10, <1>12, <1>13, <1>14 DEF Next

(***************************************************************************)
(* What a step does to the thread that takes it                            *)
(***************************************************************************)
Moved(t) ==
  /\ pc' \in [Threads -> ScanLabels] /\ loc' \in [Threads -> Locals]
  /\ \A x \in Threads \ {t} : pc'[x] = pc[x] /\ loc'[x] = loc[x]

Same(l, m) == m.job = l.job /\ m.s = l.s /\ m.profile = l.profile /\ m.autonomous = l.autonomous
Ended(m) == ~m.traffic /\ ~m.frida /\ ~m.raised /\ ~m.clean /\ m.doc = NoScan

LEMMA SetLocals ==
  ASSUME ThreadsOK, NEW t \in Threads, NEW label \in ScanLabels, To(t, label),
         NEW l \in Locals, loc' = [loc EXCEPT ![t] = l]
  PROVE  Moved(t) /\ pc'[t] = label /\ loc'[t] = l
  BY DEF ThreadsOK, To, Moved

LEMMA KeepLocals ==
  ASSUME ThreadsOK, NEW t \in Threads, NEW label \in ScanLabels, To(t, label), UNCHANGED loc
  PROVE  Moved(t) /\ pc'[t] = label /\ loc'[t] = loc[t]
  BY DEF ThreadsOK, To, Moved

Goes(t, label) == Moved(t) /\ pc'[t] = label /\ loc'[t] = loc[t]
Calls(t, label, job, s) ==
  Moved(t) /\ pc'[t] = label /\ loc'[t].job = job /\ loc'[t].s = s /\ Ended(loc'[t])
Returned(t) == Moved(t) /\ pc'[t] = "idle" /\ loc'[t].job = "none" /\ Ended(loc'[t])
FailedOrBack(t) ==
  \/ loc[t].profile = "full" /\ Calls(t, "failRead", "failed", loc[t].s)
  \/ loc[t].profile # "full" /\ Returned(t)
Ahead(t, label) ==
  /\ Moved(t) /\ pc'[t] = label /\ Same(loc[t], loc'[t])
  /\ loc'[t].clean = loc[t].clean /\ loc'[t].doc = loc[t].doc

LEMMA CallEffect ==
  ASSUME ThreadsOK, NEW t \in Threads, NEW label \in ScanLabels, To(t, label),
         NEW job \in {"scan", "failed", "cleanup"}, NEW s \in Sessions, loc' = [loc EXCEPT ![t] = Call(job, s)]
  PROVE  Calls(t, label, job, s)
<1>1. Call(job, s) \in Locals
  BY CallType
<1>2. Moved(t) /\ pc'[t] = label /\ loc'[t] = Call(job, s)
  BY <1>1, SetLocals
<1>. QED BY <1>2, CallType DEF Calls, Ended

LEMMA ReturnEffect == ASSUME ThreadsOK, NEW t \in Threads, Return(t) PROVE Returned(t)
<1>1. Moved(t) /\ pc'[t] = "idle" /\ loc'[t] = NoLocals
  BY SetLocals, EmptyLocals DEF Return, ScanLabels
<1>. QED BY <1>1 DEF Returned, Ended, NoLocals

LEMMA FailedEffect == ASSUME ThreadsOK, NEW t \in Threads, loc[t].s \in Sessions, Failed(t) PROVE FailedOrBack(t)
<1>1. CASE loc[t].profile = "full"
  <2>1. loc' = [loc EXCEPT ![t] = Call("failed", loc[t].s)] /\ To(t, "failRead")
    BY <1>1 DEF Failed
  <2>. QED BY <1>1, <2>1, CallEffect DEF FailedOrBack, ScanLabels
<1>2. CASE loc[t].profile # "full"
  <2>1. Return(t)
    BY <1>2 DEF Failed
  <2>. QED BY <1>2, <2>1, ReturnEffect DEF FailedOrBack
<1>. QED BY <1>1, <1>2

\* A step of a scan under the lock.
LEMMA BodyEffects ==
  ASSUME Shape, NEW t \in Threads
  PROVE  /\ Lock(t) => Goes(t, "unlink")
         /\ Refused(t) => FailedOrBack(t)
         /\ Unlink(t) => /\ Ahead(t, "writeRunning") /\ loc'[t].n = scans + 1 /\ scans + 1 \in 0..MaxScans
                         /\ loc'[t].traffic = loc[t].traffic /\ loc'[t].frida = loc[t].frida /\ loc'[t].raised = loc[t].raised
         /\ WriteRunning(t) => Goes(t, IF loc[t].profile = "full" THEN "traffic" ELSE "launch")
         /\ StartTraffic(t) => /\ Ahead(t, "frida") /\ loc'[t].n = loc[t].n
                               /\ loc'[t].frida = loc[t].frida /\ loc'[t].raised = loc[t].raised
         /\ StartFrida(t) => /\ Ahead(t, "launch") /\ loc'[t].n = loc[t].n
                             /\ loc'[t].traffic = loc[t].traffic /\ loc'[t].raised = loc[t].raised
         /\ Launch(t) => Goes(t, "window") \/ Goes(t, "stopFrida")
         /\ EndWindow(t) => Goes(t, "stopFrida")
         /\ StopFrida(t) => Goes(t, "stopTraffic")
         /\ StopTraffic(t) => Goes(t, IF loc[t].raised THEN "unlock" ELSE "rules")
         /\ WriteRules(t) => Goes(t, "completed")
         /\ WriteCompleted(t) => Goes(t, "report")
         /\ Report(t) => /\ Ahead(t, "unlock") /\ loc'[t].n = loc[t].n
                         /\ loc'[t].traffic = loc[t].traffic /\ loc'[t].frida = loc[t].frida
         /\ Raise(t) => /\ \/ pc[t] \in {"traffic", "frida", "launch", "window"} /\ Ahead(t, "stopFrida")
                           \/ pc[t] \notin {"traffic", "frida", "launch", "window"} /\ Ahead(t, "unlock")
                        /\ loc'[t].n = loc[t].n /\ loc'[t].raised
                        /\ loc'[t].traffic = loc[t].traffic /\ loc'[t].frida = loc[t].frida
         /\ Unlock(t) => \/ loc[t].raised /\ FailedOrBack(t)
                         \/ ~loc[t].raised /\ Calls(t, "cleanTake", "scan", loc[t].s)
                         \/ ~loc[t].raised /\ Returned(t)
<1>l. {"unlink", "writeRunning", "traffic", "frida", "launch", "window", "stopFrida", "stopTraffic", "rules",
       "completed", "report", "unlock", "cleanTake"} \subseteq ScanLabels
  BY DEF ScanLabels, BodyLabels
<1>t. ThreadsOK /\ loc[t] \in Locals /\ (pc[t] # "idle" => loc[t].s \in Sessions)
  BY TypeParts DEF Shape, JobFits, JobOf, ThreadsOK
<1>1. Lock(t) => Goes(t, "unlink")
  BY <1>l, <1>t, KeepLocals DEF Lock, Goes
<1>2. Refused(t) => FailedOrBack(t)
  BY <1>t, FailedEffect DEF Refused
<1>3. ASSUME Unlink(t)
      PROVE  /\ Ahead(t, "writeRunning") /\ loc'[t].n = scans + 1 /\ scans + 1 \in 0..MaxScans
             /\ loc'[t].traffic = loc[t].traffic /\ loc'[t].frida = loc[t].frida /\ loc'[t].raised = loc[t].raised
  <2>1. /\ pc[t] = "unlink" /\ To(t, "writeRunning")
        /\ loc' = [loc EXCEPT ![t] = [loc[t] EXCEPT !.n = scans + 1]]
    BY <1>3 DEF Unlink
  <2>2. scans + 1 \in 0..MaxScans
    <3>1. IsFiniteSet(Waiting) /\ t \in Waiting
      BY <2>1, ScanAssumption, FS_Subset DEF ScanAssumption, Waiting
    <3>2. Cardinality(Waiting) \in Nat /\ Cardinality(Waiting) # 0
      BY <3>1, FS_CardinalityType, FS_EmptySet
    <3>3. scans \in Nat /\ MaxScans \in Nat /\ scans + Cardinality(Waiting) <= MaxScans
      BY ScanAssumption DEF Shape, Bounded, TypeOK, ScanAssumption
    <3>. QED BY <3>2, <3>3
  <2>3. [loc[t] EXCEPT !.n = scans + 1] \in Locals
    BY <1>t, <2>2, LocalsUpdate
  <2>4. Moved(t) /\ pc'[t] = "writeRunning" /\ loc'[t] = [loc[t] EXCEPT !.n = scans + 1]
    BY <1>l, <1>t, <2>1, <2>3, SetLocals
  <2>. QED BY <1>t, <2>2, <2>4 DEF Ahead, Same, Locals
<1>4. WriteRunning(t) => Goes(t, IF loc[t].profile = "full" THEN "traffic" ELSE "launch")
  BY <1>l, <1>t, KeepLocals DEF WriteRunning, Goes
<1>5. ASSUME StartTraffic(t)
      PROVE  /\ Ahead(t, "frida") /\ loc'[t].n = loc[t].n
             /\ loc'[t].frida = loc[t].frida /\ loc'[t].raised = loc[t].raised
  <2>1. To(t, "frida") /\ (UNCHANGED loc \/ loc' = [loc EXCEPT ![t] = [loc[t] EXCEPT !.traffic = TRUE]])
    BY <1>5 DEF StartTraffic
  <2>2. Moved(t) /\ pc'[t] = "frida" /\ (loc'[t] = loc[t] \/ loc'[t] = [loc[t] EXCEPT !.traffic = TRUE])
    BY <1>l, <1>t, <2>1, SetLocals, KeepLocals, LocalsUpdate
  <2>. QED BY <1>t, <2>2 DEF Ahead, Same, Locals
<1>6. ASSUME StartFrida(t)
      PROVE  /\ Ahead(t, "launch") /\ loc'[t].n = loc[t].n
             /\ loc'[t].traffic = loc[t].traffic /\ loc'[t].raised = loc[t].raised
  <2>1. To(t, "launch") /\ (UNCHANGED loc \/ loc' = [loc EXCEPT ![t] = [loc[t] EXCEPT !.frida = TRUE]])
    BY <1>6 DEF StartFrida
  <2>2. Moved(t) /\ pc'[t] = "launch" /\ (loc'[t] = loc[t] \/ loc'[t] = [loc[t] EXCEPT !.frida = TRUE])
    BY <1>l, <1>t, <2>1, SetLocals, KeepLocals, LocalsUpdate
  <2>. QED BY <1>t, <2>2 DEF Ahead, Same, Locals
<1>7. Launch(t) => Goes(t, "window") \/ Goes(t, "stopFrida")
  BY <1>l, <1>t, KeepLocals DEF Launch, Goes
<1>8. (EndWindow(t) => Goes(t, "stopFrida")) /\ (WriteRules(t) => Goes(t, "completed")) /\ (WriteCompleted(t) => Goes(t, "report"))
  BY <1>l, <1>t, KeepLocals DEF EndWindow, WriteRules, WriteCompleted, Goes
<1>9. (StopFrida(t) => Goes(t, "stopTraffic")) /\ (StopTraffic(t) => Goes(t, IF loc[t].raised THEN "unlock" ELSE "rules"))
  BY <1>l, <1>t, KeepLocals DEF StopFrida, StopTraffic, StopOne, Goes
<1>10. ASSUME Report(t)
       PROVE  /\ Ahead(t, "unlock") /\ loc'[t].n = loc[t].n
              /\ loc'[t].traffic = loc[t].traffic /\ loc'[t].frida = loc[t].frida
  <2>1. To(t, "unlock") /\ (UNCHANGED loc \/ loc' = [loc EXCEPT ![t] = [loc[t] EXCEPT !.raised = TRUE]])
    BY <1>10 DEF Report
  <2>2. Moved(t) /\ pc'[t] = "unlock" /\ (loc'[t] = loc[t] \/ loc'[t] = [loc[t] EXCEPT !.raised = TRUE])
    BY <1>l, <1>t, <2>1, SetLocals, KeepLocals, LocalsUpdate
  <2>. QED BY <1>t, <2>2 DEF Ahead, Same, Locals
<1>11. ASSUME Raise(t)
       PROVE  /\ \/ pc[t] \in {"traffic", "frida", "launch", "window"} /\ Ahead(t, "stopFrida")
                 \/ pc[t] \notin {"traffic", "frida", "launch", "window"} /\ Ahead(t, "unlock")
              /\ loc'[t].n = loc[t].n /\ loc'[t].raised
              /\ loc'[t].traffic = loc[t].traffic /\ loc'[t].frida = loc[t].frida
  <2>1. PICK label \in {"stopFrida", "unlock"} :
          /\ To(t, label) /\ loc' = [loc EXCEPT ![t] = [loc[t] EXCEPT !.raised = TRUE]]
          /\ label = "stopFrida" <=> pc[t] \in {"traffic", "frida", "launch", "window"}
    <3>1. CASE pc[t] \in {"traffic", "frida", "launch", "window"}
      BY <1>11, <3>1 DEF Raise
    <3>2. CASE pc[t] \notin {"traffic", "frida", "launch", "window"}
      BY <1>11, <3>2 DEF Raise
    <3>. QED BY <3>1, <3>2
  <2>3. label \in ScanLabels /\ [loc[t] EXCEPT !.raised = TRUE] \in Locals
    BY <1>l, <1>t, LocalsUpdate
  <2>2. Moved(t) /\ pc'[t] = label /\ loc'[t] = [loc[t] EXCEPT !.raised = TRUE]
    BY <1>t, <2>1, <2>3, SetLocals
  <2>. QED BY <1>t, <2>1, <2>2 DEF Ahead, Same, Locals
<1>12. ASSUME Unlock(t)
       PROVE  \/ loc[t].raised /\ FailedOrBack(t)
              \/ ~loc[t].raised /\ Calls(t, "cleanTake", "scan", loc[t].s)
              \/ ~loc[t].raised /\ Returned(t)
  <2>1. CASE loc[t].raised
    BY <1>12, <1>t, <2>1, FailedEffect DEF Unlock
  <2>2. CASE ~loc[t].raised /\ loc[t].profile = "full"
    <3>1. loc' = [loc EXCEPT ![t] = Call("scan", loc[t].s)] /\ To(t, "cleanTake") /\ pc[t] # "idle"
      BY <1>12, <2>2 DEF Unlock, Finalise
    <3>. QED BY <1>l, <1>t, <2>2, <3>1, CallEffect
  <2>3. CASE ~loc[t].raised /\ loc[t].profile # "full"
    BY <1>12, <1>t, <2>3, ReturnEffect DEF Unlock
  <2>. QED BY <2>1, <2>2, <2>3
<1>. QED BY <1>1, <1>2, <1>3, <1>4, <1>5, <1>6, <1>7, <1>8, <1>9, <1>10, <1>11, <1>12

Finalising(t, label) ==
  /\ Moved(t) /\ pc'[t] = label /\ Same(loc[t], loc'[t]) /\ loc'[t].n = loc[t].n
  /\ loc'[t].traffic = loc[t].traffic /\ loc'[t].frida = loc[t].frida /\ loc'[t].raised = loc[t].raised
Reads(t, label) == Finalising(t, label) /\ loc'[t].clean = loc[t].clean /\ loc'[t].doc = scanJson[loc[t].s]
\* The cleanup is over; what it says is kept by the finalisations.
CleanupOver(t, ok) ==
  \/ loc[t].job = "cleanup" /\ Returned(t)
  \/ /\ \/ loc[t].job = "scan" /\ Finalising(t, "finRead")
        \/ loc[t].job = "failed" /\ Finalising(t, "failWrite")
     /\ loc'[t].clean = ok /\ loc'[t].doc = loc[t].doc

LEMMA ReadEffect ==
  ASSUME ThreadsOK, FilesOK, NEW t \in Threads, loc[t].s \in Sessions, NEW label \in ScanLabels,
         To(t, label), loc' = [loc EXCEPT ![t].doc = scanJson[loc[t].s]]
  PROVE  Reads(t, label)
<1>t. loc[t] \in Locals /\ scanJson[loc[t].s] \in ScanFiles
  BY DEF ThreadsOK, FilesOK
<1>1. loc' = [loc EXCEPT ![t] = [loc[t] EXCEPT !.doc = scanJson[loc[t].s]]]
  OBVIOUS
<1>2. [loc[t] EXCEPT !.doc = scanJson[loc[t].s]] \in Locals
  BY <1>t, LocalsUpdate
<1>3. Moved(t) /\ pc'[t] = label /\ loc'[t] = [loc[t] EXCEPT !.doc = scanJson[loc[t].s]]
  BY <1>1, <1>2, SetLocals
<1>. QED BY <1>t, <1>3 DEF Reads, Finalising, Same, Locals

LEMMA CleanedEffect ==
  ASSUME ThreadsOK, NEW t \in Threads, loc[t].job # "none", NEW ok \in BOOLEAN, Cleaned(t, ok)
  PROVE  CleanupOver(t, ok)
<1>t. loc[t] \in Locals /\ loc[t].job \in {"scan", "failed", "cleanup"}
  BY DEF ThreadsOK, Locals
<1>1. CASE loc[t].job = "cleanup"
  <2>1. Return(t)
    BY <1>1 DEF Cleaned, AfterCleanup, Return
  <2>. QED BY <1>1, <2>1, ReturnEffect DEF CleanupOver
<1>2. CASE loc[t].job # "cleanup"
  <2>1. PICK label \in {"finRead", "failWrite"} :
          /\ To(t, label) /\ loc' = [loc EXCEPT ![t] = [loc[t] EXCEPT !.clean = ok]]
          /\ loc[t].job = "scan" => label = "finRead"
          /\ loc[t].job = "failed" => label = "failWrite"
    <3>1. loc' = [loc EXCEPT ![t] = [loc[t] EXCEPT !.clean = ok]]
      BY <1>2 DEF Cleaned
    <3>2. To(t, AfterCleanup(t))
      BY DEF Cleaned
    <3>3. CASE loc[t].job = "scan"
      BY <3>1, <3>2, <3>3 DEF AfterCleanup
    <3>4. CASE loc[t].job = "failed"
      BY <3>1, <3>2, <3>4 DEF AfterCleanup
    <3>. QED BY <1>t, <1>2, <3>3, <3>4
  <2>2. label \in ScanLabels /\ [loc[t] EXCEPT !.clean = ok] \in Locals
    BY <1>t, LocalsUpdate DEF ScanLabels
  <2>3. Moved(t) /\ pc'[t] = label /\ loc'[t] = [loc[t] EXCEPT !.clean = ok]
    BY <2>1, <2>2, SetLocals
  <2>4. Finalising(t, label) /\ loc'[t].clean = ok /\ loc'[t].doc = loc[t].doc
    BY <1>t, <2>3 DEF Finalising, Same, Locals
  <2>. QED BY <1>t, <1>2, <2>1, <2>4 DEF CleanupOver
<1>. QED BY <1>1, <1>2

\* A step of a request, of a finalisation or of a cleanup.
LEMMA FinalEffects ==
  ASSUME Shape, NEW t \in Threads
  PROVE  /\ \A s \in Sessions, p \in {"quick", "full"}, a \in BOOLEAN : Request(t, s, p, a) =>
              Calls(t, "lock", "scan", s) /\ loc'[t].profile = p
         /\ \A s \in Sessions : CallCleanup(t, s) => Calls(t, "cleanTake", "cleanup", s)
         /\ FailRead(t) => Reads(t, "cleanTake")
         /\ FinRead(t) => Reads(t, "finWrite")
         /\ CleanTake(t) => (deviceLock' = t /\ deviceLock = NoThread /\ Goes(t, "cleanEnd")) \/ (UNCHANGED <<deviceLock, status>> /\ CleanupOver(t, FALSE))
         /\ CleanEnd(t) => CleanupOver(t, TRUE) \/ CleanupOver(t, FALSE)
         /\ FinWrite(t) => Goes(t, "finReport")
         /\ FinReport(t) \/ FailWrite(t) \/ FinalisationRaises(t) \/ Crash(t) => Returned(t)
<1>t. ThreadsOK /\ FilesOK /\ loc[t] \in Locals /\ (pc[t] # "idle" => loc[t].s \in Sessions /\ loc[t].job # "none")
  BY TypeParts DEF Shape, JobFits, JobOf, ThreadsOK
<1>l. {"lock", "cleanTake", "cleanEnd", "finRead", "finWrite", "finReport", "failRead", "failWrite"} \subseteq ScanLabels
  BY DEF ScanLabels
<1>1. ASSUME NEW s \in Sessions, NEW p \in {"quick", "full"}, NEW a \in BOOLEAN, Request(t, s, p, a)
      PROVE  Calls(t, "lock", "scan", s) /\ loc'[t].profile = p
  <2>. DEFINE c == Call("scan", s)
              l == [c EXCEPT !.profile = p, !.autonomous = a]
  <2>1. c \in Locals /\ c.job = "scan" /\ c.s = s /\ Ended(c)
    BY CallType DEF Ended
  <2>2. l \in Locals
    BY <2>1, LocalsUpdate DEF Profiles
  <2>3. l.job = "scan" /\ l.s = s /\ l.profile = p /\ Ended(l)
    BY <2>1 DEF Ended, Locals
  <2>4. To(t, "lock") /\ loc' = [loc EXCEPT ![t] = l]
    BY <1>1 DEF Request
  <2>. HIDE DEF l
  <2>5. Moved(t) /\ pc'[t] = "lock" /\ loc'[t] = l
    BY <1>l, <1>t, <2>2, <2>4, SetLocals
  <2>. QED BY <2>3, <2>5 DEF Calls
<1>2. ASSUME NEW s \in Sessions, CallCleanup(t, s) PROVE Calls(t, "cleanTake", "cleanup", s)
  BY <1>2, <1>l, <1>t, CallEffect DEF CallCleanup
<1>3. (FailRead(t) => Reads(t, "cleanTake")) /\ (FinRead(t) => Reads(t, "finWrite"))
  BY <1>l, <1>t, ReadEffect DEF FailRead, FinRead
<1>4. ASSUME CleanTake(t)
      PROVE  \/ deviceLock' = t /\ deviceLock = NoThread /\ Goes(t, "cleanEnd")
             \/ UNCHANGED <<deviceLock, status>> /\ CleanupOver(t, FALSE)
  <2>1. CASE deviceLock = NoThread /\ deviceLock' = t /\ To(t, "cleanEnd") /\ UNCHANGED loc
    BY <1>l, <1>t, <2>1, KeepLocals DEF Goes
  <2>2. CASE Cleaned(t, FALSE) /\ UNCHANGED <<deviceLock, status>>
    BY <1>4, <1>t, <2>2, CleanedEffect DEF CleanTake
  <2>. QED BY <1>4, <2>1, <2>2 DEF CleanTake
<1>5. CleanEnd(t) => CleanupOver(t, TRUE) \/ CleanupOver(t, FALSE)
  BY <1>t, CleanEnds, CleanedEffect DEF CleanEnd
<1>6. FinWrite(t) => Goes(t, "finReport")
  BY <1>l, <1>t, KeepLocals DEF FinWrite, Goes
<1>7. FinReport(t) \/ FailWrite(t) \/ FinalisationRaises(t) \/ Crash(t) => Returned(t)
  BY <1>t, ReturnEffect DEF FinReport, FailWrite, FinalisationRaises, Crash
<1>. QED BY <1>1, <1>2, <1>3, <1>4, <1>5, <1>6, <1>7

(***************************************************************************)
(* Shape is inductive                                                      *)
(***************************************************************************)
LEMMA FilesInv == ASSUME Shape, [Next]_scanVars PROVE FilesOK'
<1>t. FilesOK /\ \A t \in Threads : loc[t] \in Locals /\ (pc[t] # "idle" => loc[t].s \in Sessions)
  BY TypeParts DEF Shape, JobFits, JobOf, ThreadsOK
<1>n. scans \in 0..MaxScans /\ 0 \in 0..MaxScans
  BY ScanAssumption DEF Shape, TypeOK, ScanAssumption
<1>1. ASSUME UNCHANGED files PROVE FilesOK'
  BY <1>1, <1>t DEF FilesOK, files
<1>2. ASSUME NEW t \in Threads, pc[t] # "idle", NEW d \in ScanFiles,
             scanJson' = [scanJson EXCEPT ![loc[t].s] = d], UNCHANGED control
      PROVE  FilesOK'
  BY <1>2, <1>t DEF FilesOK
<1>3. ASSUME NEW t \in Threads, pc[t] # "idle", UNCHANGED control,
             NEW state \in {"running", "completed", "error"}, WriteScan(t, state)
      PROVE  FilesOK'
  <2>1. [status |-> state, by |-> loc[t].n, profile |-> loc[t].profile, cleanup |-> "absent"] \in ScanFiles
    BY <1>t DEF Locals, ScanFiles
  <2>. QED BY <1>2, <1>3, <2>1 DEF WriteScan
<1>4. ASSUME NEW t \in Threads, WriteRunning(t) \/ WriteRules(t) \/ WriteCompleted(t) \/ Report(t) PROVE FilesOK'
  BY <1>3, <1>4 DEF WriteRunning, WriteRules, WriteCompleted, Report
<1>5. ASSUME NEW t \in Threads, FinWrite(t) \/ FinReport(t) \/ FailWrite(t) PROVE FilesOK'
  <2>1. /\ loc[t].doc \in ScanFiles /\ CleanupField(t) \in {"yes", "no"}
    BY <1>t DEF Locals, CleanupField
  <2>2. /\ [loc[t].doc EXCEPT !.cleanup = CleanupField(t)] \in ScanFiles
        /\ [loc[t].doc EXCEPT !.status = "error", !.cleanup = CleanupField(t)] \in ScanFiles
    BY <2>1 DEF ScanFiles
  <2>. QED BY <1>2, <1>5, <2>2 DEF FinWrite, FinReport, FailWrite
<1>6. ASSUME NEW t \in Threads, Unlink(t) PROVE FilesOK'
  BY <1>6, <1>n, <1>t DEF Unlink, FilesOK
<1>7. ASSUME NEW s \in Sessions, RequestStop(s) PROVE FilesOK'
  BY <1>7, <1>n, <1>t DEF RequestStop, FilesOK
<1>8. ASSUME NEW s \in Sessions, UserCapture(s) \/ \E r \in Captures : UserStop(s, r) PROVE UNCHANGED files
  BY <1>8 DEF UserCapture, UserStop, files
<1>9. ASSUME NEW t \in Threads, NEW s \in Sessions,
             Request(t, s, "quick", FALSE) \/ (\E a \in BOOLEAN : Request(t, s, "full", a)) \/ CallCleanup(t, s)
      PROVE  UNCHANGED files
  BY <1>9 DEF Request, CallCleanup, files
<1>10. ASSUME NEW t \in Threads,
              \/ Lock(t) \/ Refused(t) \/ StartTraffic(t) \/ StartFrida(t) \/ Launch(t) \/ EndWindow(t)
              \/ StopFrida(t) \/ StopTraffic(t) \/ Raise(t) \/ Unlock(t) \/ FailRead(t) \/ CleanTake(t)
              \/ CleanEnd(t) \/ FinRead(t) \/ FinalisationRaises(t) \/ Crash(t)
       PROVE  UNCHANGED files
  BY <1>10 DEF files, Lock, Refused, StartTraffic, StartFrida, Launch, EndWindow, StopFrida, StopTraffic, StopOne,
               Raise, Unlock, FailRead, CleanTake, CleanEnd, FinRead, FinalisationRaises, Crash
<1>11. ASSUME NEW t \in Threads, ThreadStep(t) PROVE FilesOK'
  BY <1>1, <1>4, <1>5, <1>6, <1>10, <1>11 DEF ThreadStep, ScanStep, FinalisationStep
<1>12. CASE UNCHANGED scanVars
  BY <1>1, <1>12 DEF scanVars, files
<1>. QED BY <1>1, <1>7, <1>8, <1>9, <1>10, <1>11, <1>12 DEF Next

\* The counters of what others do and of what goes wrong.
LEMMA CountsInv ==
  ASSUME Shape, [Next]_scanVars
  PROVE  /\ others' \in 0..MaxOthers /\ faults' \in 0..MaxMishaps /\ crashes' \in 0..MaxMishaps
         /\ faults' + crashes' <= MaxMishaps /\ faults' >= faults /\ crashes' >= crashes
<1>t. /\ others \in 0..MaxOthers /\ faults \in 0..MaxMishaps /\ crashes \in 0..MaxMishaps
      /\ faults + crashes <= MaxMishaps /\ MaxOthers \in Nat /\ MaxMishaps \in Nat
  BY ScanAssumption DEF Shape, TypeOK, Bounded, ScanAssumption
<1>. DEFINE Died == Mishap /\ crashes' = crashes + 1 /\ UNCHANGED <<others, faults>>
            Counted == Fault \/ NoFault \/ Other \/ Died
<1>1. ASSUME NEW t \in Threads, ScanStep(t) PROVE Counted
  <2>1. Lock(t) \/ Refused(t) \/ Unlink(t) \/ WriteRunning(t) \/ Launch(t) \/ EndWindow(t) => Counted
    BY DEF Lock, Refused, Unlink, WriteRunning, Launch, EndWindow
  <2>2. WriteRules(t) \/ WriteCompleted(t) \/ Report(t) \/ Raise(t) \/ Unlock(t) => Counted
    BY DEF WriteRules, WriteCompleted, Report, Raise, Unlock
  <2>3. StartTraffic(t) \/ StartFrida(t) => Counted
    BY DEF StartTraffic, StartFrida, StartFailed
  <2>4. StopFrida(t) \/ StopTraffic(t) => Counted
    BY DEF StopFrida, StopTraffic, StopOne
  <2>. QED BY <1>1, <2>1, <2>2, <2>3, <2>4 DEF ScanStep
<1>2. ASSUME NEW t \in Threads, FinalisationStep(t) PROVE Counted
  <2>1. FailRead(t) \/ CleanTake(t) \/ CleanEnd(t) \/ FinRead(t) => Counted
    BY DEF FailRead, CleanTake, CleanEnd, FinRead
  <2>2. FinWrite(t) \/ FinReport(t) \/ FailWrite(t) \/ FinalisationRaises(t) => Counted
    BY DEF FinWrite, FinReport, FailWrite, FinalisationRaises
  <2>. QED BY <1>2, <2>1, <2>2 DEF FinalisationStep
<1>3. ASSUME NEW t \in Threads, Crash(t) PROVE Counted
  BY <1>3 DEF Crash
<1>4. ASSUME NEW t \in Threads, NEW s \in Sessions,
             Request(t, s, "quick", FALSE) \/ (\E a \in BOOLEAN : Request(t, s, "full", a)) \/ CallCleanup(t, s)
      PROVE  Counted
  BY <1>4 DEF Request, CallCleanup
<1>5. ASSUME NEW s \in Sessions, RequestStop(s) \/ UserCapture(s) \/ \E r \in Captures : UserStop(s, r) PROVE Counted
  BY <1>5 DEF RequestStop, UserCapture, UserStop
<1>6. ASSUME UNCHANGED scanVars PROVE Counted
  BY <1>6 DEF NoFault, scanVars
<1>7. Counted
  BY <1>1, <1>2, <1>3, <1>4, <1>5, <1>6 DEF Next, ThreadStep
<1>. QED BY <1>7, <1>t DEF Fault, NoFault, Other, Mishap

\* Who may change the device lock: the thread that takes it or has it.
LockStep(t) ==
  \/ deviceLock' = deviceLock
  \/ deviceLock = NoThread /\ deviceLock' = t
  \/ deviceLock = t /\ deviceLock' = NoThread

Asks(t) == \E s \in Sessions :
  Request(t, s, "quick", FALSE) \/ (\E a \in BOOLEAN : Request(t, s, "full", a)) \/ CallCleanup(t, s)
Acts(t) == Asks(t) \/ ThreadStep(t) \/ Crash(t)
Outside ==
  UNCHANGED scanVars \/ \E s \in Sessions : RequestStop(s) \/ UserCapture(s) \/ \E r \in Captures : UserStop(s, r)

LEMMA WhoActs == ASSUME [Next]_scanVars PROVE Outside \/ \E t \in Threads : Acts(t)
  BY DEF Outside, Acts, Asks, Next

LEMMA OutsideKeeps == ASSUME Outside PROVE UNCHANGED <<pc, loc, deviceLock, scans, overlap, scanJson>>
  BY DEF Outside, RequestStop, UserCapture, UserStop, scanVars, files

LEMMA ThreadShape ==
  ASSUME Shape, NEW t \in Threads, Acts(t)
  PROVE  Moved(t) /\ LockStep(t) /\ JobOf(t)' /\ ProgressOf(t)' /\ (pc'[t] \in Inside => deviceLock' = t)
<1>. DEFINE Good == Moved(t) /\ LockStep(t) /\ JobOf(t)' /\ ProgressOf(t)' /\ (pc'[t] \in Inside => deviceLock' = t)
<1>t. JobOf(t) /\ ProgressOf(t) /\ (pc[t] \in Inside => deviceLock = t)
  BY DEF Shape, JobFits, Progress, Holds
<1>1. ASSUME Returned(t), LockStep(t) PROVE Good
  BY <1>1 DEF Returned, Ended, JobOf, ProgressOf, Inside, BodyLabels, Finishing, Failing
<1>2. ASSUME NEW label \in ScanLabels, NEW job \in {"scan", "failed", "cleanup"}, NEW s \in Sessions,
             Calls(t, label, job, s), LockStep(t),
             \/ label = "cleanTake"
             \/ label = "failRead" /\ job = "failed"
             \/ label = "lock" /\ job = "scan" /\ loc'[t].profile \in {"quick", "full"}
      PROVE  Good
  BY <1>2 DEF Calls, Ended, JobOf, ProgressOf, Inside, BodyLabels, Finishing, Failing
<1>3. ASSUME Asks(t) PROVE Good
  <2>1. ASSUME NEW s \in Sessions, CallCleanup(t, s) PROVE Good
    BY <2>1, <1>2, FinalEffects DEF CallCleanup, LockStep, ScanLabels
  <2>2. ASSUME NEW s \in Sessions, NEW p \in {"quick", "full"}, NEW a \in BOOLEAN, Request(t, s, p, a) PROVE Good
    <3>1. Calls(t, "lock", "scan", s) /\ loc'[t].profile = p
      BY <2>2, FinalEffects
    <3>2. LockStep(t)
      BY <2>2 DEF Request, LockStep
    <3>. QED BY <3>1, <3>2, <1>2 DEF ScanLabels
  <2>. QED BY <1>3, <2>1, <2>2 DEF Asks
<1>4. ASSUME FailedOrBack(t), pc[t] # "idle", LockStep(t) PROVE Good
  BY <1>1, <1>2, <1>4, <1>t DEF FailedOrBack, JobOf, ScanLabels
<1>5. ASSUME Lock(t) PROVE Good
  BY <1>5, <1>t, BodyEffects DEF Lock, LockStep, Goes, JobOf, ProgressOf, Inside, BodyLabels, Finishing, Failing
<1>6. ASSUME pc[t] \in BodyLabels, UNCHANGED deviceLock, NEW label \in BodyLabels, Ahead(t, label), ProgressOf(t)' PROVE Good
  BY <1>6, <1>t DEF Ahead, Same, LockStep, JobOf, Inside, BodyLabels, Finishing, Failing
<1>7. ASSUME pc[t] \in BodyLabels, UNCHANGED deviceLock, NEW label \in BodyLabels, Goes(t, label), ProgressOf(t)' PROVE Good
  BY <1>6, <1>7 DEF Goes, Ahead, Same
<1>8. ASSUME Unlink(t) PROVE Good
  <2>1. ProgressOf(t)'
    BY <1>8, <1>t, BodyEffects DEF Unlink, Ahead, ProgressOf, BodyLabels
  <2>. QED BY <1>6, <1>8, <2>1, BodyEffects DEF Unlink, Body, BodyLabels
<1>9. ASSUME WriteRunning(t) PROVE Good
  <2>1. ProgressOf(t)'
    BY <1>9, <1>t, BodyEffects DEF WriteRunning, Goes, ProgressOf, BodyLabels
  <2>. QED BY <1>7, <1>9, <2>1, BodyEffects DEF WriteRunning, Body, BodyLabels
<1>10. ASSUME StartTraffic(t) PROVE Good
  <2>1. ProgressOf(t)'
    BY <1>10, <1>t, BodyEffects DEF StartTraffic, Ahead, ProgressOf, BodyLabels
  <2>. QED BY <1>6, <1>10, <2>1, BodyEffects DEF StartTraffic, Body, BodyLabels
<1>11. ASSUME StartFrida(t) PROVE Good
  <2>1. ProgressOf(t)'
    BY <1>11, <1>t, BodyEffects DEF StartFrida, Ahead, ProgressOf, BodyLabels
  <2>. QED BY <1>6, <1>11, <2>1, BodyEffects DEF StartFrida, Body, BodyLabels
<1>12. ASSUME Launch(t) PROVE Good
  <2>1. ProgressOf(t)'
    BY <1>12, <1>t, BodyEffects DEF Launch, Goes, ProgressOf, BodyLabels
  <2>. QED BY <1>7, <1>12, <2>1, BodyEffects DEF Launch, Body, BodyLabels
<1>13. ASSUME EndWindow(t) PROVE Good
  <2>1. ProgressOf(t)'
    BY <1>13, <1>t, BodyEffects DEF EndWindow, Goes, ProgressOf, BodyLabels
  <2>. QED BY <1>7, <1>13, <2>1, BodyEffects DEF EndWindow, Body, BodyLabels
<1>14. ASSUME StopFrida(t) \/ StopTraffic(t) PROVE Good
  <2>1. ProgressOf(t)'
    BY <1>14, <1>t, BodyEffects DEF StopFrida, StopTraffic, Goes, ProgressOf, BodyLabels
  <2>. QED BY <1>7, <1>14, <2>1, BodyEffects DEF StopFrida, StopTraffic, StopOne, Body, BodyLabels
<1>15. ASSUME WriteRules(t) \/ WriteCompleted(t) PROVE Good
  <2>1. ProgressOf(t)'
    BY <1>15, <1>t, BodyEffects DEF WriteRules, WriteCompleted, Goes, ProgressOf, BodyLabels
  <2>. QED BY <1>7, <1>15, <2>1, BodyEffects DEF WriteRules, WriteCompleted, Body, BodyLabels
<1>16. ASSUME Report(t) PROVE Good
  <2>1. ProgressOf(t)'
    BY <1>16, <1>t, BodyEffects DEF Report, Ahead, ProgressOf, BodyLabels
  <2>. QED BY <1>6, <1>16, <2>1, BodyEffects DEF Report, Body, BodyLabels
<1>17. ASSUME Raise(t) PROVE Good
  <2>1. ProgressOf(t)'
    BY <1>17, <1>t, BodyEffects DEF Ahead, ProgressOf, BodyLabels
  <2>. QED BY <1>6, <1>17, <2>1, BodyEffects DEF Raise, Body, BodyLabels
<1>18. ASSUME Refused(t) PROVE Good
  BY <1>4, <1>18, BodyEffects DEF Refused, LockStep
<1>19. ASSUME Unlock(t) PROVE Good
  <2>1. pc[t] = "unlock" /\ LockStep(t)
    BY <1>19 DEF Unlock, Release, LockStep
  <2>. QED BY <1>1, <1>2, <1>4, <1>19, <1>t, <2>1, BodyEffects DEF JobOf, ScanLabels
<1>20. ASSUME NEW label \in {"cleanTake", "cleanEnd", "finRead", "finWrite", "finReport", "failRead", "failWrite"},
              Finalising(t, label), LockStep(t), pc[t] # "idle",
              label \in Finishing => loc[t].job = "scan", label \in Failing => loc[t].job = "failed",
              label = "cleanEnd" => deviceLock' = t
       PROVE  Good
  BY <1>20, <1>t DEF Finalising, Same, JobOf, ProgressOf, Inside, BodyLabels, Finishing, Failing
<1>21. ASSUME NEW ok \in BOOLEAN, CleanupOver(t, ok), LockStep(t), pc[t] # "idle" PROVE Good
  BY <1>1, <1>20, <1>21 DEF CleanupOver, Finishing, Failing
<1>22. ASSUME CleanTake(t) PROVE Good
  <2>1. CASE deviceLock' = t /\ deviceLock = NoThread /\ Goes(t, "cleanEnd")
    BY <1>20, <1>22, <2>1 DEF CleanTake, LockStep, Goes, Finalising, Same, Finishing, Failing
  <2>2. CASE UNCHANGED deviceLock /\ CleanupOver(t, FALSE)
    BY <1>21, <1>22, <2>2 DEF CleanTake, LockStep
  <2>. QED BY <1>22, <2>1, <2>2, FinalEffects
<1>23. ASSUME CleanEnd(t) PROVE Good
  <2>1. pc[t] = "cleanEnd" /\ LockStep(t)
    BY <1>23 DEF CleanEnd, Release, LockStep
  <2>. QED BY <1>21, <1>23, <2>1, FinalEffects
<1>24. ASSUME FailRead(t) \/ FinRead(t) PROVE Good
  <2>1. UNCHANGED deviceLock /\ pc[t] \in {"failRead", "finRead"} /\ (FinRead(t) => pc[t] = "finRead")
    BY <1>24 DEF FailRead, FinRead
  <2>. QED BY <1>20, <1>24, <1>t, <2>1, FinalEffects DEF Reads, LockStep, JobOf, Finishing, Failing
<1>25. ASSUME FinWrite(t) PROVE Good
  <2>1. UNCHANGED deviceLock /\ pc[t] = "finWrite" /\ Goes(t, "finReport")
    BY <1>25, FinalEffects DEF FinWrite
  <2>. QED BY <1>20, <1>t, <2>1 DEF Goes, Finalising, Same, LockStep, JobOf, Finishing, Failing
<1>26. ASSUME FinReport(t) \/ FailWrite(t) \/ FinalisationRaises(t) \/ Crash(t) PROVE Good
  <2>1. LockStep(t)
    BY <1>26 DEF FinReport, FailWrite, FinalisationRaises, Crash, Release, LockStep
  <2>. QED BY <1>1, <1>26, <2>1, FinalEffects
<1>. QED BY <1>3, <1>5, <1>8, <1>9, <1>10, <1>11, <1>12, <1>13, <1>14, <1>15, <1>16, <1>17, <1>18, <1>19, <1>22,
            <1>23, <1>24, <1>25, <1>26 DEF Acts, Asks, ThreadStep, ScanStep, FinalisationStep

\* A scan is counted when it begins; until then it waits.
LEMMA ScansStep ==
  ASSUME Shape, NEW t \in Threads, Acts(t)
  PROVE  \/ scans' = scans /\ scans + Cardinality(Waiting) < MaxScans
         \/ scans' = scans + 1 /\ pc[t] = "unlink" /\ pc'[t] = "writeRunning"
         \/ scans' = scans /\ (pc'[t] \in {"lock", "unlink"} => pc[t] \in {"lock", "unlink"})
<1>. DEFINE Elsewhere == scans' = scans /\ (pc'[t] \in {"lock", "unlink"} => pc[t] \in {"lock", "unlink"})
<1>1. ASSUME Asks(t) PROVE (scans' = scans /\ scans + Cardinality(Waiting) < MaxScans) \/ Elsewhere
  <2>1. ASSUME NEW s \in Sessions, CallCleanup(t, s) PROVE Elsewhere
    BY <2>1, FinalEffects DEF CallCleanup, Calls
  <2>2. ASSUME NEW s \in Sessions, NEW p, NEW a, Request(t, s, p, a) PROVE scans' = scans /\ scans + Cardinality(Waiting) < MaxScans
    BY <2>2 DEF Request, Waiting
  <2>. QED BY <1>1, <2>1, <2>2 DEF Asks
<1>2. ASSUME Unlink(t) PROVE scans' = scans + 1 /\ pc[t] = "unlink" /\ pc'[t] = "writeRunning"
  BY <1>2, BodyEffects DEF Unlink, Ahead
<1>3. ASSUME Lock(t) \/ Refused(t) \/ WriteRunning(t) \/ StartTraffic(t) \/ StartFrida(t) \/ Launch(t) \/ EndWindow(t) PROVE Elsewhere
  <2>1. scans' = scans
    BY <1>3 DEF Lock, Refused, WriteRunning, StartTraffic, StartFrida, Launch, EndWindow
  <2>2. Lock(t) \/ Refused(t) => pc[t] = "lock"
    BY DEF Lock, Refused
  <2>. QED BY <1>3, <2>1, <2>2, BodyEffects DEF Goes, Ahead
<1>4. ASSUME StopFrida(t) \/ StopTraffic(t) \/ WriteRules(t) \/ WriteCompleted(t) \/ Report(t) \/ Raise(t) \/ Unlock(t) PROVE Elsewhere
  <2>1. scans' = scans
    BY <1>4 DEF StopFrida, StopTraffic, StopOne, WriteRules, WriteCompleted, Report, Raise, Unlock
  <2>. QED BY <1>4, <2>1, BodyEffects DEF Goes, Ahead, Calls, Returned, FailedOrBack
<1>5. ASSUME FinalisationStep(t) \/ Crash(t) PROVE Elsewhere
  <2>1. scans' = scans
    BY <1>5 DEF FinalisationStep, FailRead, CleanTake, CleanEnd, FinRead, FinWrite, FinReport, FailWrite,
                FinalisationRaises, Crash
  <2>. QED BY <1>5, <2>1, FinalEffects DEF FinalisationStep, Goes, Reads, Finalising, CleanupOver, Returned
<1>. QED BY <1>1, <1>2, <1>3, <1>4, <1>5 DEF Acts, ThreadStep, ScanStep

LEMMA OverlapStep == ASSUME Shape, [Next]_scanVars PROVE overlap' \subseteq Sessions /\ overlap \subseteq overlap'
<1>t. overlap \subseteq Sessions
  BY DEF Shape, TypeOK
<1>1. ASSUME NEW t \in Threads, ThreadStep(t) \/ Crash(t) PROVE UNCHANGED overlap
  BY <1>1 DEF ThreadStep, ScanStep, FinalisationStep, Lock, Refused, Unlink, WriteRunning, StartTraffic, StartFrida,
     Launch, EndWindow, StopFrida, StopTraffic, StopOne, WriteRules, WriteCompleted, Report, Raise, Unlock, Body,
     FailRead, CleanTake, CleanEnd, FinRead, FinWrite, FinReport, FailWrite, FinalisationRaises, Crash
<1>2. ASSUME NEW t \in Threads, NEW s \in Sessions, NEW p, NEW a, Request(t, s, p, a)
      PROVE overlap' \in {overlap, overlap \cup {s}}
  BY <1>2 DEF Request
<1>3. ASSUME NEW t \in Threads, NEW s \in Sessions, CallCleanup(t, s) PROVE UNCHANGED overlap
  BY <1>3 DEF CallCleanup
<1>4. CASE Outside
  BY <1>4, <1>t, OutsideKeeps
<1>. QED BY <1>t, <1>1, <1>2, <1>3, <1>4, WhoActs DEF Acts, Asks

(***************************************************************************)
(* Who may change the captures and the ledger of a session                 *)
(***************************************************************************)
Open(s) == status[s] \in {"active", "cleanup_required"}
StaysOpen(s) == status'[s] \in {"active", "cleanup_required"}
Settles(s) == status'[s] = "cleaned" /\ \A r \in Captures : owed'[s][r] = "no"
TouchesOnly(s) == \A x \in Sessions \ {s} : status'[x] = status[x] /\ owed'[x] = owed[x] /\ capture'[x] = capture[x]

LEMMA CaptureTouches ==
  ASSUME WorldOK, NEW s \in Sessions, NEW r \in Captures,
         Started(s, r) \/ StartFailed(s, r) \/ Stopped(s, r) \/ StopFailed(s, r)
  PROVE  TouchesOnly(s) /\ (Open(s) => StaysOpen(s)) /\ (Started(s, r) => Open(s))
<1>1. CASE Started(s, r)
  BY <1>1 DEF Started, MayStart, SlotFree, TouchesOnly, Open, StaysOpen, WorldOK
<1>2. CASE UNCHANGED world
  BY <1>2 DEF Started, MayStart, SlotFree, TouchesOnly, Open, StaysOpen, world
<1>3. CASE /\ owed' = [owed EXCEPT ![s][r] = "failed"] /\ status' = [status EXCEPT ![s] = "cleanup_required"]
           /\ UNCHANGED capture
  BY <1>3 DEF Started, MayStart, SlotFree, TouchesOnly, Open, StaysOpen, WorldOK
<1>4. CASE Stopped(s, r)
  BY <1>4 DEF Stopped, Started, MayStart, SlotFree, TouchesOnly, Open, StaysOpen, WorldOK
<1>5. CASE StopFailed(s, r)
  <2>1. PICK c \in {"running", "stop_failed"}, o \in {"no", "pending", "failed"} :
          capture' = [capture EXCEPT ![s][r] = c] /\ owed' = [owed EXCEPT ![s][r] = o]
    BY <1>5 DEF StopFailed
  <2>2. UNCHANGED status
    BY <1>5 DEF StopFailed
  <2>. QED BY <2>1, <2>2 DEF Started, MayStart, SlotFree, TouchesOnly, Open, StaysOpen, WorldOK
<1>. QED BY <1>1, <1>2, <1>3, <1>4, <1>5 DEF StartFailed

LEMMA CleanupTouches ==
  ASSUME WorldOK, NEW s \in Sessions
  PROVE  /\ \A ends \in SUBSET {"idle", "running", "stop_failed"} : CleanedUp(s, ends) => TouchesOnly(s) /\ Settles(s)
         /\ CleanupLeft(s) => TouchesOnly(s) /\ status'[s] = "cleanup_failed"
<1>1. ASSUME NEW ends \in SUBSET {"idle", "running", "stop_failed"}, CleanedUp(s, ends) PROVE TouchesOnly(s) /\ Settles(s)
  <2>1. TouchesOnly(s)
    BY <1>1, StopRunningType DEF CleanedUp, TouchesOnly, WorldOK
  <2>2. status'[s] = "cleaned" /\ owed'[s] = [r \in Captures |-> "no"]
    BY <1>1 DEF CleanedUp, WorldOK
  <2>. QED BY <2>1, <2>2 DEF Settles
<1>2. ASSUME CleanupLeft(s) PROVE TouchesOnly(s) /\ status'[s] = "cleanup_failed"
  <2>1. PICK left : owed' = [owed EXCEPT ![s] = [r \in Captures |-> IF r \in left THEN "failed" ELSE "no"]]
    BY <1>2 DEF CleanupLeft
  <2>2. StopRunning(s, {"idle", "running", "stop_failed"}) /\ status' = [status EXCEPT ![s] = "cleanup_failed"]
    BY <1>2 DEF CleanupLeft
  <2>3. TouchesOnly(s)
    BY <2>1, <2>2, StopRunningType DEF TouchesOnly, WorldOK
  <2>. QED BY <2>2, <2>3 DEF WorldOK
<1>. QED BY <1>1, <1>2

BodyTouch(t) == pc[t] \in BodyLabels /\ TouchesOnly(loc[t].s) /\ StaysOpen(loc[t].s)
TakeTouch(t) ==
  /\ pc[t] = "cleanTake" /\ deviceLock = NoThread /\ TouchesOnly(loc[t].s) /\ UNCHANGED <<owed, capture>>
  /\ status'[loc[t].s] = IF status[loc[t].s] = "cleaned" /\ ~Owes(loc[t].s) THEN "cleaned" ELSE "cleaning"
\* A stop outside a cleanup that leaves the session as it was has reopened it.
Reopens(s) == status[s] = "cleaned" => s \in reopened'
EndTouch(t) ==
  /\ pc[t] = "cleanEnd" /\ TouchesOnly(loc[t].s)
  /\ Settles(loc[t].s) \/ (status'[loc[t].s] = "cleanup_failed" /\ Reopens(loc[t].s))
UserTouch(s) ==
  /\ deviceLock = NoThread /\ TouchesOnly(s) /\ Reopens(s)
  /\ StaysOpen(s) \/ status'[s] = status[s]

\* A session that was reopened is so until it is cleaned up again.
LEMMA Reopening ==
  ASSUME Shape, [Next]_scanVars
  PROVE  reopened' \subseteq Sessions /\ \A s \in reopened : s \in reopened' \/ Settles(s)
<1>t. WorldOK /\ reopened \subseteq Sessions /\ \A t \in Threads : pc[t] # "idle" => loc[t].s \in Sessions
  BY TypeParts DEF Shape, JobFits, JobOf, BoundsOK
<1>1. ASSUME NEW s \in Sessions, Reopened(s)
      PROVE  reopened' \subseteq Sessions /\ reopened \subseteq reopened'
  BY <1>1, <1>t DEF Reopened
<1>2. ASSUME NEW t \in Threads, CleanEnd(t)
      PROVE  reopened' \subseteq Sessions /\ \A s \in reopened : s \in reopened' \/ Settles(s)
  <2>1. loc[t].s \in Sessions
    BY <1>2, <1>t DEF CleanEnd
  <2>2. CASE Reopened(loc[t].s)
    BY <1>1, <2>1, <2>2
  <2>3. ASSUME reopened' = reopened \ {loc[t].s},
               NEW ends \in SUBSET {"idle", "running", "stop_failed"}, CleanedUp(loc[t].s, ends)
        PROVE  reopened' \subseteq Sessions /\ \A s \in reopened : s \in reopened' \/ Settles(s)
    BY <1>t, <2>1, <2>3, CleanupTouches
  <2>. QED BY <1>2, <2>2, <2>3, CleanEnds
<1>3. ASSUME NEW s \in Sessions, NEW r \in Captures, UserStop(s, r) PROVE reopened' \subseteq Sessions /\ reopened \subseteq reopened'
  BY <1>1, <1>3 DEF UserStop
<1>4. ASSUME NEW t \in Threads, ScanStep(t) PROVE UNCHANGED reopened
  BY <1>4 DEF ScanStep, Lock, Refused, Unlink, WriteRunning, StartTraffic, StartFrida, Launch, EndWindow, StopFrida,
              StopTraffic, StopOne, WriteRules, WriteCompleted, Report, Raise, Unlock, Body
<1>5. ASSUME NEW t \in Threads, FinalisationStep(t), ~CleanEnd(t) PROVE UNCHANGED reopened
  BY <1>5 DEF FinalisationStep, FailRead, CleanTake, FinRead, FinWrite, FinReport, FailWrite, FinalisationRaises
<1>6. ASSUME NEW t \in Threads, Asks(t) \/ Crash(t) PROVE UNCHANGED reopened
  BY <1>6 DEF Asks, Request, CallCleanup, Crash
<1>7. ASSUME NEW s \in Sessions, RequestStop(s) \/ UserCapture(s) PROVE UNCHANGED reopened
  BY <1>7 DEF RequestStop, UserCapture
<1>8. CASE UNCHANGED scanVars
  BY <1>8, <1>t DEF scanVars
<1>. QED BY <1>t, <1>2, <1>3, <1>4, <1>5, <1>6, <1>7, <1>8, WhoActs DEF Acts, ThreadStep, Outside

\* With that, every part of Shape is kept.
LEMMA ShapeInv == ASSUME Shape, [Next]_scanVars PROVE Shape'
<1>1. ASSUME NEW t \in Threads, Acts(t) PROVE ThreadsOK' /\ Bounded' /\ Holds' /\ JobFits' /\ Progress' /\ scans' \in 0..MaxScans
  <2>1. Moved(t) /\ LockStep(t) /\ JobOf(t)' /\ ProgressOf(t)' /\ (pc'[t] \in Inside => deviceLock' = t)
    BY <1>1, ThreadShape
  <2>2. JobFits' /\ Progress'
    BY <2>1 DEF Shape, JobFits, Progress, Moved, JobOf, ProgressOf
  <2>3. Holds'
    BY <2>1, ScanAssumption DEF Shape, Holds, Moved, LockStep, ScanAssumption
  <2>4. ThreadsOK'
    BY <2>1, TypeParts DEF Shape, ThreadsOK, Moved, LockStep
  <2>5. To(t, pc'[t]) /\ pc'[t] \in ScanLabels
    BY <2>1, TypeParts DEF Shape, ThreadsOK, Moved, To
  <2>6. scans \in Nat /\ MaxScans \in Nat /\ scans <= MaxScans /\ scans + Cardinality(Waiting) <= MaxScans
    BY ScanAssumption DEF Shape, TypeOK, Bounded, ScanAssumption
  <2>7. /\ Cardinality(Waiting) \in Nat
        /\ pc[t] \in {"lock", "unlink"} /\ pc'[t] \in {"lock", "unlink"} => Cardinality(Waiting') = Cardinality(Waiting)
        /\ pc[t] \notin {"lock", "unlink"} /\ pc'[t] \notin {"lock", "unlink"} => Cardinality(Waiting') = Cardinality(Waiting)
        /\ pc[t] \in {"lock", "unlink"} /\ pc'[t] \notin {"lock", "unlink"} => Cardinality(Waiting') = Cardinality(Waiting) - 1
        /\ pc[t] \notin {"lock", "unlink"} /\ pc'[t] \in {"lock", "unlink"} => Cardinality(Waiting') = Cardinality(Waiting) + 1
    BY <2>5, WaitingSteps DEF Shape
  <2>8. scans' + Cardinality(Waiting') <= MaxScans /\ scans' \in 0..MaxScans
    <3>1. Cardinality(Waiting') \in Nat
      <4>1. Waiting' \subseteq Threads
        BY DEF Waiting
      <4>. QED BY <4>1, ScanAssumption, FS_Subset, FS_CardinalityType DEF ScanAssumption
    <3>. QED BY <1>1, <2>6, <2>7, <3>1, ScansStep
  <2>. QED BY <2>2, <2>3, <2>4, <2>8, CountsInv DEF Bounded
<1>2. CASE Outside
  <2>1. Waiting' = Waiting /\ ThreadsOK' /\ Holds' /\ JobFits' /\ Progress' /\ scans' \in 0..MaxScans /\ scans' = scans
    BY <1>2, OutsideKeeps, TypeParts DEF Shape, Waiting, ThreadsOK, BoundsOK, Holds, JobFits, JobOf, Progress, ProgressOf
  <2>. QED BY <2>1, WorldInv, FilesInv, CountsInv, OverlapStep, Reopening DEF Shape, TypeOK, WorldOK, FilesOK, ThreadsOK, Bounded
<1>3. ASSUME NEW t \in Threads, Acts(t) PROVE Shape'
  BY <1>1, <1>3, WorldInv, FilesInv, CountsInv, OverlapStep, Reopening DEF Shape, TypeOK, WorldOK, FilesOK, ThreadsOK
<1>. QED BY <1>2, <1>3, WhoActs

LEMMA WorldSteps ==
  ASSUME Shape, Ledgers, NEW t \in Threads, Acts(t)
  PROVE  UNCHANGED world \/ BodyTouch(t) \/ TakeTouch(t) \/ EndTouch(t)
<1>t. WorldOK /\ (pc[t] # "idle" => loc[t].s \in Sessions) /\ (pc[t] \in BodyLabels => Open(loc[t].s))
  BY TypeParts DEF Shape, JobFits, JobOf, Ledgers, Open, StaysOpen
<1>1. ASSUME StartTraffic(t) PROVE UNCHANGED world \/ BodyTouch(t)
  BY <1>1, <1>t, CaptureTouches DEF StartTraffic, Captures, BodyTouch, BodyLabels
<1>2. ASSUME StartFrida(t) PROVE UNCHANGED world \/ BodyTouch(t)
  BY <1>2, <1>t, CaptureTouches DEF StartFrida, Captures, BodyTouch, BodyLabels
<1>3. ASSUME NEW r \in Captures, NEW on, NEW to, pc[t] \in BodyLabels, StopOne(t, r, on, to) PROVE UNCHANGED world \/ BodyTouch(t)
  BY <1>3, <1>t, CaptureTouches DEF StopOne, BodyTouch, BodyLabels
<1>4. ASSUME StopFrida(t) \/ StopTraffic(t) PROVE UNCHANGED world \/ BodyTouch(t)
  BY <1>3, <1>4 DEF StopFrida, StopTraffic, Captures, BodyLabels
<1>5. ASSUME CleanTake(t) PROVE UNCHANGED world \/ TakeTouch(t)
  <2>1. pc[t] = "cleanTake" /\ UNCHANGED <<owed, capture>>
    BY <1>5 DEF CleanTake
  <2>2. \/ UNCHANGED status
        \/ deviceLock = NoThread /\ status' = [status EXCEPT ![loc[t].s] = IF @ = "cleaned" /\ ~Owes(loc[t].s) THEN @ ELSE "cleaning"]
    BY <1>5 DEF CleanTake
  <2>. QED BY <1>t, <2>1, <2>2 DEF TakeTouch, TouchesOnly, WorldOK, world
<1>6. ASSUME CleanEnd(t) PROVE EndTouch(t)
  <2>1. pc[t] = "cleanEnd"
    BY <1>6 DEF CleanEnd
  <2>2. CASE CleanupLeft(loc[t].s) /\ Reopened(loc[t].s)
    <3>1. Reopens(loc[t].s)
      BY <2>2 DEF Reopened, Reopens
    <3>. QED BY <1>t, <2>1, <2>2, <3>1, CleanupTouches DEF EndTouch
  <2>3. ASSUME NEW ends \in SUBSET {"idle", "running", "stop_failed"}, CleanedUp(loc[t].s, ends) PROVE EndTouch(t)
    BY <1>t, <2>1, <2>3, CleanupTouches DEF EndTouch
  <2>. QED BY <1>6, <2>2, <2>3, CleanEnds
<1>7. ASSUME Crash(t) PROVE UNCHANGED world \/ BodyTouch(t)
  <2>1. UNCHANGED capture /\ pc[t] # "idle"
    BY <1>7 DEF Crash
  <2>2. CASE UNCHANGED <<owed, status>>
    BY <2>1, <2>2 DEF world
  <2>3. CASE /\ pc[t] \in Captures /\ owed' = [owed EXCEPT ![loc[t].s][pc[t]] = "pending"]
             /\ status' = [status EXCEPT ![loc[t].s] = "cleanup_required"]
    BY <1>t, <2>1, <2>3 DEF BodyTouch, BodyLabels, Captures, Open, StaysOpen, TouchesOnly, WorldOK
  <2>. QED BY <1>7, <2>2, <2>3 DEF Crash
<1>8. ASSUME \/ Lock(t) \/ Refused(t) \/ Unlink(t) \/ WriteRunning(t) \/ Launch(t) \/ EndWindow(t)
             \/ WriteRules(t) \/ WriteCompleted(t) \/ Report(t) \/ Raise(t) \/ Unlock(t)
             \/ FailRead(t) \/ FinRead(t) \/ FinWrite(t) \/ FinReport(t) \/ FailWrite(t) \/ FinalisationRaises(t)
      PROVE  UNCHANGED world
  BY <1>8 DEF Lock, Refused, Unlink, WriteRunning, Launch, EndWindow, WriteRules, WriteCompleted, Report,
              Raise, Unlock, FailRead, FinRead, FinWrite, FinReport, FailWrite, FinalisationRaises
<1>9. ASSUME Asks(t) PROVE UNCHANGED world
  BY <1>9 DEF Asks, Request, CallCleanup
<1>. QED BY <1>1, <1>2, <1>4, <1>5, <1>6, <1>7, <1>8, <1>9 DEF Acts, ThreadStep, ScanStep, FinalisationStep

LEMMA OutsideSteps == ASSUME Shape, Outside PROVE UNCHANGED world \/ \E s \in Sessions : UserTouch(s)
<1>t. WorldOK
  BY TypeParts DEF Shape
<1>1. ASSUME NEW s \in Sessions, UserCapture(s) PROVE UserTouch(s)
  <2>1. TouchesOnly(s) /\ Open(s) /\ StaysOpen(s) /\ deviceLock = NoThread
    BY <1>1, <1>t, CaptureTouches DEF UserCapture, Captures
  <2>. QED BY <2>1 DEF UserTouch, Reopens, Open
<1>3. ASSUME NEW s \in Sessions, NEW r \in Captures, UserStop(s, r) PROVE UserTouch(s)
  <2>1. deviceLock = NoThread /\ TouchesOnly(s)
    BY <1>3, <1>t, CaptureTouches DEF UserStop
  <2>2. Reopens(s)
    BY <1>3 DEF UserStop, Reopened, Reopens
  <2>3. StaysOpen(s) \/ status'[s] = status[s]
    BY <1>3, <1>t DEF UserStop, Stopped, StopFailed, StaysOpen, WorldOK
  <2>. QED BY <2>1, <2>2, <2>3 DEF UserTouch
<1>2. ASSUME NEW s \in Sessions, RequestStop(s) PROVE UNCHANGED world
  BY <1>2 DEF RequestStop
<1>. QED BY <1>1, <1>2, <1>3 DEF Outside, scanVars, world

\* Others' steps do not reach the session of a scan under the lock, and a
\* session that is settled stays settled or is reopened.
LEMMA Reach ==
  ASSUME Shape, Ledgers, [Next]_scanVars
  PROVE  /\ \A s \in Sessions : Settled(s) => Settled(s)'
         /\ \A x \in Threads : pc[x] \in BodyLabels => ~Outside \/ UNCHANGED world
         /\ \A t, x \in Threads : t # x /\ Acts(t) /\ pc[x] \in BodyLabels => UNCHANGED world
<1>t. /\ \A x \in Threads : pc[x] \in Inside => deviceLock = x /\ deviceLock # NoThread
      /\ \A x \in Threads : pc[x] \in BodyLabels => Open(loc[x].s)
      /\ \A x \in Threads : pc[x] # "idle" => loc[x].s \in Sessions
      /\ "cleanEnd" \in Inside /\ BodyLabels \subseteq Inside
  BY ScanAssumption DEF Shape, Holds, JobFits, JobOf, Ledgers, Open, StaysOpen, ScanAssumption, Inside
<1>1. \A t, x \in Threads : t # x /\ Acts(t) /\ pc[x] \in BodyLabels => UNCHANGED world
  BY <1>t, WorldSteps DEF BodyTouch, TakeTouch, EndTouch
<1>2. \A x \in Threads : pc[x] \in BodyLabels => ~Outside \/ UNCHANGED world
  BY <1>t, OutsideSteps DEF UserTouch
<1>3. ASSUME NEW s \in Sessions, Settled(s) PROVE Settled(s)'
  <2>r. s \in reopened => Settled(s)'
    BY Reopening DEF Settled, Settles, Owes
  <2>. SUFFICES ASSUME status[s] = "cleaned" /\ ~Owes(s) PROVE Settled(s)'
    BY <1>3, <2>r DEF Settled
  <2>1. CASE UNCHANGED world
    BY <2>1 DEF Settled, Owes, world
  <2>2. ASSUME NEW x \in Sessions \ {s}, TouchesOnly(x) PROVE Settled(s)'
    BY <2>2 DEF Settled, Owes, TouchesOnly
  <2>3. ASSUME UserTouch(s) PROVE Settled(s)'
    BY <2>3 DEF UserTouch, Reopens, Settled
  <2>4. ASSUME NEW t \in Threads, loc[t].s = s, BodyTouch(t) PROVE FALSE
    BY <1>t, <2>4 DEF BodyTouch, Open
  <2>5. ASSUME NEW t \in Threads, loc[t].s = s, TakeTouch(t) PROVE Settled(s)'
    BY <2>5 DEF TakeTouch, Settled, Owes
  <2>6. ASSUME NEW t \in Threads, loc[t].s = s, EndTouch(t) PROVE Settled(s)'
    BY <2>6 DEF EndTouch, Reopens, Settled, Settles, Owes
  <2>7. ASSUME NEW t \in Threads, Acts(t) PROVE Settled(s)'
    BY <1>t, <2>1, <2>2, <2>4, <2>5, <2>6, <2>7, WorldSteps DEF BodyTouch, TakeTouch, EndTouch, BodyLabels
  <2>8. CASE Outside
    BY <2>1, <2>2, <2>3, <2>8, OutsideSteps DEF UserTouch
  <2>. QED BY <2>7, <2>8, WhoActs
<1>. QED BY <1>1, <1>2, <1>3

LEMMA LedgersInv == ASSUME Shape, Ledgers, [Next]_scanVars PROVE Ledgers'
<1>t. /\ \A s \in Sessions : status[s] = "cleaned" => Settled(s)
      /\ \A x \in Threads : pc[x] # "idle" => loc[x].s \in Sessions
      /\ BodyLabels \subseteq Inside
  BY DEF Shape, JobFits, JobOf, Ledgers, Settled, Inside
<1>r. \A s \in Sessions : Settled(s) => Settled(s)'
  BY Reach
<1>. DEFINE Clean == \A s \in Sessions : status'[s] = "cleaned" => ~Owes(s)' \/ s \in reopened'
            Free(s) == ~Owes(s)' \/ (status'[s] = "cleaned" /\ s \in reopened')
            Own(x) == pc'[x] \in BodyLabels => StaysOpen(loc'[x].s) /\ \A s \in Sessions \ {loc'[x].s} : Free(s)
<1>1. Clean
  <2>. SUFFICES ASSUME NEW s \in Sessions, status'[s] = "cleaned" PROVE Settled(s)'
    BY DEF Settled
  <2>1. CASE status[s] = "cleaned"
    BY <1>t, <1>r, <2>1
  <2>2. CASE status[s] # "cleaned"
    <3>1. ~UNCHANGED world /\ \A x \in Sessions \ {s} : ~TouchesOnly(x)
      BY <2>2 DEF world, TouchesOnly
    <3>2. ~UserTouch(s)
      BY <2>2 DEF UserTouch, StaysOpen
    <3>3. ASSUME NEW t \in Threads, loc[t].s = s PROVE ~BodyTouch(t) /\ ~TakeTouch(t)
      BY <2>2, <3>3 DEF BodyTouch, TakeTouch, StaysOpen
    <3>4. ASSUME NEW t \in Threads, loc[t].s = s, EndTouch(t) PROVE Settled(s)'
      BY <3>4 DEF EndTouch, Settled, Settles, Owes
    <3>5. ASSUME NEW t \in Threads, Acts(t) PROVE Settled(s)'
      BY <1>t, <3>1, <3>3, <3>4, <3>5, WorldSteps DEF BodyTouch, TakeTouch, EndTouch, BodyLabels
    <3>6. ~Outside
      BY <3>1, <3>2, OutsideSteps DEF UserTouch
    <3>. QED BY <3>5, <3>6, WhoActs
  <2>. QED BY <2>1, <2>2
<1>f. ASSUME NEW s \in Sessions, ~Owes(s) \/ (status[s] = "cleaned" /\ s \in reopened),
             status'[s] = status[s], owed'[s] = owed[s]
      PROVE  Free(s)
  BY <1>f, Reopening DEF Owes, Settles
<1>2. ASSUME NEW x \in Threads, pc[x] \in BodyLabels, loc'[x].s = loc[x].s, UNCHANGED world PROVE Own(x)
  <2>1. StaysOpen(loc'[x].s)
    BY <1>2 DEF Ledgers, StaysOpen, world
  <2>2. ASSUME NEW s \in Sessions \ {loc[x].s} PROVE Free(s)
    BY <1>2, <1>f DEF Ledgers, ScanOwnsDevice, world
  <2>. QED BY <1>2, <2>1, <2>2
<1>3. ASSUME NEW t \in Threads, Acts(t), NEW x \in Threads PROVE Own(x)
  <2>. SUFFICES ASSUME pc'[x] \in BodyLabels PROVE Own(x)
    OBVIOUS
  <2>1. Moved(t)
    BY <1>3, ThreadShape
  <2>2. CASE x # t
    BY <1>2, <1>3, <2>1, <2>2, Reach DEF Moved
  <2>3. CASE x = t /\ Lock(t)
    <3>1. SlotFree(loc[t].s) /\ UNCHANGED <<world, loc>>
      BY <2>3 DEF Lock
    <3>2. loc'[t].s = loc[t].s /\ Open(loc[t].s)
      BY <3>1 DEF SlotFree, Open, StaysOpen
    <3>3. \A s \in Sessions \ {loc[t].s} : ~Owes(s) \/ (status[s] = "cleaned" /\ s \in reopened)
      BY <1>t, <3>1 DEF SlotFree, Settled
    <3>4. ASSUME NEW s \in Sessions \ {loc[t].s} PROVE Free(s)
      BY <1>f, <3>1, <3>3 DEF world
    <3>. QED BY <2>3, <3>1, <3>2, <3>4 DEF Open, StaysOpen, world
  <2>4. CASE x = t /\ ~Lock(t)
    <3>1. pc[t] \in BodyLabels /\ loc'[t].s = loc[t].s
      <4>1. ASSUME Asks(t) PROVE pc'[t] \in {"lock", "cleanTake"}
        BY <4>1, FinalEffects DEF Asks, Calls
      <4>2. ASSUME FinalisationStep(t) \/ Crash(t)
            PROVE  pc'[t] \in {"idle", "cleanTake", "cleanEnd", "finRead", "finWrite", "finReport", "failWrite"}
        BY <4>2, FinalEffects DEF FinalisationStep, Goes, Reads, Finalising, CleanupOver, Returned
      <4>3. ASSUME Refused(t) \/ Unlock(t) PROVE pc'[t] \in {"idle", "failRead", "cleanTake"}
        BY <4>3, BodyEffects DEF FailedOrBack, Calls, Returned
      <4>4. ASSUME \/ Unlink(t) \/ WriteRunning(t) \/ StartTraffic(t) \/ StartFrida(t) \/ Launch(t) \/ EndWindow(t)
                   \/ StopFrida(t) \/ StopTraffic(t) \/ WriteRules(t) \/ WriteCompleted(t) \/ Report(t) \/ Raise(t)
            PROVE  pc[t] \in BodyLabels /\ loc'[t].s = loc[t].s
        <5>1. pc[t] \in BodyLabels
          BY <4>4 DEF BodyLabels, Unlink, WriteRunning, StartTraffic, StartFrida, Launch, EndWindow, StopFrida,
                      StopTraffic, WriteRules, WriteCompleted, Report, Raise
        <5>. QED BY <4>4, <5>1, BodyEffects DEF Goes, Ahead, Same
      <4>. QED BY <1>3, <2>4, <4>1, <4>2, <4>3, <4>4 DEF Acts, ThreadStep, ScanStep, BodyLabels
    <3>2. CASE UNCHANGED world
      BY <1>2, <2>4, <3>1, <3>2
    <3>3. CASE BodyTouch(t)
      <4>1. ASSUME NEW s \in Sessions \ {loc[t].s} PROVE Free(s)
        BY <1>f, <3>1, <3>3 DEF BodyTouch, Ledgers, ScanOwnsDevice, TouchesOnly
      <4>. QED BY <2>4, <3>1, <3>3, <4>1 DEF BodyTouch
    <3>. QED BY <1>3, <3>1, <3>2, <3>3, WorldSteps DEF TakeTouch, EndTouch, BodyLabels
  <2>. QED BY <2>2, <2>3, <2>4
<1>4. ASSUME Outside, NEW x \in Threads PROVE Own(x)
  <2>. SUFFICES ASSUME pc'[x] \in BodyLabels PROVE Own(x)
    OBVIOUS
  <2>. QED BY <1>2, <1>4, OutsideKeeps, Reach
<1>5. \A x \in Threads : Own(x)
  BY <1>3, <1>4, WhoActs
<1>6. Ledgers' <=> /\ Clean
                   /\ \A x \in Threads : pc'[x] \in BodyLabels => StaysOpen(loc'[x].s)
                   /\ \A x \in Threads : pc'[x] \in BodyLabels => \A s \in Sessions \ {loc'[x].s} : Free(s)
  BY DEF Ledgers, ScanOwnsDevice, StaysOpen
<1>. QED BY <1>1, <1>5, <1>6

(***************************************************************************)
(* The traffic guard                                                       *)
(***************************************************************************)
LEMMA GuardsInv == ASSUME Shape, Ledgers, Guards, [Next]_scanVars PROVE Guards'
<1>. DEFINE Labels == {"frida", "launch", "window"}
            On(x) == capture'[loc'[x].s]["traffic"] = "running"
            Good(x) == /\ pc'[x] \in Labels /\ loc'[x].traffic => On(x)
                       /\ pc'[x] \in {"launch", "window"} /\ loc'[x].autonomous /\ loc'[x].frida => loc'[x].traffic
                       /\ pc'[x] = "window" /\ loc'[x].autonomous => loc'[x].traffic
<1>t. WorldOK /\ \A x \in Threads : JobOf(x) /\ ProgressOf(x)
  BY TypeParts DEF Shape, JobFits, Progress
<1>1. ASSUME NEW x \in Threads, UNCHANGED <<capture, pc, loc>> PROVE Good(x)
  BY <1>1 DEF Guards
<1>2. ASSUME NEW t \in Threads, Acts(t), NEW x \in Threads \ {t} PROVE Good(x)
  <2>1. pc'[x] = pc[x] /\ loc'[x] = loc[x]
    BY <1>2, ThreadShape DEF Moved
  <2>2. CASE pc[x] \in Labels
    <3>1. UNCHANGED world
      BY <1>2, <2>2, Reach DEF BodyLabels
    <3>. QED BY <2>1, <3>1 DEF Guards, world
  <2>. QED BY <2>1, <2>2
<1>3. ASSUME NEW t \in Threads, pc'[t] \notin Labels PROVE Good(t)
  BY <1>3
<1>4. ASSUME NEW t \in Threads, WriteRunning(t) PROVE Good(t)
  <2>1. ~loc[t].traffic /\ ~loc[t].frida /\ loc'[t] = loc[t] /\ pc'[t] \in {"traffic", "launch"}
    BY <1>4, <1>t, BodyEffects DEF WriteRunning, Goes, ProgressOf
  <2>. QED BY <2>1
<1>5. ASSUME NEW t \in Threads, StartTraffic(t) PROVE Good(t)
  <2>1. pc[t] = "traffic" /\ pc'[t] = "frida" /\ loc'[t].s = loc[t].s /\ loc[t].s \in Sessions /\ ~loc[t].traffic
    BY <1>5, <1>t, BodyEffects DEF StartTraffic, Ahead, Same, JobOf, ProgressOf
  <2>2. CASE Started(loc[t].s, "traffic")
    <3>1. capture' = [capture EXCEPT ![loc[t].s]["traffic"] = "running"]
      BY <2>2 DEF Started
    <3>. QED BY <1>t, <2>1, <3>1 DEF WorldOK, Captures
  <2>3. CASE UNCHANGED loc
    BY <2>1, <2>3
  <2>. QED BY <1>5, <2>2, <2>3 DEF StartTraffic
<1>6. ASSUME NEW t \in Threads, StartFrida(t) PROVE Good(t)
  <2>1. /\ pc[t] = "frida" /\ pc'[t] = "launch" /\ Same(loc[t], loc'[t]) /\ loc'[t].traffic = loc[t].traffic
        /\ loc[t].s \in Sessions /\ ~loc[t].frida
    BY <1>6, <1>t, BodyEffects DEF StartFrida, Ahead, JobOf, ProgressOf
  <2>2. capture'[loc[t].s]["traffic"] = capture[loc[t].s]["traffic"]
    <3>1. CASE Started(loc[t].s, "frida")
      <4>1. capture' = [capture EXCEPT ![loc[t].s]["frida"] = "running"]
        BY <3>1 DEF Started
      <4>. QED BY <1>t, <2>1, <4>1 DEF WorldOK, Captures
    <3>2. CASE UNCHANGED capture
      BY <3>2
    <3>. QED BY <1>6, <3>1, <3>2 DEF StartFrida, StartFailed, world
  <2>3. loc[t].traffic => On(t)
    BY <2>1, <2>2 DEF Guards, Same
  <2>4. Guarded(t) \/ UNCHANGED loc
    BY <1>6 DEF StartFrida
  <2>5. loc'[t].autonomous /\ loc'[t].frida => loc'[t].traffic
    BY <2>1, <2>4 DEF Guarded, Same
  <2>. QED BY <2>1, <2>3, <2>5
<1>7. ASSUME NEW t \in Threads, Launch(t) PROVE Good(t)
  <2>1. pc[t] = "launch" /\ loc'[t] = loc[t] /\ UNCHANGED capture /\ pc'[t] \in {"window", "stopFrida"}
    BY <1>7, BodyEffects DEF Launch, Goes, world
  <2>2. pc'[t] = "window" => loc[t].frida \/ loc[t].traffic \/ Guarded(t)
    BY <1>7, <1>t, <2>1 DEF Launch, To, Shape, TypeOK
  <2>. QED BY <2>1, <2>2 DEF Guards, Guarded
<1>8. ASSUME NEW t \in Threads, Acts(t), ~WriteRunning(t), ~StartTraffic(t), ~StartFrida(t), ~Launch(t) PROVE pc'[t] \notin Labels
  <2>1. ASSUME Asks(t) PROVE pc'[t] \in {"lock", "cleanTake"}
    BY <2>1, FinalEffects DEF Asks, Calls
  <2>2. ASSUME FinalisationStep(t) \/ Crash(t)
        PROVE  pc'[t] \in {"idle", "cleanTake", "cleanEnd", "finRead", "finWrite", "finReport", "failWrite"}
    BY <2>2, FinalEffects DEF FinalisationStep, Goes, Reads, Finalising, CleanupOver, Returned
  <2>3. ASSUME Refused(t) \/ Unlock(t) PROVE pc'[t] \in {"idle", "failRead", "cleanTake"}
    BY <2>3, BodyEffects DEF FailedOrBack, Calls, Returned
  <2>4. ASSUME Lock(t) \/ Unlink(t) \/ EndWindow(t) \/ StopFrida(t) \/ StopTraffic(t) \/ WriteRules(t) \/ WriteCompleted(t) \/ Report(t) \/ Raise(t)
        PROVE  pc'[t] \notin Labels
    BY <2>4, BodyEffects DEF Goes, Ahead
  <2>. QED BY <1>8, <2>1, <2>2, <2>3, <2>4 DEF Acts, ThreadStep, ScanStep
<1>9. ASSUME Outside, NEW x \in Threads PROVE Good(x)
  <2>1. UNCHANGED <<pc, loc>>
    BY <1>9, OutsideKeeps
  <2>2. CASE pc[x] \in Labels
    BY <1>1, <1>9, <2>1, <2>2, Reach DEF BodyLabels, world
  <2>. QED BY <2>1, <2>2
<1>10. \A x \in Threads : Good(x)
  BY <1>2, <1>3, <1>4, <1>5, <1>6, <1>7, <1>8, <1>9, WhoActs
<1>. QED BY <1>10 DEF Guards

(***************************************************************************)
(* What is written to scan.json                                            *)
(***************************************************************************)
Elsewhere(s) == \A x \in Sessions \ {s} : scanJson'[x] = scanJson[x]
WritesScan(t, state) ==
  LET s == loc[t].s IN
  /\ Elsewhere(s) /\ scanJson'[s].status = state /\ scanJson'[s].by = loc[t].n
  /\ scanJson'[s].profile = loc[t].profile /\ scanJson'[s].cleanup = "absent"
WritesBack(t, state) ==
  /\ Elsewhere(loc[t].s) /\ scanJson'[loc[t].s].status = state
  /\ scanJson'[loc[t].s].cleanup = CleanupField(t)
Writes(t) ==
  \/ WriteRunning(t) \/ WriteRules(t) \/ WriteCompleted(t) \/ Report(t)
  \/ FinWrite(t) \/ FinReport(t) \/ FailWrite(t)

LEMMA FileEffects ==
  ASSUME Shape, NEW t \in Threads
  PROVE  /\ WriteRunning(t) \/ WriteRules(t) => WritesScan(t, "running")
         /\ WriteCompleted(t) => WritesScan(t, "completed")
         /\ Report(t) => \/ WritesScan(t, "completed") /\ UNCHANGED loc
                         \/ WritesScan(t, "error") /\ loc'[t].raised /\ Fault
         /\ FinWrite(t) \/ FinReport(t) => WritesBack(t, loc[t].doc.status)
         /\ FailWrite(t) => WritesBack(t, "error")
         /\ Writes(t) => /\ pc[t] # "idle" /\ loc[t].s \in Sessions /\ Scans(t)
                         /\ pc[t] \in BodyLabels \cup Finishing \cup Failing
<1>t. FilesOK /\ JobOf(t) /\ loc[t].doc \in ScanFiles /\ CleanupField(t) \in {"yes", "no"} /\ loc[t] \in Locals /\ loc \in [Threads -> Locals]
  BY TypeParts DEF Shape, JobFits, ThreadsOK, Locals, CleanupField
<1>1. Writes(t) => pc[t] \in {"writeRunning", "rules", "completed", "report", "finWrite", "finReport", "failWrite"}
  BY DEF Writes, WriteRunning, WriteRules, WriteCompleted, Report, FinWrite, FinReport, FailWrite
<1>2. Writes(t) => /\ pc[t] # "idle" /\ loc[t].s \in Sessions /\ Scans(t)
                   /\ pc[t] \in BodyLabels \cup Finishing \cup Failing
  BY <1>1, <1>t DEF JobOf, Scans, BodyLabels, Finishing, Failing
<1>3. ASSUME NEW state, loc[t].s \in Sessions, WriteScan(t, state) PROVE WritesScan(t, state)
  BY <1>3, <1>t DEF WriteScan, WritesScan, Elsewhere, FilesOK
<1>4. (WriteRunning(t) \/ WriteRules(t) => WritesScan(t, "running")) /\ (WriteCompleted(t) => WritesScan(t, "completed"))
  BY <1>2, <1>3 DEF Writes, WriteRunning, WriteRules, WriteCompleted
<1>5. ASSUME Report(t)
      PROVE  \/ WritesScan(t, "completed") /\ UNCHANGED loc
             \/ WritesScan(t, "error") /\ loc'[t].raised /\ Fault
  <2>1. CASE WriteScan(t, "completed") /\ UNCHANGED loc
    BY <1>2, <1>3, <1>5, <2>1 DEF Writes
  <2>2. CASE WriteScan(t, "error") /\ loc' = [loc EXCEPT ![t].raised = TRUE] /\ Fault
    <3>1. loc'[t] = [loc[t] EXCEPT !.raised = TRUE]
      BY <1>t, <2>2
    <3>2. loc'[t].raised
      BY <1>t, <3>1 DEF Locals
    <3>. QED BY <1>2, <1>3, <1>5, <2>2, <3>2 DEF Writes
  <2>. QED BY <1>5, <2>1, <2>2 DEF Report
<1>6. ASSUME FinWrite(t) \/ FinReport(t) PROVE WritesBack(t, loc[t].doc.status)
  <2>1. scanJson' = [scanJson EXCEPT ![loc[t].s] = [loc[t].doc EXCEPT !.cleanup = CleanupField(t)]]
    BY <1>6 DEF FinWrite, FinReport
  <2>2. scanJson'[loc[t].s] = [loc[t].doc EXCEPT !.cleanup = CleanupField(t)] /\ Elsewhere(loc[t].s)
    BY <1>2, <1>6, <1>t, <2>1 DEF Writes, FilesOK, Elsewhere
  <2>. QED BY <1>t, <2>2 DEF WritesBack, ScanFiles
<1>7. ASSUME FailWrite(t) PROVE WritesBack(t, "error")
  <2>1. scanJson' = [scanJson EXCEPT ![loc[t].s] = [loc[t].doc EXCEPT !.status = "error", !.cleanup = CleanupField(t)]]
    BY <1>7 DEF FailWrite
  <2>2. scanJson'[loc[t].s] = [loc[t].doc EXCEPT !.status = "error", !.cleanup = CleanupField(t)] /\ Elsewhere(loc[t].s)
    BY <1>2, <1>7, <1>t, <2>1 DEF Writes, FilesOK, Elsewhere
  <2>. QED BY <1>t, <2>2 DEF WritesBack, ScanFiles
<1>. QED BY <1>2, <1>4, <1>5, <1>6, <1>7

LEMMA WritersOnly == ASSUME NEW t \in Threads, Acts(t), ~Writes(t) PROVE UNCHANGED scanJson
<1>1. ASSUME Asks(t) PROVE UNCHANGED scanJson
  BY <1>1 DEF Asks, Request, CallCleanup, files
<1>2. ASSUME \/ Lock(t) \/ Refused(t) \/ Unlink(t) \/ StartTraffic(t) \/ StartFrida(t) \/ Launch(t) \/ EndWindow(t)
             \/ StopFrida(t) \/ StopTraffic(t) \/ Raise(t) \/ Unlock(t)
      PROVE  UNCHANGED scanJson
  BY <1>2 DEF files, Lock, Refused, Unlink, StartTraffic, StartFrida, Launch, EndWindow, StopFrida, StopTraffic,
              StopOne, Raise, Unlock
<1>3. ASSUME FailRead(t) \/ CleanTake(t) \/ CleanEnd(t) \/ FinRead(t) \/ FinalisationRaises(t) \/ Crash(t)
      PROVE  UNCHANGED scanJson
  BY <1>3 DEF files, FailRead, CleanTake, CleanEnd, FinRead, FinalisationRaises, Crash
<1>. QED BY <1>1, <1>2, <1>3 DEF Writes, Acts, ThreadStep, ScanStep, FinalisationStep

(***************************************************************************)
(* The cleanup that scan.json reports                                      *)
(***************************************************************************)
LEMMA ClaimsInv == ASSUME Shape, Ledgers, CleanClaims, [Next]_scanVars PROVE CleanClaims'
<1>. DEFINE Claims(m) == m.clean \/ m.doc.cleanup = "yes"
            Closed(s) == Settles(s) \/ s \in reopened'
            Good(x) == Claims(loc'[x]) => loc'[x].s \in Sessions /\ Closed(loc'[x].s)
<1>t. /\ \A x \in Threads : JobOf(x)
      /\ \A s \in Sessions : Settled(s) => Closed(s)
      /\ \A x \in Threads : Claims(loc[x]) => loc[x].s \in Sessions /\ Settled(loc[x].s)
      /\ \A s \in Sessions : scanJson[s].cleanup = "yes" => Settled(s)
  BY Reach DEF Shape, JobFits, CleanClaims, Settled, Settles, Owes
<1>1. ASSUME NEW x \in Threads, Claims(loc'[x]) => Claims(loc[x]), loc'[x].s = loc[x].s PROVE Good(x)
  BY <1>1, <1>t
<1>2. ASSUME NEW t \in Threads, Ended(loc'[t]) PROVE Good(t)
  BY <1>2 DEF Ended, NoScan
<1>3. ASSUME NEW t \in Threads, Asks(t) PROVE Good(t)
  <2>1. ASSUME NEW s \in Sessions, CallCleanup(t, s) PROVE Good(t)
    <3>1. Calls(t, "cleanTake", "cleanup", s)
      BY <2>1, FinalEffects
    <3>. QED BY <1>2, <3>1 DEF Calls
  <2>2. ASSUME NEW s \in Sessions, NEW p \in {"quick", "full"}, NEW a \in BOOLEAN, Request(t, s, p, a) PROVE Good(t)
    <3>1. Calls(t, "lock", "scan", s)
      BY <2>2, FinalEffects
    <3>. QED BY <1>2, <3>1 DEF Calls
  <2>. QED BY <1>3, <2>1, <2>2 DEF Asks
<1>4. ASSUME NEW t \in Threads, ScanStep(t) PROVE Good(t)
  <2>1. CASE Refused(t) \/ Unlock(t)
    BY <1>2, <2>1, BodyEffects DEF FailedOrBack, Calls, Returned
  <2>2. CASE ~Refused(t) /\ ~Unlock(t)
    <3>1. loc'[t].s = loc[t].s /\ loc'[t].clean = loc[t].clean /\ loc'[t].doc = loc[t].doc
      BY <1>4, <2>2, BodyEffects DEF ScanStep, Goes, Ahead, Same
    <3>. QED BY <1>1, <3>1
  <2>. QED BY <2>1, <2>2
<1>5. ASSUME NEW t \in Threads, FinReport(t) \/ FailWrite(t) \/ FinalisationRaises(t) \/ Crash(t) PROVE Good(t)
  BY <1>2, <1>5, FinalEffects DEF Returned
<1>6. ASSUME NEW t \in Threads, FailRead(t) \/ FinRead(t) PROVE Good(t)
  <2>1. /\ loc'[t].s = loc[t].s /\ loc'[t].clean = loc[t].clean /\ loc'[t].doc = scanJson[loc[t].s]
        /\ loc[t].s \in Sessions
    BY <1>6, <1>t, FinalEffects DEF FailRead, FinRead, Reads, Finalising, Same, JobOf
  <2>. QED BY <1>t, <2>1
<1>7. ASSUME NEW t \in Threads, CleanupOver(t, FALSE) PROVE Good(t)
  <2>1. CASE Returned(t)
    BY <1>2, <2>1 DEF Returned
  <2>2. CASE loc'[t].s = loc[t].s /\ ~loc'[t].clean /\ loc'[t].doc = loc[t].doc
    BY <1>1, <2>2
  <2>. QED BY <1>7, <2>1, <2>2 DEF CleanupOver, Finalising, Same
<1>8. ASSUME NEW t \in Threads, CleanTake(t) PROVE Good(t)
  <2>1. CASE Goes(t, "cleanEnd")
    BY <1>1, <2>1 DEF Goes
  <2>. QED BY <1>7, <1>8, <2>1, FinalEffects
<1>9. ASSUME NEW t \in Threads, CleanEnd(t) PROVE Good(t)
  <2>1. pc[t] = "cleanEnd" /\ loc[t].s \in Sessions /\ loc[t].job # "none"
    BY <1>9, <1>t DEF CleanEnd, JobOf
  <2>2. CASE Cleaned(t, FALSE)
    BY <1>7, <2>1, <2>2, CleanedEffect, TypeParts DEF Shape
  <2>3. ASSUME NEW ends \in SUBSET {"idle", "running", "stop_failed"}, CleanedUp(loc[t].s, ends), Cleaned(t, TRUE) PROVE Good(t)
    <3>1. Settles(loc[t].s)
      BY <2>1, <2>3, CleanupTouches, TypeParts DEF Shape
    <3>2. CleanupOver(t, TRUE)
      BY <2>1, <2>3, CleanedEffect, TypeParts DEF Shape
    <3>3. CASE Returned(t)
      BY <1>2, <3>3 DEF Returned
    <3>4. CASE loc'[t].s = loc[t].s
      BY <2>1, <3>1, <3>4
    <3>. QED BY <3>2, <3>3, <3>4 DEF CleanupOver, Finalising, Same
  <2>. QED BY <1>9, <2>2, <2>3, CleanEnds
<1>10. ASSUME NEW t \in Threads, FinWrite(t) PROVE Good(t)
  BY <1>1, <1>10, FinalEffects DEF Goes
<1>11. ASSUME NEW t \in Threads, Acts(t), NEW x \in Threads PROVE Good(x)
  <2>1. CASE x # t
    BY <1>1, <1>11, <2>1, ThreadShape DEF Moved
  <2>. QED BY <1>3, <1>4, <1>5, <1>6, <1>8, <1>9, <1>10, <1>11, <2>1 DEF Acts, ThreadStep, FinalisationStep
<1>12. ASSUME Outside, NEW x \in Threads PROVE Good(x)
  BY <1>1, <1>12, OutsideKeeps
<1>13. ASSUME NEW s \in Sessions, scanJson'[s].cleanup = "yes" PROVE Closed(s)
  <2>1. CASE UNCHANGED scanJson
    BY <1>13, <1>t, <2>1
  <2>2. ASSUME NEW t \in Threads, Writes(t) PROVE Closed(s)
    <3>1. CASE s # loc[t].s
      <4>1. scanJson'[s] = scanJson[s]
        BY <2>2, <3>1, FileEffects DEF Writes, WritesScan, WritesBack, Elsewhere
      <4>. QED BY <1>13, <1>t, <4>1
    <3>2. CASE s = loc[t].s
      <4>1. CleanupField(t) = "yes"
        BY <1>13, <2>2, <3>2, FileEffects DEF Writes, WritesScan, WritesBack
      <4>. QED BY <1>t, <3>2, <4>1 DEF CleanupField
    <3>. QED BY <3>1, <3>2
  <2>. QED BY <2>1, <2>2, WhoActs, OutsideKeeps, WritersOnly
<1>14. \A x \in Threads : Good(x)
  BY <1>11, <1>12, WhoActs
<1>. QED BY <1>13, <1>14 DEF CleanClaims, Settled, Settles, Owes

(***************************************************************************)
(* Two scans of one session at once                                        *)
(***************************************************************************)
\* A thread has a scan because it had it, or because it was asked for now.
LEMMA JobSteps ==
  ASSUME Shape, NEW t \in Threads, Acts(t)
  PROVE  \/ loc'[t].job \notin {"scan", "failed"}
         \/ Scans(t) /\ loc'[t].s = loc[t].s
         \/ \E s \in Sessions, p \in {"quick", "full"}, a \in BOOLEAN :
              Asks(t) /\ Request(t, s, p, a) /\ loc'[t].s = s /\ Calls(t, "lock", "scan", s)
<1>t. JobOf(t)
  BY DEF Shape, JobFits
<1>1. CASE Asks(t)
  <2>1. ASSUME NEW s \in Sessions, CallCleanup(t, s) PROVE loc'[t].job \notin {"scan", "failed"}
    BY <2>1, FinalEffects DEF Calls
  <2>2. ASSUME NEW s \in Sessions, NEW p \in {"quick", "full"}, NEW a \in BOOLEAN, Request(t, s, p, a)
        PROVE  loc'[t].s = s /\ Calls(t, "lock", "scan", s)
    BY <2>2, FinalEffects DEF Calls
  <2>. QED BY <1>1, <2>1, <2>2 DEF Asks
<1>2. CASE Refused(t) \/ Unlock(t)
  <2>1. Scans(t)
    BY <1>2, <1>t DEF Refused, Unlock, JobOf, BodyLabels, Scans
  <2>. QED BY <1>2, <2>1, BodyEffects DEF FailedOrBack, Calls, Returned
<1>3. CASE ScanStep(t) /\ ~Refused(t) /\ ~Unlock(t)
  <2>1. loc'[t].s = loc[t].s /\ loc'[t].job = loc[t].job
    BY <1>3, BodyEffects DEF ScanStep, Goes, Ahead, Same
  <2>. QED BY <2>1 DEF Scans
<1>4. CASE FinReport(t) \/ FailWrite(t) \/ FinalisationRaises(t) \/ Crash(t)
  BY <1>4, FinalEffects DEF Returned
<1>5. CASE FailRead(t) \/ CleanTake(t) \/ CleanEnd(t) \/ FinRead(t) \/ FinWrite(t)
  <2>1. Returned(t) \/ (loc'[t].s = loc[t].s /\ loc'[t].job = loc[t].job)
    BY <1>5, FinalEffects DEF Goes, Reads, CleanupOver, Finalising, Same
  <2>. QED BY <2>1 DEF Scans, Returned
<1>. QED BY <1>1, <1>2, <1>3, <1>4, <1>5 DEF Acts, ThreadStep, FinalisationStep

LEMMA OverlapsInv == ASSUME Shape, Overlaps, [Next]_scanVars PROVE Overlaps'
<1>. DEFINE Scanned(x) == loc'[x].job \in {"scan", "failed"}
<1>1. ASSUME NEW t \in Threads, Acts(t), NEW x \in Threads \ {t}, Scanned(t), Scanned(x), loc'[t].s = loc'[x].s
      PROVE  loc'[t].s \in overlap'
  <2>1. Scans(x) /\ loc'[x].s = loc[x].s
    BY <1>1, ThreadShape DEF Moved, Scans
  <2>2. CASE Scans(t) /\ loc'[t].s = loc[t].s
    BY <1>1, <2>1, <2>2, OverlapStep DEF Overlaps
  <2>3. ASSUME NEW s \in Sessions, NEW p, NEW a, Request(t, s, p, a), loc'[t].s = s PROVE loc'[t].s \in overlap'
    <3>1. x \in Scanning(s)
      BY <1>1, <2>1, <2>3 DEF Scanning, Scans
    <3>. QED BY <2>3, <3>1 DEF Request
  <2>. QED BY <1>1, <2>2, <2>3, JobSteps
<1>2. ASSUME NEW t \in Threads, Acts(t), NEW x \in Threads \ {t}, NEW y \in Threads \ {t}, x # y,
             Scanned(y), Scanned(x), loc'[x].s = loc'[y].s
      PROVE  loc'[x].s \in overlap'
  <2>1. loc'[x] = loc[x] /\ loc'[y] = loc[y]
    BY <1>2, ThreadShape DEF Moved
  <2>. QED BY <1>2, <2>1, OverlapStep DEF Overlaps, Scans
<1>3. ASSUME NEW t \in Threads, Acts(t) PROVE Overlaps'
  BY <1>1, <1>2, <1>3 DEF Overlaps, Scans
<1>4. CASE Outside
  BY <1>4, OutsideKeeps DEF Overlaps, Scans
<1>. QED BY <1>3, <1>4, WhoActs

\* A thread that writes the scan.json of another's scan has been noted.
LEMMA OthersWrite ==
  ASSUME Shape, Overlaps, [Next]_scanVars, NEW t \in Threads, Acts(t), NEW x \in Threads \ {t},
         Scans(x), loc[x].s \in Sessions, loc[x].s \notin overlap'
  PROVE  scanJson'[loc[x].s] = scanJson[loc[x].s]
<1>1. CASE ~Writes(t)
  BY <1>1, WritersOnly
<1>2. CASE Writes(t)
  <2>1. Scans(t)
    BY <1>2, FileEffects
  <2>2. loc[t].s # loc[x].s
    BY <2>1, OverlapStep DEF Overlaps
  <2>. QED BY <1>2, <2>2, FileEffects DEF Writes, WritesScan, WritesBack, Elsewhere
<1>. QED BY <1>1, <1>2

LEMMA LoneInv == ASSUME Shape, Overlaps, LoneScanReported, [Next]_scanVars PROVE LoneScanReported'
<1>. DEFINE Labels == {"traffic", "frida", "launch", "window", "stopFrida", "stopTraffic", "rules", "completed"}
            Good(x) == loc'[x].s \notin overlap' /\ pc'[x] \in Labels =>
                         scanJson'[loc'[x].s].status = "running" /\ scanJson'[loc'[x].s].by = loc'[x].n
<1>t. \A x \in Threads : JobOf(x)
  BY DEF Shape, JobFits
<1>1. ASSUME NEW x \in Threads, pc[x] \in Labels, loc'[x].s = loc[x].s, loc'[x].n = loc[x].n,
             loc[x].s \notin overlap' => scanJson'[loc[x].s] = scanJson[loc[x].s]
      PROVE  Good(x)
  BY <1>1, OverlapStep DEF LoneScanReported, Reported
<1>2. ASSUME NEW t \in Threads, Acts(t), NEW x \in Threads \ {t} PROVE Good(x)
  <2>1. pc'[x] = pc[x] /\ loc'[x] = loc[x]
    BY <1>2, ThreadShape DEF Moved
  <2>2. pc[x] \in Labels => Scans(x) /\ loc[x].s \in Sessions
    BY <1>t DEF JobOf, Scans, BodyLabels
  <2>. QED BY <1>1, <1>2, <2>1, <2>2, OthersWrite
<1>3. ASSUME NEW t \in Threads, WriteRunning(t) \/ WriteRules(t) PROVE Good(t)
  BY <1>3, FileEffects, BodyEffects DEF WritesScan, Goes
<1>4. ASSUME NEW t \in Threads, StartTraffic(t) \/ StartFrida(t) \/ Launch(t) \/ EndWindow(t) \/ StopFrida(t) \/ StopTraffic(t)
      PROVE  Good(t)
  <2>1. pc[t] \in Labels /\ UNCHANGED scanJson
    BY <1>4 DEF StartTraffic, StartFrida, Launch, EndWindow, StopFrida, StopTraffic, StopOne, files
  <2>2. loc'[t].s = loc[t].s /\ loc'[t].n = loc[t].n
    BY <1>4, BodyEffects DEF Goes, Ahead, Same
  <2>. QED BY <1>1, <2>1, <2>2
<1>5. ASSUME NEW t \in Threads, Raise(t) PROVE Good(t)
  <2>1. UNCHANGED scanJson /\ loc'[t].s = loc[t].s /\ loc'[t].n = loc[t].n
    BY <1>5, BodyEffects DEF Raise, Ahead, Same, files
  <2>2. pc[t] \in Labels \/ pc'[t] = "unlock"
    BY <1>5, BodyEffects DEF Ahead
  <2>. QED BY <1>1, <2>1, <2>2
<1>6. ASSUME NEW t \in Threads, Acts(t), ~WriteRunning(t), ~WriteRules(t), ~Raise(t),
             ~(StartTraffic(t) \/ StartFrida(t) \/ Launch(t) \/ EndWindow(t) \/ StopFrida(t) \/ StopTraffic(t))
      PROVE  pc'[t] \notin Labels
  <2>1. ASSUME Asks(t) PROVE pc'[t] \in {"lock", "cleanTake"}
    BY <2>1, FinalEffects DEF Asks, Calls
  <2>2. ASSUME FinalisationStep(t) \/ Crash(t)
        PROVE  pc'[t] \in {"idle", "cleanTake", "cleanEnd", "finRead", "finWrite", "finReport", "failWrite"}
    BY <2>2, FinalEffects DEF FinalisationStep, Goes, Reads, Finalising, CleanupOver, Returned
  <2>3. ASSUME Refused(t) \/ Unlock(t) PROVE pc'[t] \in {"idle", "failRead", "cleanTake"}
    BY <2>3, BodyEffects DEF FailedOrBack, Calls, Returned
  <2>4. ASSUME Lock(t) \/ Unlink(t) \/ WriteCompleted(t) \/ Report(t) PROVE pc'[t] \notin Labels
    BY <2>4, BodyEffects DEF Goes, Ahead
  <2>. QED BY <1>6, <2>1, <2>2, <2>3, <2>4 DEF Acts, ThreadStep, ScanStep
<1>7. ASSUME Outside, NEW x \in Threads PROVE Good(x)
  BY <1>7, OutsideKeeps DEF LoneScanReported, Reported
<1>8. \A x \in Threads : Good(x)
  BY <1>2, <1>3, <1>4, <1>5, <1>6, <1>7, WhoActs
<1>. QED BY <1>8 DEF LoneScanReported, Reported

(***************************************************************************)
(* The request to stop                                                     *)
(***************************************************************************)
LEMMA StopsInv == ASSUME Shape, Stops, [Next]_scanVars PROVE Stops'
<1>. DEFINE Labels == BodyLabels \ {"unlink", "unlock"}
            Asked(x) == control'[loc'[x].s] # 0 => control'[loc'[x].s] >= loc'[x].n
            Good(x) == pc'[x] \in Labels => loc'[x].n <= scans' /\ Asked(x)
<1>t. /\ \A x \in Threads : JobOf(x) /\ loc[x].n \in Nat /\ (pc[x] \in BodyLabels => deviceLock = x)
      /\ FilesOK /\ scans \in Nat /\ loc \in [Threads -> Locals]
  BY TypeParts, ScanAssumption DEF Shape, JobFits, ThreadsOK, Locals, Holds, Inside, BoundsOK, ScanAssumption
<1>1. ASSUME NEW x \in Threads, pc'[x] \in Labels => pc[x] \in Labels /\ loc'[x].s = loc[x].s /\ loc'[x].n = loc[x].n,
             pc[x] \in Labels => control'[loc[x].s] = control[loc[x].s], scans' >= scans, scans' \in Nat
      PROVE  Good(x)
  BY <1>1, <1>t DEF Stops
<1>2. ASSUME NEW t \in Threads, Acts(t) PROVE scans' >= scans /\ scans' \in Nat
  BY <1>2, <1>t, ScansStep
<1>3. ASSUME NEW t \in Threads, Unlink(t) PROVE Good(t)
  <2>1. /\ loc'[t].s = loc[t].s /\ loc'[t].n = scans + 1 /\ scans' = scans + 1 /\ loc[t].s \in Sessions
        /\ control' = [control EXCEPT ![loc[t].s] = 0]
    BY <1>3, <1>t, BodyEffects DEF Unlink, Ahead, Same, JobOf
  <2>2. control'[loc[t].s] = 0
    BY <1>t, <2>1 DEF FilesOK
  <2>. QED BY <1>t, <2>1, <2>2
<1>4. ASSUME NEW t \in Threads, Acts(t), ~Unlink(t) PROVE UNCHANGED control
  <2>1. Asks(t) \/ Crash(t) => UNCHANGED control
    BY DEF Asks, Request, CallCleanup, Crash, files
  <2>2. FinalisationStep(t) => UNCHANGED control
    BY DEF FinalisationStep, FailRead, CleanTake, CleanEnd, FinRead, FinWrite, FinReport, FailWrite, FinalisationRaises, files
  <2>3. Lock(t) \/ Refused(t) \/ WriteRunning(t) \/ StartTraffic(t) \/ StartFrida(t) \/ Launch(t) \/ EndWindow(t) => UNCHANGED control
    BY DEF Lock, Refused, WriteRunning, StartTraffic, StartFrida, Launch, EndWindow, files
  <2>4. StopFrida(t) \/ StopTraffic(t) \/ WriteRules(t) \/ WriteCompleted(t) \/ Report(t) \/ Raise(t) \/ Unlock(t) => UNCHANGED control
    BY DEF StopFrida, StopTraffic, StopOne, WriteRules, WriteCompleted, Report, Raise, Unlock, files
  <2>. QED BY <1>4, <2>1, <2>2, <2>3, <2>4 DEF Acts, ThreadStep, ScanStep
<1>5. ASSUME NEW t \in Threads, Acts(t), ~Unlink(t) PROVE Good(t)
  <2>. SUFFICES pc'[t] \in Labels => pc[t] \in Labels /\ loc'[t].s = loc[t].s /\ loc'[t].n = loc[t].n
    BY <1>1, <1>2, <1>4, <1>5
  <2>1. ASSUME Asks(t) PROVE pc'[t] \in {"lock", "cleanTake"}
    BY <2>1, FinalEffects DEF Asks, Calls
  <2>2. ASSUME FinalisationStep(t) \/ Crash(t)
        PROVE  pc'[t] \in {"idle", "cleanTake", "cleanEnd", "finRead", "finWrite", "finReport", "failWrite"}
    BY <2>2, FinalEffects DEF FinalisationStep, Goes, Reads, Finalising, CleanupOver, Returned
  <2>3. ASSUME Refused(t) \/ Unlock(t) PROVE pc'[t] \in {"idle", "failRead", "cleanTake"}
    BY <2>3, BodyEffects DEF FailedOrBack, Calls, Returned
  <2>4. ASSUME \/ WriteRunning(t) \/ StartTraffic(t) \/ StartFrida(t) \/ Launch(t) \/ EndWindow(t)
               \/ StopFrida(t) \/ StopTraffic(t) \/ WriteRules(t) \/ WriteCompleted(t) \/ Report(t)
        PROVE  pc[t] \in Labels /\ loc'[t].s = loc[t].s /\ loc'[t].n = loc[t].n
    <3>1. pc[t] \in Labels
      BY <2>4 DEF BodyLabels, WriteRunning, StartTraffic, StartFrida, Launch, EndWindow, StopFrida,
                  StopTraffic, WriteRules, WriteCompleted, Report
    <3>. QED BY <2>4, <3>1, BodyEffects DEF Goes, Ahead, Same
  <2>5. ASSUME Raise(t) PROVE \/ pc[t] \in Labels /\ loc'[t].s = loc[t].s /\ loc'[t].n = loc[t].n
                           \/ pc'[t] = "unlock"
    BY <2>5, BodyEffects DEF Raise, Ahead, Same, BodyLabels
  <2>6. Lock(t) => pc'[t] = "unlink"
    BY BodyEffects DEF Goes
  <2>. QED BY <1>5, <2>1, <2>2, <2>3, <2>4, <2>5, <2>6 DEF Acts, ThreadStep, ScanStep, BodyLabels
<1>6. ASSUME NEW t \in Threads, Acts(t), NEW x \in Threads \ {t} PROVE Good(x)
  <2>1. pc'[x] = pc[x] /\ loc'[x] = loc[x]
    BY <1>6, ThreadShape DEF Moved
  <2>2. pc[x] \in Labels => ~Unlink(t)
    BY <1>t DEF Unlink, BodyLabels
  <2>. QED BY <1>1, <1>2, <1>4, <1>6, <2>1, <2>2
<1>7. ASSUME Outside, NEW x \in Threads PROVE Good(x)
  <2>1. UNCHANGED <<pc, loc, scans>>
    BY <1>7, OutsideKeeps
  <2>2. ASSUME NEW s \in Sessions, RequestStop(s) PROVE Good(x)
    <3>1. control' = [control EXCEPT ![s] = scans]
      BY <2>2 DEF RequestStop
    <3>2. CASE pc[x] \in Labels
      <4>1. loc[x].s \in Sessions /\ loc[x].n <= scans
        BY <1>t, <3>2 DEF Stops, JobOf, BodyLabels
      <4>2. CASE loc[x].s = s
        BY <1>t, <2>1, <3>1, <3>2, <4>1, <4>2 DEF FilesOK
      <4>3. CASE loc[x].s # s
        BY <1>t, <2>1, <3>1, <3>2, <4>1, <4>3 DEF FilesOK, Stops
      <4>. QED BY <4>2, <4>3
    <3>. QED BY <2>1, <3>2
  <2>3. CASE UNCHANGED control
    BY <1>1, <1>t, <2>1, <2>3
  <2>. QED BY <1>7, <2>2, <2>3 DEF Outside, UserCapture, UserStop, scanVars, files
<1>8. \A x \in Threads : Good(x)
  BY <1>3, <1>5, <1>6, <1>7, WhoActs
<1>. QED BY <1>8 DEF Stops

(***************************************************************************)
(* Why scan.json may say running                                           *)
(***************************************************************************)
LEMMA ExplainedInv ==
  ASSUME Shape, Overlaps, Explained, StaleRunningHasCause, [Next]_scanVars
  PROVE  Explained'
<1>. SUFFICES ASSUME crashes' = 0, NEW x \in Threads, Scans(x)', loc'[x].s \notin overlap' PROVE ScanExplains(x)'
  BY DEF Explained
<1>f. /\ faults \in Nat /\ faults' \in Nat /\ faults' >= faults /\ crashes = 0 /\ overlap \subseteq overlap'
  BY CountsInv, OverlapStep, ScanAssumption DEF Shape, TypeOK, ScanAssumption
<1>t. \A y \in Threads : JobOf(y) /\ ProgressOf(y)
  BY DEF Shape, JobFits, Progress
\* Nothing that matters changes.
<1>1. ASSUME pc'[x] = pc[x], loc'[x] = loc[x], scanJson'[loc[x].s] = scanJson[loc[x].s] PROVE ScanExplains(x)'
  <2>1. ScanExplains(x)
    BY <1>1, <1>f DEF Explained, Scans
  <2>. QED BY <1>1, <1>f, <2>1 DEF ScanExplains, Running, Cause
<1>2. CASE Outside
  BY <1>1, <1>2, OutsideKeeps
<1>3. ASSUME NEW t \in Threads, Acts(t), x # t PROVE ScanExplains(x)'
  <2>1. pc'[x] = pc[x] /\ loc'[x] = loc[x] /\ Scans(x)
    BY <1>3, ThreadShape DEF Moved, Scans
  <2>2. loc[x].s \in Sessions
    BY <1>t, <2>1 DEF JobOf, Scans
  <2>. QED BY <1>1, <1>3, <2>1, <2>2, OthersWrite
<1>4. ASSUME NEW s \in Sessions, NEW p \in {"quick", "full"}, NEW a \in BOOLEAN, Request(x, s, p, a) PROVE ScanExplains(x)'
  <2>1. Calls(x, "lock", "scan", s) /\ UNCHANGED scanJson
    BY <1>4, FinalEffects DEF Request, files
  <2>2. Scanning(s) = {} /\ s \notin overlap
    BY <1>4, <2>1, <1>f DEF Request, Calls
  <2>3. Running(s) => Cause(s)
    BY <1>f, <2>2 DEF StaleRunningHasCause, Running, Cause
  <2>. QED BY <1>f, <2>1, <2>3 DEF Calls, Ended, ScanExplains, Running, Cause, BodyLabels, Finishing
<1>5. ASSUME Acts(x), ~Asks(x) PROVE ScanExplains(x)'
  <2>1. Scans(x) /\ loc'[x].s = loc[x].s
    BY <1>5, JobSteps DEF Scans
  <2>2. ScanExplains(x)
    BY <1>f, <2>1 DEF Explained
  <2>t. JobOf(x) /\ ProgressOf(x)
    BY <1>t
  <2>3. CASE Lock(x) \/ Unlink(x)
    <3>1. /\ UNCHANGED scanJson /\ pc[x] \in {"lock", "unlink"} /\ pc'[x] \in {"unlink", "writeRunning"}
          /\ loc'[x].job = loc[x].job /\ loc'[x].profile = loc[x].profile /\ loc'[x].raised = loc[x].raised
      BY <2>3, BodyEffects DEF Lock, Unlink, Goes, Ahead, Same, files
    <3>. QED BY <1>f, <2>1, <2>2, <2>t, <3>1 DEF ScanExplains, Running, Cause, JobOf, BodyLabels, Finishing
  <2>4. CASE StartTraffic(x) \/ StartFrida(x) \/ Launch(x) \/ EndWindow(x) \/ StopFrida(x) \/ StopTraffic(x)
    <3>1. UNCHANGED scanJson /\ pc[x] \in BodyLabels
      BY <2>4 DEF StartTraffic, StartFrida, Launch, EndWindow, StopFrida, StopTraffic, StopOne, files, BodyLabels
    <3>2. /\ pc'[x] \in {"frida", "launch", "window", "stopFrida", "stopTraffic", "rules", "unlock"}
          /\ pc'[x] = "unlock" => loc'[x].raised
          /\ loc'[x].job = loc[x].job /\ loc'[x].profile = loc[x].profile /\ loc'[x].raised = loc[x].raised
      BY <2>4, BodyEffects DEF Goes, Ahead, Same
    <3>. QED BY <1>f, <2>1, <2>2, <2>t, <3>1, <3>2 DEF ScanExplains, Running, Cause, JobOf, BodyLabels, Finishing
  <2>5. CASE WriteRunning(x) \/ WriteRules(x)
    <3>1. WritesScan(x, "running") /\ pc[x] \in {"writeRunning", "rules"}
      BY <2>5, FileEffects DEF WriteRunning, WriteRules
    <3>2. pc'[x] \in {"traffic", "launch", "completed"} /\ loc'[x] = loc[x]
      BY <2>5, BodyEffects DEF Goes
    <3>. QED BY <1>f, <2>1, <2>2, <2>t, <3>1, <3>2 DEF WritesScan, ScanExplains, Running, JobOf, BodyLabels, Finishing
  <2>6. CASE WriteCompleted(x)
    <3>1. WritesScan(x, "completed") /\ pc[x] = "completed" /\ pc'[x] = "report" /\ loc'[x] = loc[x]
      BY <2>6, FileEffects, BodyEffects DEF WriteCompleted, Goes
    <3>. QED BY <1>f, <2>1, <2>2, <2>t, <3>1 DEF WritesScan, ScanExplains, Running, JobOf, BodyLabels, Finishing
  <2>7. CASE Report(x)
    <3>1. pc[x] = "report" /\ pc'[x] = "unlock" /\ loc'[x].job = loc[x].job
      BY <2>7, BodyEffects DEF Report, Ahead, Same
    <3>2. scanJson'[loc'[x].s].status # "running" /\ (loc'[x].raised => faults' >= 1)
      <4>1. CASE WritesScan(x, "completed") /\ UNCHANGED loc
        BY <1>f, <2>1, <2>2, <4>1 DEF WritesScan, Running, ScanExplains
      <4>2. CASE WritesScan(x, "error") /\ loc'[x].raised /\ Fault
        BY <1>f, <2>1, <4>2 DEF WritesScan, Running, Fault
      <4>. QED BY <2>7, <4>1, <4>2, FileEffects
    <3>. QED BY <2>1, <2>t, <3>1, <3>2 DEF ScanExplains, Running, JobOf, BodyLabels, Finishing
  <2>8. CASE Raise(x)
    <3>1. /\ UNCHANGED scanJson /\ faults' = faults + 1 /\ pc[x] \in BodyLabels
          /\ pc'[x] \in {"stopFrida", "unlock"} /\ loc'[x].raised
          /\ loc'[x].job = loc[x].job /\ loc'[x].profile = loc[x].profile
      BY <2>8, BodyEffects DEF Raise, Fault, Ahead, Same, files, BodyLabels
    <3>. QED BY <1>f, <2>1, <2>2, <2>t, <3>1 DEF ScanExplains, Running, Cause, JobOf, BodyLabels, Finishing
  <2>9. CASE Refused(x) \/ Unlock(x)
    <3>1. UNCHANGED scanJson /\ pc[x] \in {"lock", "unlock"} /\ (Unlock(x) => pc[x] = "unlock") /\ (Refused(x) => pc[x] = "lock")
      BY <2>9 DEF Refused, Unlock, files
    <3>2. \/ Calls(x, "failRead", "failed", loc[x].s) /\ (pc[x] = "lock" \/ loc[x].raised)
          \/ Calls(x, "cleanTake", "scan", loc[x].s) /\ pc[x] = "unlock" /\ ~loc[x].raised
      BY <2>9, <3>1, BodyEffects DEF FailedOrBack, Returned, Scans
    <3>. QED BY <1>f, <2>1, <2>2, <3>1, <3>2 DEF Calls, Ended, ScanExplains, Running, Cause, BodyLabels, Finishing
  <2>10. CASE FailRead(x) \/ CleanTake(x) \/ CleanEnd(x)
    <3>1. UNCHANGED scanJson /\ pc[x] \in {"failRead", "cleanTake", "cleanEnd"} /\ (FailRead(x) => pc[x] = "failRead")
      BY <2>10 DEF FailRead, CleanTake, CleanEnd, files
    <3>2. /\ loc'[x].job = loc[x].job /\ loc'[x].profile = loc[x].profile /\ loc'[x].raised = loc[x].raised
          /\ \/ loc[x].job = "failed" /\ pc'[x] \in {"cleanTake", "cleanEnd", "failWrite"}
             \/ loc[x].job = "scan" /\ pc'[x] \in {"cleanEnd", "finRead"} /\ pc[x] \in {"cleanTake", "cleanEnd"}
      BY <2>1, <2>10, <2>t, <3>1, FinalEffects
         DEF Reads, Goes, CleanupOver, Finalising, Same, JobOf, Failing, Scans
    <3>. QED BY <1>f, <2>1, <2>2, <3>1, <3>2 DEF ScanExplains, Running, Cause, BodyLabels, Finishing
  <2>11. CASE FinRead(x)
    <3>1. /\ UNCHANGED scanJson /\ pc[x] = "finRead" /\ pc'[x] = "finWrite" /\ loc'[x].doc = scanJson[loc[x].s]
          /\ loc'[x].job = loc[x].job /\ loc'[x].raised = loc[x].raised
      BY <2>11, FinalEffects DEF FinRead, Reads, Finalising, Same, files
    <3>. QED BY <1>f, <2>1, <2>2, <2>t, <3>1 DEF ScanExplains, Running, JobOf, BodyLabels, Finishing
  <2>12. CASE FinWrite(x)
    <3>1. WritesBack(x, loc[x].doc.status) /\ pc[x] = "finWrite" /\ pc'[x] = "finReport" /\ loc'[x] = loc[x]
      BY <2>12, FileEffects, FinalEffects DEF FinWrite, Goes
    <3>. QED BY <1>f, <2>1, <2>2, <2>t, <3>1 DEF WritesBack, ScanExplains, Running, JobOf, BodyLabels, Finishing
  <2>13. ~(FinReport(x) \/ FailWrite(x) \/ FinalisationRaises(x) \/ Crash(x))
    BY FinalEffects DEF Returned, Scans
  <2>. QED BY <1>5, <2>3, <2>4, <2>5, <2>6, <2>7, <2>8, <2>9, <2>10, <2>11, <2>12, <2>13
           DEF Acts, ThreadStep, ScanStep, FinalisationStep
<1>6. ASSUME Asks(x) PROVE ScanExplains(x)'
  <2>1. ASSUME NEW s \in Sessions PROVE ~CallCleanup(x, s)
    BY FinalEffects DEF Calls, Scans
  <2>. QED BY <1>4, <1>6, <2>1 DEF Asks
<1>. QED BY <1>2, <1>3, <1>5, <1>6, WhoActs

LEMMA StaleInv ==
  ASSUME Shape, Overlaps, Explained, StaleRunningHasCause, [Next]_scanVars
  PROVE  StaleRunningHasCause'
<1>. SUFFICES ASSUME NEW s \in Sessions, s \notin overlap', scanJson'[s].status = "running",
                     Scanning(s)' = {}, crashes' = 0
              PROVE  Cause(s)'
  BY DEF StaleRunningHasCause, Cause
<1>f. /\ faults \in Nat /\ faults' \in Nat /\ faults' >= faults /\ crashes = 0 /\ s \notin overlap
  BY CountsInv, OverlapStep, ScanAssumption DEF Shape, TypeOK, ScanAssumption
<1>1. ASSUME scanJson'[s] = scanJson[s], Scanning(s) = {} PROVE Cause(s)'
  <2>1. Cause(s)
    BY <1>1, <1>f DEF StaleRunningHasCause, Cause
  <2>. QED BY <1>1, <1>f, <2>1 DEF Cause
<1>2. CASE Outside
  <2>1. Scanning(s) = {}
    BY <1>2, OutsideKeeps DEF Scanning
  <2>. QED BY <1>1, <1>2, <2>1, OutsideKeeps
<1>3. ASSUME NEW t \in Threads, Acts(t), t \notin Scanning(s) PROVE Cause(s)'
  <2>1. Scanning(s) = {}
    BY <1>3, ThreadShape DEF Moved, Scanning
  <2>2. CASE UNCHANGED scanJson
    BY <1>1, <2>1, <2>2
  <2>3. CASE Writes(t)
    <3>1. loc[t].s # s
      BY <1>3, <2>3, FileEffects DEF Scanning, Scans
    <3>. QED BY <1>1, <2>1, <2>3, <3>1, FileEffects DEF Writes, WritesScan, WritesBack, Elsewhere
  <2>. QED BY <1>3, <2>2, <2>3, WritersOnly
<1>4. ASSUME NEW t \in Threads, Acts(t), t \in Scanning(s) PROVE Cause(s)'
  <2>1. Scans(t) /\ loc[t].s = s /\ JobOf(t) /\ ScanExplains(t)
    BY <1>4, <1>f DEF Shape, JobFits, Scanning, Scans, Explained
  <2>2. ~(loc'[t].job \in {"scan", "failed"} /\ loc'[t].s = s)
    BY DEF Scanning
  <2>3. CASE Refused(t) \/ Unlock(t)
    <3>1. UNCHANGED scanJson /\ (Refused(t) => pc[t] = "lock") /\ (Unlock(t) => pc[t] = "unlock")
      BY <2>3 DEF Refused, Unlock, files
    <3>2. loc[t].profile # "full" \/ (~loc[t].raised /\ pc[t] = "unlock")
      BY <2>1, <2>2, <2>3, <3>1, BodyEffects DEF FailedOrBack, Calls
    <3>3. loc[t].profile \in {"quick", "full"}
      BY <2>1, <2>3, <3>1 DEF JobOf, BodyLabels
    <3>. QED BY <1>f, <2>1, <2>3, <3>1, <3>2, <3>3 DEF ScanExplains, Running, Cause, BodyLabels
  <2>4. CASE FinReport(t) \/ FailWrite(t)
    BY <2>1, <2>4, FileEffects DEF WritesBack, ScanExplains, FinReport
  <2>5. CASE FinalisationRaises(t)
    <3>1. UNCHANGED scanJson /\ faults' = faults + 1 /\ pc[t] \in Finishing \cup Failing
      BY <2>5 DEF FinalisationRaises, Fault, files, Finishing, Failing
    <3>. QED BY <1>f, <2>1, <3>1 DEF ScanExplains, Running, Cause, JobOf, Finishing, Failing
  <2>6. ~Crash(t)
    BY <1>f, CountsInv DEF Crash
  <2>7. ~Asks(t)
    BY <2>1 DEF Asks, Request, CallCleanup, JobOf, Scans
  <2>8. ASSUME ScanStep(t), ~Refused(t), ~Unlock(t) PROVE FALSE
    <3>1. loc'[t].s = loc[t].s /\ loc'[t].job = loc[t].job
      BY <2>8, BodyEffects DEF ScanStep, Goes, Ahead, Same
    <3>. QED BY <2>1, <2>2, <3>1 DEF Scans
  <2>9. ASSUME FailRead(t) \/ CleanTake(t) \/ CleanEnd(t) \/ FinRead(t) \/ FinWrite(t) PROVE FALSE
    <3>1. loc'[t].s = loc[t].s /\ loc'[t].job = loc[t].job
      BY <2>1, <2>9, FinalEffects DEF Goes, Reads, CleanupOver, Finalising, Same, Scans
    <3>. QED BY <2>1, <2>2, <3>1 DEF Scans
  <2>. QED BY <1>4, <2>3, <2>4, <2>5, <2>6, <2>7, <2>8, <2>9 DEF Acts, ThreadStep, FinalisationStep
<1>. QED BY <1>2, <1>3, <1>4, WhoActs

(***************************************************************************)
(* Theorems                                                                *)
(***************************************************************************)
LEMMA InitInv == Init => IInv
<1>. SUFFICES ASSUME Init PROVE IInv
  OBVIOUS
<1>. USE DEF Init
<1>1. TypeOK
  BY EmptyLocals, ScanAssumption DEF TypeOK, ScanAssumption, ScanLabels, Captures
<1>2. Bounded
  <2>1. Waiting = {}
    BY DEF Waiting
  <2>. QED BY <2>1, FS_EmptySet, ScanAssumption DEF Bounded, ScanAssumption
<1>3. Holds /\ JobFits /\ Progress
  BY DEF Holds, JobFits, JobOf, Progress, ProgressOf, Inside, BodyLabels, Finishing, Failing, NoLocals
<1>4. Ledgers /\ Guards /\ Stops
  BY DEF Ledgers, ScanOwnsDevice, Guards, Stops, BodyLabels
<1>5. CleanClaims /\ Overlaps
  BY DEF CleanClaims, Overlaps, Scans, NoScan, NoLocals
<1>6. LoneScanReported /\ Explained /\ StaleRunningHasCause
  BY DEF LoneScanReported, Reported, Explained, Scans, StaleRunningHasCause, NoScan, NoLocals
<1>. QED BY <1>1, <1>2, <1>3, <1>4, <1>5, <1>6 DEF IInv, Shape

LEMMA NextInv == IInv /\ [Next]_scanVars => IInv'
  BY ShapeInv, LedgersInv, GuardsInv, ClaimsInv, OverlapsInv, LoneInv, ExplainedInv, StaleInv, StopsInv DEF IInv

LEMMA Invariance == Spec => []IInv
  BY InitInv, NextInv, PTL DEF Spec

\* While a scan is under the device lock no other session owes the device
\* anything, but for a cleaned one whose capture somebody failed to stop again:
\* the slot that is checked under the lock, and the lock that everybody who
\* records a debt has to take (ScanOwnsDevice).
THEOREM OwnsDevice == Spec => []ScanOwnsDevice
<1>1. IInv => ScanOwnsDevice
  BY DEF IInv, Ledgers
<1>. QED BY <1>1, Invariance, PTL

\* In the window of an autonomous scan its traffic capture runs: the app was
\* started behind it and nobody else can have stopped it (GuardedExploration).
THEOREM Guarding == Spec => []GuardedExploration
<1>1. IInv => GuardedExploration
  BY DEF IInv, Guards, GuardedExploration
<1>. QED BY <1>1, Invariance, PTL

\* scan.json and runtime-control.json tell the truth: about the scan that runs,
\* why they may say running when none does, the cleanup until the session is
\* reopened, and the request to stop (FilesTruthful, with the type invariant).
THEOREM FilesTruth == Spec => []FilesTruthful
<1>1. IInv => CleanReportTruthful
  BY DEF IInv, CleanClaims, CleanReportTruthful, Settled
<1>2. IInv => StopsItsScan
  BY DEF IInv, Stops, StopsItsScan, BodyLabels
<1>3. IInv => FilesTruthful
  BY <1>1, <1>2 DEF IInv, Shape, FilesTruthful
<1>. QED BY <1>3, Invariance, PTL
=============================================================================
