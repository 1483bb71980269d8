-------------------------- MODULE CaptureWorkflow --------------------------
(***************************************************************************)
(* Sessions of one device under traffic.start, traffic.stop and            *)
(* CleanupService.cleanup (services/cleanup_service.py), called by any     *)
(* number of CLI processes and web threads, with actors that die at any    *)
(* step, calls that fail after taking effect, and others who change the    *)
(* device.  Ledger, device and state.json outlive the actors.              *)
(***************************************************************************)
EXTENDS TrafficCapture, FiniteSets

CONSTANT Racing   \* others may act between an operation's read and its write

ASSUME RacingAssumption == Racing \in BOOLEAN

vars == <<sessionVars, deviceVars, actorVars, cap>>

Labels == {"idle", "startLock", "spawn", "recordProcess", "recordReverse", "addReverse",
           "readProxy", "recordProxy", "putProxy", "running", "rollback", "endRollback",
           "stopLock", "stop", "evidence", "stopped", "activate",
           "next", "apply", "mark", "cleanup", "endCleanup"}

TypeOK ==
  /\ SessionTypeOK /\ DeviceTypeOK /\ CaptureTypeOK
  /\ lock \in Actors \cup {NoActor}
  /\ pc \in [Actors -> Labels]
  /\ on \in [Actors -> Sessions \cup {NoSession}]
  /\ frame \in [Actors -> Frames]
  /\ faults \in 0..MaxFaults
  /\ crashes \in 0..MaxCrashes
  /\ trespass \in BOOLEAN
  /\ spared \subseteq 0..MaxSpawns

Init ==
  /\ SessionInit /\ DeviceInit /\ CaptureInit
  /\ lock = NoActor
  /\ pc = [a \in Actors |-> "idle"]
  /\ on = [a \in Actors |-> NoSession]
  /\ frame = [a \in Actors |-> IdleFrame]
  /\ faults = 0
  /\ crashes = 0
  /\ trespass = FALSE
  /\ spared = {}

(***************************************************************************)
(* CleanupService.cleanup: under the device lock, stop a capture that is   *)
(* running, whatever comes of it, then clean up.                           *)
(***************************************************************************)
\* Mutation: a running capture is not stopped first.
CleanupLockNoStop(a, s) ==
  /\ pc[a] = "idle" /\ lock = NoActor /\ status[s] # "absent"
  /\ lock' = a
  /\ on' = [on EXCEPT ![a] = s]
  /\ frame' = [frame EXCEPT ![a] = [IdleFrame EXCEPT !.job = "cleanup"]]
  /\ Goto(a, "cleanup") /\ NoFault
  /\ UNCHANGED <<cap, sessionVars, deviceVars>>

CleanupLock(a, s) ==
  /\ pc[a] = "idle" /\ lock = NoActor /\ status[s] # "absent"
  /\ lock' = a
  /\ on' = [on EXCEPT ![a] = s]
  /\ frame' = [frame EXCEPT ![a] = [IdleFrame EXCEPT !.job = "cleanup"]]
  /\ Goto(a, IF cap[s].status = "running" THEN "stop" ELSE "cleanup") /\ NoFault
  /\ UNCHANGED <<cap, sessionVars, deviceVars>>

\* The actor's process dies, or an exception that nobody handles ends the
\* operation: the OS drops the lock, files and device stay as they are.
Crash(a) ==
  /\ pc[a] # "idle" /\ crashes < MaxCrashes
  /\ crashes' = crashes + 1
  /\ Return(a)
  /\ UNCHANGED <<cap, faults, trespass, spared, sessionVars, deviceVars>>

\* An operation has read the proxy, or the mappings, and writes it next: adb
\* has no compare-and-set that would close these gaps.
InProxyGap(a) ==
  \/ pc[a] \in {"recordProxy", "putProxy"}
  \/ pc[a] = "apply" /\ Action(a).kind = "proxy"
InReverseGap(a) ==
  \/ pc[a] \in {"spawn", "recordProcess", "recordReverse", "addReverse"}
  \/ pc[a] = "apply" /\ Action(a).kind = "reverse"

Interference ==
  /\ Environment
  /\ Racing \/ \A a \in Actors : /\ proxy' # proxy => ~InProxyGap(a)
                                 /\ reverse' # reverse => ~InReverseGap(a)
  /\ UNCHANGED <<sessionVars, actorVars, cap>>

Call(a) ==
  \E s \in Sessions : StartRequest(a, s) \/ StopRequest(a, s) \/ CleanupLock(a, s)

ActorStep(a) ==
  \/ ExecutorStep(a) /\ UNCHANGED cap
  \/ StartStep(a)
  \/ StopStep(a)

Next ==
  \/ \E a \in Actors : Call(a) \/ ActorStep(a) \/ Crash(a)
  \/ \E s \in Sessions : CreateSession(s) /\ UNCHANGED <<deviceVars, actorVars, cap>>
  \/ Interference

Spec == Init /\ [][Next]_vars

\* Every call of an operation returns: adb and process calls have timeouts, and
\* a held lock is refused at once.  Nobody has to call an operation.
FairSpec == Spec /\ \A a \in Actors : WF_vars(ActorStep(a))

(***************************************************************************)
(* Properties                                                              *)
(***************************************************************************)
OwedBy(s, kind, p) ==
  \E i \in Unsettled(s) : ledger[s][i].action.kind = kind /\ ledger[s][i].action.port = p

\* The device never carries a mapping of the framework that no session's ledger
\* still has to give back, whatever dies or fails: the action is recorded before
\* the change and settled after the restoration.
MappingsOwed ==
  \A p \in Ports : reverse[p] = "own" => \E s \in Sessions : OwedBy(s, "reverse", p)

\* The same of a proxy of the framework, with one exception: a capture that was
\* started over the proxy of a dead one remembers that proxy as the previous value,
\* and may put it back after the action of the dead one was settled.
PutBack(v) ==
  \E s \in Sessions : \E i \in Indices(s) :
    ledger[s][i].action.kind = "proxy" /\ ledger[s][i].action.prev = v
ProxyOwed ==
  proxy \in Ports => PutBack(proxy) \/ \E s \in Sessions : OwedBy(s, "proxy", proxy)

WriteAhead == MappingsOwed /\ ProxyOwed

\* Two sessions never both hold changes that nobody tried to give back yet,
\* although the slot was first checked before waiting for the device lock.
HasPending(s) == \E i \in Indices(s) : ledger[s][i].status = "pending"
OneOwner == \A s, t \in Sessions : HasPending(s) /\ HasPending(t) => s = t

\* A mitmdump process that no ledger and no running start knows of, although no call
\* of the OS ever let it pass for ended, was left by an actor that died between
\* starting it and recording it, one per death.
Known(n) ==
  \/ \E s \in Sessions : \E i \in Unsettled(s) :
       ledger[s][i].action.kind = "process" /\ ledger[s][i].action.proc = n
  \/ \E a \in Actors : frame[a].proc = n
OrphansOnlyByCrash == Cardinality({x \in alive : ~Known(x.id) /\ x.id \notin spared}) <= crashes

\* Nothing of the framework is on the device or the host without a ledger, or a
\* running operation, that knows of it, but for processes that passed for ended.
NothingUnrecorded == WriteAhead /\ OrphansOnlyByCrash

\* Once every ledger is settled, the proxy is what the outside world made it
\* last, also when it was changed, a call failed or an actor died in the middle
\* of a capture, and whichever session's actions were executed.
AllSettled == \A s \in Sessions : Unsettled(s) = {}
SettledMeansRestored == AllSettled => proxy = foreign

\* While nothing fails, dies or interferes, a capture that state.json calls
\* running works: nobody gives its resources back behind its back.
RunningIsLive ==
  lock = NoActor /\ faults = 0 /\ crashes = 0 /\ externals = 0 =>
    \A s \in Sessions : cap[s].status = "running" =>
      \E x \in alive : /\ proxy = x.port /\ reverse[x.port] = "own"
                       /\ \E i \in Unsettled(s) : ledger[s][i].action.proc = x.id

\* The cleanup of s, run alone and without failing calls, gives everything
\* back: going backwards through the ledger no action meets a conflict.
GiveBack(dev, s, x) ==
  LET e == x.action
      v == CASE x.status \in Settled \/ e.kind = "process" -> "skipped"
             [] x.status \notin Settled /\ e.kind = "proxy" -> ProxyVerdict(s, e, dev.proxy)
             [] OTHER -> ReverseVerdict(dev.reverse[e.port])
  IN [proxy |-> IF e.kind = "proxy" /\ v = "apply" THEN e.prev ELSE dev.proxy,
      reverse |-> IF e.kind = "reverse" /\ v = "apply"
                  THEN [dev.reverse EXCEPT ![e.port] = "none"] ELSE dev.reverse,
      ok |-> dev.ok /\ v \in {"apply", "skipped"}]
CleanupSucceeds(s) ==
  LET n == Len(ledger[s])
      after[i \in 0..n] ==
        IF i = n THEN [proxy |-> proxy, reverse |-> reverse, ok |-> TRUE]
        ELSE GiveBack(after[i + 1], s, ledger[s][i + 1])
  IN after[0].ok
Recoverable ==
  lock = NoActor /\ externals = 0 /\ crashes = 0 /\ ~trespass =>
    \A s \in Sessions :
      (\A t \in Sessions \ {s} : ~PendingCleanup(t)) => CleanupSucceeds(s)

\* An action ends in a conflict only if somebody else changed the resource, or
\* if an action recorded later, which has to be given back first, was tried and
\* could not be; actors that die and repeated stops are excluded.
ConflictHasCause ==
  externals = 0 /\ crashes = 0 /\ ~trespass =>
    \A a \in Actors : pc[a] = "mark" /\ frame[a].verdict = "conflict" =>
      \E j \in Indices(on[a]) :
        /\ j > frame[a].current
        /\ ledger[on[a]][j].status \in {"failed", "conflict"}
        /\ ledger[on[a]][j].action.kind = "proxy"
        /\ ledger[on[a]][j].action.port = proxy

\* A session that becomes active again after it was cleaned, because its creation
\* or a late stop ends then, owes nothing to the device: it can be forgotten.
ReactivatedOwesNothing ==
  [][\A s \in Sessions : status[s] = "cleaned" /\ status'[s] = "active" => Unsettled(s) = {}]_vars

\* Outside the gaps, the framework never changes a mapping that somebody else made, nor a proxy
\* that somebody else set, except to start a capture whose ledger remembers it.
Remembered(v) ==
  \E a \in Actors : pc[a] = "putProxy" /\ frame[a].prev = v
ForeignKept ==
  externals' = externals =>
    /\ proxy \in External /\ proxy' # proxy => Remembered(proxy)
    /\ \A p \in Ports : reverse[p] = "other" => reverse'[p] = "other"
NoExternalOverwrite == [][ForeignKept]_vars

\* What the ledger of one session still has to give back is only given back by
\* an operation on that session, never by one on another.
Released(s, i) ==
  LET e == ledger[s][i].action IN
  /\ ledger[s][i].status = "pending"
  /\ \/ e.kind = "proxy" /\ proxy = e.port /\ proxy' # proxy
     \/ e.kind = "reverse" /\ reverse[e.port] = "own" /\ reverse'[e.port] # "own"
ForeignRelease ==
  \E s \in Sessions : \E i \in Indices(s) :
    Released(s, i) /\ \E a \in Actors : pc[a] = "apply" /\ on[a] # s
NoForeignRelease == [][~ForeignRelease]_vars

\* Every operation that was called returns.
Returns == \A a \in Actors : pc[a] # "idle" ~> pc[a] = "idle"
=============================================================================
