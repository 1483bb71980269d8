---------------------- MODULE CaptureWorkflow_proofs ----------------------
(***************************************************************************)
(* For every set of sessions, actors and ports and every bound: the        *)
(* capture workflow keeps its type invariant; two sessions never both hold *)
(* changes that nobody tried to give back; nothing of the framework is on  *)
(* the device unrecorded; a session that is reopened owes nothing; and     *)
(* outside the gaps that adb leaves open, the settings of others are kept  *)
(* and are back once every ledger is settled.  While nothing fails, dies   *)
(* or interferes, a capture that is called running works; while nobody     *)
(* dies or interferes, only what was tried in vain leads to a conflict.    *)
(***************************************************************************)
EXTENDS CaptureWorkflow, SequenceTheorems, FiniteSetTheorems, WellFoundedInduction, TLAPS

Entries == [action : Actions, status : EntryStatuses]

\* The steps of start under the device lock, and the steps of going through
\* ledger actions.
StartLabels == {"spawn", "recordProcess", "recordReverse", "addReverse",
                "readProxy", "recordProxy", "putProxy", "running"}
ExecutingLabels == {"next", "apply", "mark"}

\* An action id that points into the ledger of s.
Points(s, n) == n \in Indices(s)

\* The steps of stop that rely on state.json.
Stopping(a) ==
  \/ pc[a] \in {"stopLock", "stop", "evidence", "stopped"}
  \/ pc[a] \in ExecutingLabels /\ frame[a].phase = "stop"

\* What an actor's local variables say fits the step it is at.
ActorFits(a) ==
  /\ pc[a] # "idle" => on[a] \in Sessions
  /\ pc[a] \notin {"idle", "startLock", "stopLock"} => lock = a
  /\ Stopping(a) => cap[on[a]].status # "none"
  /\ pc[a] \in ExecutingLabels => \A i \in frame[a].todo : Points(on[a], i)
  /\ pc[a] \in {"apply", "mark"} => Points(on[a], frame[a].current)
  /\ pc[a] \in StartLabels \cup {"startLock"} =>
       /\ frame[a].port \in Ports
       /\ \A k \in Kinds : frame[a].ids[k] # 0 => Points(on[a], frame[a].ids[k])
       /\ \A k \in frame[a].made : frame[a].ids[k] # 0
       /\ pc[a] \notin {"startLock", "spawn", "recordProcess"} => frame[a].ids["process"] # 0
       /\ pc[a] = "addReverse" => frame[a].ids["reverse"] # 0
       /\ pc[a] = "putProxy" => frame[a].ids["proxy"] # 0

\* state.json names actions of its session for what stop will give back.
CaptureFits(s) ==
  cap[s].status # "none" =>
    /\ Points(s, cap[s].ids["process"])
    /\ \A k \in cap[s].made : Points(s, cap[s].ids[k])

Shape ==
  /\ TypeOK
  /\ \A a \in Actors : ActorFits(a)
  /\ \A s \in Sessions : CaptureFits(s)

\* A cleaned session has no pending action, and while a start is under way no
\* other session has one.
CleanedOwesNothing == \A s \in Sessions : status[s] = "cleaned" => ~HasPending(s)
StartOwnsDevice ==
  \A a \in Actors : pc[a] \in StartLabels => \A t \in Sessions \ {on[a]} : ~HasPending(t)

Ownership == OneOwner /\ CleanedOwesNothing /\ StartOwnsDevice

IInv == Shape /\ Ownership

(***************************************************************************)
(* The calls on the device and on the ledger keep their types.             *)
(***************************************************************************)
\* The adb and process calls.
LEMMA DeviceCalls ==
  ASSUME DeviceAssumption, DeviceTypeOK
  PROVE  /\ \A v \in ProxyValues, took \in BOOLEAN : PutSetting(v, took) => DeviceTypeOK'
         /\ \A p \in Ports, v \in {"none", "own"}, took \in BOOLEAN :
              SetReverse(p, v, took) => DeviceTypeOK'
         /\ \A p \in Ports : Spawn(p) => DeviceTypeOK' /\ spawned + 1 \in 0..MaxSpawns
         /\ \A n \in Nat : Terminate(n) => DeviceTypeOK'
<1>. USE DEF DeviceAssumption, DeviceTypeOK, ProcIds
<1>1. ASSUME NEW v \in ProxyValues, NEW took \in BOOLEAN, PutSetting(v, took)
      PROVE  DeviceTypeOK'
  BY <1>1 DEF PutSetting
<1>2. ASSUME NEW p \in Ports, NEW v \in {"none", "own"}, NEW took \in BOOLEAN,
             SetReverse(p, v, took)
      PROVE  DeviceTypeOK'
  BY <1>2 DEF SetReverse
<1>3. ASSUME NEW p \in Ports, Spawn(p)
      PROVE  DeviceTypeOK' /\ spawned + 1 \in 0..MaxSpawns
  BY <1>3 DEF Spawn
<1>4. ASSUME NEW n \in Nat, Terminate(n)
      PROVE  DeviceTypeOK'
  BY <1>4 DEF Terminate
<1>. QED BY <1>1, <1>2, <1>3, <1>4

\* What others do keeps the types as well.
LEMMA EnvironmentType ==
  ASSUME DeviceAssumption, DeviceTypeOK, Environment
  PROVE  DeviceTypeOK'
<1>. USE DEF DeviceAssumption, DeviceTypeOK, ProcIds, ExternalChange
<1>1. ASSUME NEW v \in External \cup {NoProxy}, ProxyChanged(v)
      PROVE  DeviceTypeOK'
  BY <1>1 DEF ProxyChanged, ProxyValues
<1>2. CASE ReversesLost
  BY <1>2 DEF ReversesLost
<1>3. ASSUME NEW p \in Ports, ReverseTaken(p)
      PROVE  DeviceTypeOK'
  BY <1>3 DEF ReverseTaken
<1>4. ASSUME NEW x \in alive, ProcessExits(x)
      PROVE  DeviceTypeOK'
  BY <1>4 DEF ProcessExits
<1>5. ASSUME NEW n \in ProcIds, PidReused(n)
      PROVE  DeviceTypeOK'
  BY <1>5 DEF PidReused
<1>. QED BY <1>1, <1>2, <1>3, <1>4, <1>5 DEF Environment

\* Changing the status of a session.
LEMMA SetStatusFacts ==
  ASSUME SessionTypeOK, NEW s \in Sessions, NEW v \in Statuses, SetStatus(s, v)
  PROVE  SessionTypeOK' /\ ledger' = ledger /\ status' = [status EXCEPT ![s] = v]
  BY DEF SessionTypeOK, SetStatus

\* The ledger of a session is a sequence of entries.
LEMMA LedgerFacts ==
  ASSUME SessionTypeOK, NEW s \in Sessions
  PROVE  /\ ledger[s] \in Seq(Entries) /\ Len(ledger[s]) \in Nat
         /\ \A i \in Indices(s) : i \in Nat /\ i > 0 /\ ledger[s][i] \in Entries
<1>1. ledger[s] \in Seq(Entries)
  BY DEF SessionTypeOK, Entries
<1>2. Len(ledger[s]) \in Nat
  BY <1>1, LenProperties
<1>3. \A i \in 1..Len(ledger[s]) : ledger[s][i] \in Entries
  BY <1>1, ElementOfSeq
<1>. QED BY <1>1, <1>2, <1>3 DEF Indices

\* Marking an action changes the status of that entry and nothing else.
LEMMA UpdateFacts ==
  ASSUME SessionTypeOK, NEW s \in Sessions, NEW i \in Indices(s), NEW v \in EntryStatuses,
         UpdateAction(s, i, v)
  PROVE  /\ SessionTypeOK' /\ UNCHANGED status
         /\ \A t \in Sessions : Indices(t)' = Indices(t)
         /\ \A t \in Sessions : \A j \in Indices(t) :
              ledger'[t][j].status = IF t = s /\ j = i THEN v ELSE ledger[t][j].status
<1>. DEFINE e == [ledger[s][i] EXCEPT !.status = v]
            L == [ledger[s] EXCEPT ![i] = e]
<1>1. ledger' = [ledger EXCEPT ![s] = L] /\ UNCHANGED <<status, captured, creating>>
  BY DEF UpdateAction
<1>2. ledger[s] \in Seq(Entries) /\ i \in 1..Len(ledger[s]) /\ ledger[s][i] \in Entries
  BY LedgerFacts DEF Indices
<1>3. e \in Entries /\ e.status = v
  BY <1>2 DEF Entries
<1>4. L \in Seq(Entries) /\ Len(L) = Len(ledger[s])
      /\ \A j \in 1..Len(ledger[s]) : L[j] = IF j = i THEN e ELSE ledger[s][j]
  <2>. HIDE DEF e
  <2>. QED BY <1>2, <1>3, ExceptSeq
<1>. HIDE DEF e, L
<1>5. SessionTypeOK'
  BY <1>1, <1>4 DEF SessionTypeOK, Entries
<1>6. \A t \in Sessions : ledger'[t] = IF t = s THEN L ELSE ledger[t]
  BY <1>1 DEF SessionTypeOK
<1>7. \A t \in Sessions : Indices(t)' = Indices(t)
  BY <1>4, <1>6 DEF Indices
<1>8. \A t \in Sessions : \A j \in Indices(t) :
        ledger'[t][j].status = IF t = s /\ j = i THEN v ELSE ledger[t][j].status
  BY <1>3, <1>4, <1>6 DEF Indices
<1>. QED BY <1>1, <1>5, <1>7, <1>8

\* Recording an action adds one entry to the ledger of one session.
LEMMA RecordFacts ==
  ASSUME SessionTypeOK, NEW s \in Sessions, NEW e \in Actions, RecordAction(s, e)
  PROVE  /\ SessionTypeOK'
         /\ status[s] # "cleaned" /\ status' = [status EXCEPT ![s] = "cleanup_required"]
         /\ \A t \in Sessions : \A j \in Indices(t) : j \in Indices(t)'
         /\ Len(ledger[s]) + 1 \in Nat \ {0} /\ Len(ledger[s]) + 1 \in Indices(s)'
         /\ \A t \in Sessions \ {s} : ledger'[t] = ledger[t]
<1>. DEFINE x == [action |-> e, status |-> "pending"]
            L == Append(ledger[s], x)
<1>1. /\ status[s] # "cleaned" /\ ledger' = [ledger EXCEPT ![s] = L]
      /\ status' = [status EXCEPT ![s] = "cleanup_required"]
      /\ UNCHANGED <<captured, creating>>
  BY DEF RecordAction
<1>2. x \in Entries
  BY DEF Entries, EntryStatuses
<1>3. ledger[s] \in Seq(Entries) /\ Len(ledger[s]) \in Nat
  BY LedgerFacts
<1>4. L \in Seq(Entries) /\ Len(L) = Len(ledger[s]) + 1
  <2>. HIDE DEF x
  <2>. QED BY <1>2, <1>3, AppendProperties
<1>. HIDE DEF x, L
<1>5. \A t \in Sessions : ledger'[t] = IF t = s THEN L ELSE ledger[t]
  BY <1>1 DEF SessionTypeOK
<1>6. SessionTypeOK'
  BY <1>1, <1>4 DEF SessionTypeOK, Entries, Statuses
<1>7. \A t \in Sessions : \A j \in Indices(t) : j \in Indices(t)'
  BY <1>3, <1>4, <1>5 DEF Indices
<1>8. Len(ledger[s]) + 1 \in Nat \ {0} /\ Len(ledger[s]) + 1 \in Indices(s)'
  BY <1>3, <1>4, <1>5 DEF Indices
<1>. QED BY <1>1, <1>5, <1>6, <1>7, <1>8

(***************************************************************************)
(* One step of one actor.                                                  *)
(***************************************************************************)
\* A call succeeds, fails, or fails unnoticed.
Counted == NoFault \/ Fault \/ \E n \in 0..MaxSpawns : Spare(n)

CountersFit ==
  /\ faults \in 0..MaxFaults
  /\ crashes \in 0..MaxCrashes
  /\ trespass \in BOOLEAN
  /\ spared \subseteq 0..MaxSpawns

ActorTypes ==
  /\ lock \in Actors \cup {NoActor}
  /\ pc \in [Actors -> Labels]
  /\ on \in [Actors -> Sessions \cup {NoSession}]
  /\ frame \in [Actors -> Frames]
  /\ CountersFit

\* Only a moves, and it takes the lock from nobody and gives away only its own.
Alone(a) ==
  /\ \A b \in Actors \ {a} : pc'[b] = pc[b] /\ on'[b] = on[b] /\ frame'[b] = frame[b]
  /\ lock' = lock \/ lock \in {a, NoActor}

\* What a step of a has to respect so that the shape of the state is kept.
LEMMA ShapeStep ==
  ASSUME ActorAssumption, Shape, NEW a \in Actors, Alone(a),
         SessionTypeOK', DeviceTypeOK', CaptureTypeOK', ActorTypes',
         \A s \in Sessions : \A j \in Indices(s) : j \in Indices(s)',
         \A s \in Sessions : cap[s].status # "none" => cap'[s].status # "none",
         ActorFits(a)', \A s \in Sessions : CaptureFits(s)'
  PROVE  Shape'
<1>1. ASSUME NEW b \in Actors \ {a}
      PROVE  ActorFits(b)'
  <2>1. pc'[b] = pc[b] /\ on'[b] = on[b] /\ frame'[b] = frame[b]
    BY <1>1 DEF Alone
  <2>2. ActorFits(b)
    BY <1>1 DEF Shape
  <2>3. lock = b => lock' = b
    BY <1>1 DEF Alone, ActorAssumption
  <2>4. CASE pc[b] = "idle"
    BY <2>1, <2>4 DEF ActorFits, Stopping, StartLabels, ExecutingLabels
  <2>5. CASE pc[b] # "idle"
    <3>1. on[b] \in Sessions
      BY <2>2, <2>5 DEF ActorFits, Stopping
    <3>2. \A j : Points(on[b], j) => Points(on[b], j)'
      BY <2>1, <3>1 DEF Points, Indices
    <3>3. cap[on[b]].status # "none" => cap'[on'[b]].status # "none"
      BY <2>1, <3>1
    <3>. QED
      <4>. HIDE DEF Points
      <4>. QED BY <2>1, <2>2, <2>3, <3>1, <3>2, <3>3 DEF ActorFits, Stopping
  <2>. QED BY <2>4, <2>5
<1>2. TypeOK'
  BY DEF TypeOK, ActorTypes, CountersFit
<1>. QED BY <1>1, <1>2 DEF Shape

\* A step that leaves state.json and the ledgers alone.
LEMMA QuietStep ==
  ASSUME ActorAssumption, Shape, NEW a \in Actors, Alone(a), UNCHANGED <<cap, ledger>>,
         SessionTypeOK', DeviceTypeOK', ActorTypes', ActorFits(a)'
  PROVE  Shape'
<1>1. CaptureTypeOK'
  BY DEF Shape, TypeOK, CaptureTypeOK
<1>2. \A s \in Sessions : \A j \in Indices(s) : j \in Indices(s)'
  BY DEF Indices
<1>3. \A s \in Sessions : CaptureFits(s)'
  BY DEF Shape, CaptureFits, Points, Indices
<1>. QED BY <1>1, <1>2, <1>3, ShapeStep

\* An operation that returns leaves nothing to say about its actor.
LEMMA ReturnStep ==
  ASSUME DeviceAssumption, ActorAssumption, Shape, NEW a \in Actors, Return(a), UNCHANGED <<cap, ledger>>,
         SessionTypeOK', DeviceTypeOK',
         CountersFit'
  PROVE  Shape'
<1>1. IdleFrame \in Frames
  <2>1. NoIds \in [Kinds -> Nat]
    BY DEF NoIds
  <2>2. 0 \in 0..MaxSpawns
    BY DEF DeviceAssumption
  <2>. QED BY <2>1, <2>2 DEF IdleFrame, Frames, Jobs, Phases, Verdicts, EntryStatuses, ProxyValues
<1>2. ActorTypes'
  BY <1>1 DEF Return, ActorTypes, Shape, TypeOK, Labels
<1>3. Alone(a) /\ pc'[a] = "idle"
  BY DEF Return, Alone, Shape, TypeOK
<1>4. ActorFits(a)'
  BY <1>3 DEF ActorFits, Stopping, StartLabels, ExecutingLabels
<1>. QED BY <1>2, <1>3, <1>4, QuietStep

\* An actor under way works on a session, and past its first steps holds the lock.
LEMMA UnderWay ==
  ASSUME Shape, NEW a \in Actors
  PROVE  /\ frame[a] \in Frames /\ pc[a] \in Labels
         /\ pc[a] # "idle" => on[a] \in Sessions
         /\ pc[a] \notin {"idle", "startLock", "stopLock"} => lock = a
         /\ SessionTypeOK /\ DeviceTypeOK /\ CaptureTypeOK
  BY DEF Shape, TypeOK, ActorFits

\* The counters and the history variable.
LEMMA CounterTypes ==
  ASSUME ActorAssumption, Shape, Counted
  PROVE  CountersFit'
<1>1. CountersFit /\ MaxFaults \in Nat
  BY DEF ActorAssumption, Shape, TypeOK, CountersFit
<1>2. CASE NoFault
  BY <1>1, <1>2 DEF NoFault, CountersFit
<1>4. CASE Fault
  BY <1>1, <1>4 DEF Fault, CountersFit
<1>3. ASSUME NEW n \in 0..MaxSpawns, Spare(n) PROVE CountersFit'
  BY <1>1, <1>3 DEF Spare, CountersFit
<1>. QED BY <1>2, <1>3, <1>4 DEF Counted

\* Going on to the next step of the same operation.
LEMMA MoveFacts ==
  ASSUME Shape, NEW a \in Actors, NEW l \in Labels, Goto(a, l), Keep(a),
         NEW f \in Frames, frame' = [frame EXCEPT ![a] = f],
         CountersFit'
  PROVE  /\ ActorTypes' /\ Alone(a)
         /\ pc'[a] = l /\ on'[a] = on[a] /\ frame'[a] = f /\ lock' = lock
  BY DEF Shape, TypeOK, ActorTypes, Alone, Goto, Keep

\* Changing some of the local variables.
LEMMA FrameFacts ==
  ASSUME NEW f \in Frames
  PROVE  /\ \A i \in Nat, v \in Verdicts : [f EXCEPT !.current = i, !.verdict = v] \in Frames
         /\ \A v \in Verdicts : [f EXCEPT !.verdict = v] \in Frames
         /\ \A I \in SUBSET Nat, e \in BOOLEAN : [f EXCEPT !.todo = I, !.errors = e] \in Frames
         /\ \A p \in Phases, I \in SUBSET Nat, r \in BOOLEAN :
              /\ [f EXCEPT !.phase = p, !.todo = I, !.ready = r] \in Frames
              /\ [f EXCEPT !.phase = p, !.registered = r, !.todo = I] \in Frames
         /\ \A r \in BOOLEAN : [f EXCEPT !.registered = r] \in Frames
         /\ \A r \in BOOLEAN : [f EXCEPT !.errors = r] \in Frames
         /\ \A r \in BOOLEAN : [f EXCEPT !.adopt = r] \in Frames
         /\ \A v \in ProxyValues : [f EXCEPT !.prev = v] \in Frames
         /\ \A n \in 0..MaxSpawns : [f EXCEPT !.proc = n] \in Frames
         /\ \A K \in SUBSET Kinds : [f EXCEPT !.made = K] \in Frames
         /\ \A I \in [Kinds -> Nat] : [f EXCEPT !.ids = I] \in Frames
<1>1. /\ \A i \in Nat, v \in Verdicts : [f EXCEPT !.current = i, !.verdict = v] \in Frames
      /\ \A v \in Verdicts : [f EXCEPT !.verdict = v] \in Frames
      /\ \A I \in SUBSET Nat, e \in BOOLEAN : [f EXCEPT !.todo = I, !.errors = e] \in Frames
  BY DEF Frames
<1>2. \A p \in Phases, I \in SUBSET Nat, r \in BOOLEAN :
        /\ [f EXCEPT !.phase = p, !.todo = I, !.ready = r] \in Frames
        /\ [f EXCEPT !.phase = p, !.registered = r, !.todo = I] \in Frames
  BY DEF Frames
<1>3. /\ \A r \in BOOLEAN : [f EXCEPT !.registered = r] \in Frames
      /\ \A r \in BOOLEAN : [f EXCEPT !.errors = r] \in Frames
      /\ \A r \in BOOLEAN : [f EXCEPT !.adopt = r] \in Frames
  BY DEF Frames
<1>4. /\ \A v \in ProxyValues : [f EXCEPT !.prev = v] \in Frames
      /\ \A n \in 0..MaxSpawns : [f EXCEPT !.proc = n] \in Frames
      /\ \A K \in SUBSET Kinds : [f EXCEPT !.made = K] \in Frames
      /\ \A I \in [Kinds -> Nat] : [f EXCEPT !.ids = I] \in Frames
  BY DEF Frames
<1>. QED BY <1>1, <1>2, <1>3, <1>4

\* What a ledger action holds.
LEMMA ActionFacts ==
  ASSUME DeviceAssumption, SessionTypeOK, NEW s \in Sessions, NEW i, Points(s, i)
  PROVE  /\ i \in Nat /\ ledger[s][i].action \in Actions
         /\ ledger[s][i].action.kind \in Kinds /\ ledger[s][i].action.port \in Ports
         /\ ledger[s][i].action.prev \in ProxyValues
         /\ ledger[s][i].action.proc \in Nat /\ ledger[s][i].action.proc \in 0..MaxSpawns
<1>1. i \in Nat /\ ledger[s][i] \in Entries
  BY LedgerFacts DEF Points
<1>. QED BY <1>1 DEF Entries, Actions, DeviceAssumption

\* Deciding about an action, without its effect.
LEMMA DecideShape ==
  ASSUME DeviceAssumption, ActorAssumption, Shape, NEW a \in Actors,
         Decide(a), UNCHANGED cap
  PROVE  Shape'
<1>1. PICK i \in frame[a].todo, x \in Verdicts, l \in {"apply", "mark"} :
        /\ frame' = [frame EXCEPT ![a] = [frame[a] EXCEPT !.current = i, !.verdict = x]]
        /\ Goto(a, l) /\ Counted
  <2>. DEFINE v(i) == DeviceVerdict(on[a], ledger[on[a]][i].action)
              With(i, x) == frame' = [frame EXCEPT ![a].current = i, ![a].verdict = x]
  <2>1. PICK i \in frame[a].todo :
          \/ With(i, "failed") /\ Goto(a, "mark") /\ (NoFault \/ Fault)
          \/ With(i, "skipped") /\ Goto(a, "mark") /\ Spare(ledger[on[a]][i].action.proc)
          \/ With(i, "completed") /\ Goto(a, "apply") /\ NoFault
          \/ v(i) # "apply" /\ With(i, v(i)) /\ Goto(a, "mark") /\ NoFault
    BY DEF Decide
  <2>2. v(i) \in Verdicts \cup {"apply"}
    BY DEF DeviceVerdict, ProxyVerdict, ReverseVerdict, ProcessVerdict, Verdicts, EntryStatuses
  <2>3. {"failed", "completed", "skipped"} \subseteq Verdicts
    BY DEF Verdicts, EntryStatuses
  <2>5. ledger[on[a]][i].action.proc \in 0..MaxSpawns
    <3>1. on[a] \in Sessions /\ Points(on[a], i) /\ SessionTypeOK
      BY UnderWay DEF Decide, Shape, ActorFits, Stopping, ExecutingLabels
    <3>. QED BY <3>1, ActionFacts
  <2>4. \A x : With(i, x) =>
          frame' = [frame EXCEPT ![a] = [frame[a] EXCEPT !.current = i, !.verdict = x]]
    BY DEF Shape, TypeOK
  <2>. HIDE DEF v, With
  <2>. QED BY <2>1, <2>2, <2>3, <2>4, <2>5 DEF Counted
<1>2. /\ pc[a] = "next" /\ on[a] \in Sessions /\ lock = a /\ frame[a] \in Frames
      /\ SessionTypeOK /\ DeviceTypeOK
  BY UnderWay DEF Decide
<1>3. /\ \A j \in frame[a].todo : Points(on[a], j)
      /\ frame[a].phase = "stop" => cap[on[a]].status # "none"
  BY <1>2 DEF Shape, ActorFits, Stopping, ExecutingLabels
<1>4. i \in Nat
  BY <1>2, <1>3, ActionFacts
<1>5. [frame[a] EXCEPT !.current = i, !.verdict = x] \in Frames
  BY <1>2, <1>4, FrameFacts
<1>6. /\ ActorTypes' /\ Alone(a) /\ pc'[a] = l /\ on'[a] = on[a] /\ lock' = lock
      /\ frame'[a] = [frame[a] EXCEPT !.current = i, !.verdict = x]
  <2>1. l \in Labels /\ Keep(a)
    BY DEF Decide, Labels
  <2>2. CountersFit'
    BY <1>1, CounterTypes
  <2>. QED BY ONLY Shape, a \in Actors, <1>1, <1>5, <2>1, <2>2, MoveFacts
<1>7. UNCHANGED <<cap, ledger>> /\ SessionTypeOK' /\ DeviceTypeOK'
  BY <1>2 DEF Decide, sessionVars, deviceVars, SessionTypeOK, DeviceTypeOK
<1>8. frame'[a].current = i /\ frame'[a].todo = frame[a].todo /\ frame'[a].phase = frame[a].phase
  BY <1>2, <1>6 DEF Frames
<1>9. ActorFits(a)'
  BY <1>2, <1>3, <1>6, <1>7, <1>8 DEF ActorFits, Stopping, StartLabels, ExecutingLabels, Points, Indices
<1>. QED BY <1>6, <1>7, <1>9, QuietStep

\* Giving back one change of the device, or failing to.
LEMMA ApplyShape ==
  ASSUME DeviceAssumption, ActorAssumption, Shape, NEW a \in Actors,
         Apply(a), UNCHANGED cap
  PROVE  Shape'
<1>. DEFINE e == Action(a)
<1>1. /\ pc[a] = "apply" /\ on[a] \in Sessions /\ lock = a /\ frame[a] \in Frames
      /\ SessionTypeOK /\ DeviceTypeOK
  BY UnderWay DEF Apply
<1>2. /\ \A i \in frame[a].todo : Points(on[a], i)
      /\ Points(on[a], frame[a].current)
      /\ frame[a].phase = "stop" => cap[on[a]].status # "none"
  BY <1>1 DEF Shape, ActorFits, Stopping, ExecutingLabels
<1>3. e.port \in Ports /\ e.prev \in ProxyValues /\ e.proc \in Nat /\ e.proc \in 0..MaxSpawns
  BY <1>1, <1>2, ActionFacts DEF Action
<1>4. UNCHANGED deviceVars \/ \E took \in BOOLEAN : Effect(e, took)
  BY DEF Apply
<1>5. DeviceTypeOK'
  <2>. HIDE DEF e
  <2>1. CASE UNCHANGED deviceVars
    BY <1>1, <2>1 DEF deviceVars, DeviceTypeOK
  <2>2. ASSUME NEW took \in BOOLEAN, Effect(e, took)
        PROVE  DeviceTypeOK'
    <3>1. (IF took THEN e.proc ELSE 0) \in Nat
      BY <1>3
    <3>. QED BY <1>1, <1>3, <2>2, <3>1, DeviceCalls DEF Effect
  <2>. QED BY <1>4, <2>1, <2>2
<1>6. PICK f \in Frames :
        /\ frame' = [frame EXCEPT ![a] = f] /\ Counted
        /\ f.todo = frame[a].todo /\ f.current = frame[a].current /\ f.phase = frame[a].phase
  <2>1. CASE UNCHANGED frame /\ Counted
    BY <1>1, <2>1 DEF Shape, TypeOK
  <2>2. CASE frame' = [frame EXCEPT ![a].verdict = "failed"] /\ Counted
    <3>1. [frame[a] EXCEPT !.verdict = "failed"] \in Frames
      BY <1>1, FrameFacts DEF Verdicts, EntryStatuses
    <3>. QED BY <1>1, <2>2, <3>1 DEF Shape, TypeOK, Frames
  <2>. HIDE DEF e
  <2>3. Spare(e.proc) => Counted
    BY <1>3 DEF Counted
  <2>. QED BY <2>1, <2>2, <2>3 DEF Apply, Counted, e
<1>7. /\ ActorTypes' /\ Alone(a) /\ pc'[a] = "mark" /\ on'[a] = on[a] /\ frame'[a] = f
      /\ lock' = lock
  <2>1. "mark" \in Labels /\ Keep(a) /\ Goto(a, "mark")
    BY DEF Apply, Labels
  <2>2. CountersFit'
    BY <1>6, CounterTypes
  <2>. QED BY ONLY Shape, a \in Actors, <1>6, <2>1, <2>2, MoveFacts
<1>8. UNCHANGED <<cap, ledger>> /\ SessionTypeOK'
  BY <1>1 DEF Apply, sessionVars, SessionTypeOK
<1>9. ActorFits(a)'
  BY <1>1, <1>2, <1>6, <1>7, <1>8 DEF ActorFits, Stopping, StartLabels, ExecutingLabels, Points, Indices
<1>. QED BY <1>5, <1>7, <1>8, <1>9, QuietStep

\* Marking the action in hand and going on to the next one.
LEMMA MarkShape ==
  ASSUME DeviceAssumption, ActorAssumption, Shape, NEW a \in Actors,
         Mark(a), UNCHANGED cap
  PROVE  Shape'
<1>. DEFINE rest == frame[a].todo \ {frame[a].current}
            bad == frame[a].errors \/ frame[a].verdict \notin Settled
            f == [frame[a] EXCEPT !.todo = rest, !.errors = bad]
            l == IF rest = {} THEN AfterActions(a) ELSE "next"
<1>1. /\ pc[a] = "mark" /\ on[a] \in Sessions /\ lock = a /\ frame[a] \in Frames
      /\ SessionTypeOK /\ DeviceTypeOK
  BY UnderWay DEF Mark
<1>2. /\ \A i \in frame[a].todo : Points(on[a], i)
      /\ Points(on[a], frame[a].current)
      /\ frame[a].phase = "stop" => cap[on[a]].status # "none"
  BY <1>1 DEF Shape, ActorFits, Stopping, ExecutingLabels
<1>3. frame[a].verdict \in EntryStatuses
  BY <1>1 DEF Frames, Verdicts
<1>4. /\ SessionTypeOK'
      /\ \A t \in Sessions : Indices(t)' = Indices(t)
  BY <1>1, <1>2, <1>3, UpdateFacts DEF Mark, Points
<1>5. f \in Frames
  <2>1. rest \in SUBSET Nat /\ bad \in BOOLEAN
    BY <1>1 DEF Frames
  <2>. HIDE DEF rest, bad
  <2>. QED BY <1>1, <2>1, FrameFacts
<1>6. frame' = [frame EXCEPT ![a] = f]
  BY DEF Mark, Shape, TypeOK
<1>7. /\ ActorTypes' /\ Alone(a) /\ pc'[a] = l /\ on'[a] = on[a] /\ frame'[a] = f
      /\ lock' = lock
  <2>1. l \in Labels /\ Keep(a) /\ Goto(a, l)
    BY DEF Mark, AfterActions, Labels
  <2>2. CountersFit'
    BY CounterTypes DEF Mark, Counted
  <2>. HIDE DEF l, f
  <2>. QED BY ONLY Shape, a \in Actors, <1>5, <1>6, <2>1, <2>2, MoveFacts
<1>8. DeviceTypeOK' /\ CaptureTypeOK'
  BY <1>1, UnderWay DEF Mark, deviceVars, DeviceTypeOK, CaptureTypeOK
<1>9. ActorFits(a)'
  <2>1. /\ f.todo = rest /\ f.phase = frame[a].phase
        /\ l \notin {"apply", "mark", "stop", "stopLock", "stopped", "startLock"} \cup StartLabels
        /\ l = "evidence" => f.phase = "stop"
    BY <1>1 DEF Frames, AfterActions, StartLabels
  <2>3. cap' = cap
    OBVIOUS
  <2>2. \A i \in rest : Points(on[a], i)'
    BY <1>1, <1>2, <1>4, <1>7 DEF Points
  <2>. HIDE DEF f, rest, l
  <2>. QED BY <1>1, <1>2, <1>7, <2>1, <2>2, <2>3 DEF ActorFits, Stopping, ExecutingLabels
<1>10. \A s \in Sessions : CaptureFits(s)'
  BY <1>4 DEF Shape, CaptureFits, Points
<1>. HIDE DEF f, l
<1>. QED BY <1>4, <1>7, <1>8, <1>9, <1>10, ShapeStep

\* What a loop over ledger actions starts from.
LEMMA BeginFacts ==
  ASSUME ActorAssumption, Shape, NEW a \in Actors, on[a] \in Sessions,
         NEW p \in Phases, NEW I \in SUBSET Indices(on[a]), Begin(a, p, I)
  PROVE  /\ \E f \in Frames : frame' = [frame EXCEPT ![a] = f] /\ f.todo = I /\ f.phase = p
         /\ CountersFit'
<1>1. frame[a] \in Frames /\ SessionTypeOK
  BY UnderWay
<1>2. I \in SUBSET Nat
  BY <1>1, LedgerFacts
<1>3. PICK r \in BOOLEAN :
        frame' = [frame EXCEPT ![a].phase = p, ![a].todo = I, ![a].ready = r]
  BY DEF Begin
<1>. DEFINE f == [frame[a] EXCEPT !.phase = p, !.todo = I, !.ready = r]
<1>4. f \in Frames
  BY <1>1, <1>2, FrameFacts
<1>5. frame' = [frame EXCEPT ![a] = f] /\ f.todo = I /\ f.phase = p
  BY <1>1, <1>3 DEF Shape, TypeOK, Frames
<1>6. CountersFit'
  BY DEF Begin, Trespassing, ActorAssumption, Shape, TypeOK, CountersFit
<1>. QED BY <1>4, <1>5, <1>6

\* Starting such a loop, in rollback_actions or in cleanup; there may be nothing to do.
LEMMA LoopShape ==
  ASSUME ActorAssumption, Shape, NEW a \in Actors,
         pc[a] \in {"rollback", "cleanup"},
         NEW p \in Phases \ {"stop"}, NEW I \in SUBSET Indices(on[a]), Begin(a, p, I),
         NEW l \in {"endRollback", "endCleanup", "next"}, Goto(a, l), Keep(a),
         UNCHANGED <<cap, ledger, deviceVars>>, SessionTypeOK'
  PROVE  Shape'
<1>1. on[a] \in Sessions /\ lock = a /\ DeviceTypeOK
  BY UnderWay
<1>2. PICK f \in Frames : frame' = [frame EXCEPT ![a] = f] /\ f.todo = I /\ f.phase = p
  BY <1>1, BeginFacts
<1>3. /\ ActorTypes' /\ Alone(a) /\ pc'[a] = l /\ on'[a] = on[a] /\ frame'[a] = f
      /\ lock' = lock
  <2>1. l \in Labels
    BY DEF Labels
  <2>2. CountersFit'
    BY <1>1, BeginFacts
  <2>. QED BY <1>2, <2>1, <2>2, MoveFacts
<1>4. DeviceTypeOK'
  BY <1>1 DEF deviceVars, DeviceTypeOK
<1>5. ActorFits(a)'
  BY <1>1, <1>2, <1>3 DEF ActorFits, Stopping, StartLabels, ExecutingLabels, Points, Indices
<1>. QED BY <1>3, <1>4, <1>5, QuietStep

\* rollback_actions and cleanup around their loops.
LEMMA RollbackCleanupShape ==
  ASSUME DeviceAssumption, ActorAssumption, Shape, NEW a \in Actors, UNCHANGED cap,
         \/ BeginRollback(a) \/ EndRollback(a)
         \/ ReturnCleaned(a) \/ BeginCleanup(a) \/ EndCleanup(a)
  PROVE  Shape'
<1>0. SessionTypeOK /\ DeviceTypeOK /\ (pc[a] # "idle" => on[a] \in Sessions)
  BY UnderWay
<1>1. CASE BeginRollback(a)
  <2>. DEFINE I == Recorded(a) \cap Unsettled(on[a])
              l == IF I = {} THEN "endRollback" ELSE "next"
  <2>1. I \in SUBSET Indices(on[a]) /\ l \in {"endRollback", "endCleanup", "next"}
    BY DEF Unsettled
  <2>2. /\ pc[a] = "rollback" /\ Begin(a, "rollback", I) /\ Goto(a, l) /\ Keep(a)
        /\ UNCHANGED <<cap, ledger, deviceVars>>
    BY <1>1 DEF BeginRollback, sessionVars
  <2>3. SessionTypeOK' /\ "rollback" \in Phases \ {"stop"}
    BY <1>0, <1>1 DEF BeginRollback, sessionVars, SessionTypeOK, Phases
  <2>. HIDE DEF I, l
  <2>. QED BY <2>1, <2>2, <2>3, LoopShape
<1>2. CASE BeginCleanup(a)
  <2>. DEFINE I == Unsettled(on[a])
              l == IF I = {} THEN "endCleanup" ELSE "next"
  <2>1. I \in SUBSET Indices(on[a]) /\ l \in {"endRollback", "endCleanup", "next"}
    BY DEF Unsettled
  <2>2. /\ pc[a] = "cleanup" /\ Begin(a, "cleanup", I) /\ Goto(a, l) /\ Keep(a)
        /\ UNCHANGED <<cap, deviceVars>> /\ SetStatus(on[a], "cleaning")
    BY <1>2 DEF BeginCleanup
  <2>3. SessionTypeOK' /\ UNCHANGED ledger /\ "cleanup" \in Phases \ {"stop"}
    BY <1>0, <2>2, SetStatusFacts DEF Statuses, Phases
  <2>. HIDE DEF I, l
  <2>. QED BY <2>1, <2>2, <2>3, LoopShape
<1>3. CASE ReturnCleaned(a)
  <2>1. UNCHANGED <<cap, ledger>> /\ SessionTypeOK' /\ DeviceTypeOK'
    BY <1>0, <1>3 DEF ReturnCleaned, sessionVars, deviceVars, SessionTypeOK, DeviceTypeOK
  <2>2. CountersFit'
    BY <1>3, CounterTypes DEF ReturnCleaned, Counted
  <2>. QED BY <1>3, <2>1, <2>2, ReturnStep DEF ReturnCleaned
<1>4. CASE EndRollback(a) \/ EndCleanup(a)
  <2>1. PICK v \in {"cleanup_required", "active", "cleaned", "cleanup_failed"} :
          SetStatus(on[a], v)
    BY <1>4 DEF EndRollback, EndCleanup
  <2>2. pc[a] # "idle" /\ Return(a) /\ NoFault /\ UNCHANGED <<cap, deviceVars>>
    BY <1>4 DEF EndRollback, EndCleanup
  <2>3. UNCHANGED ledger /\ SessionTypeOK'
    BY <1>0, <2>1, <2>2, SetStatusFacts DEF Statuses
  <2>4. DeviceTypeOK'
    BY <1>0, <2>2 DEF deviceVars, DeviceTypeOK
  <2>5. CountersFit'
    BY <2>2, CounterTypes DEF Counted
  <2>. QED BY <2>2, <2>3, <2>4, <2>5, ReturnStep
<1>. QED BY <1>1, <1>2, <1>3, <1>4

(***************************************************************************)
(* start                                                                   *)
(***************************************************************************)
\* Setting out on an operation, or taking the device lock for it.
LEMMA EnterFacts ==
  ASSUME ActorAssumption, Shape, NEW a \in Actors, NEW s \in Sessions, NEW l \in Labels,
         NEW f \in Frames, Goto(a, l), on' = [on EXCEPT ![a] = s],
         frame' = [frame EXCEPT ![a] = f], NoFault,
         lock' = lock \/ (lock = NoActor /\ lock' = a)
  PROVE  /\ ActorTypes' /\ Alone(a)
         /\ pc'[a] = l /\ on'[a] = s /\ frame'[a] = f
  BY DEF Shape, TypeOK, ActorTypes, CountersFit, Alone, Goto, NoFault

\* The local variables an operation starts with.
LEMMA IdleFrameFacts ==
  ASSUME DeviceAssumption
  PROVE  /\ IdleFrame \in Frames
         /\ \A j \in Jobs : [IdleFrame EXCEPT !.job = j] \in Frames
         /\ \A p \in Ports : [IdleFrame EXCEPT !.job = "start", !.port = p] \in Frames
<1>1. NoIds \in [Kinds -> Nat]
  BY DEF NoIds
<1>2. 0 \in 0..MaxSpawns
  BY DEF DeviceAssumption
<1>. QED BY <1>1, <1>2 DEF IdleFrame, Frames, Jobs, Phases, Verdicts, EntryStatuses, ProxyValues

\* Nothing is known yet about the session and the port.
LEMMA StartRequestShape ==
  ASSUME DeviceAssumption, ActorAssumption, Shape, NEW a \in Actors, NEW s \in Sessions,
         StartRequest(a, s)
  PROVE  Shape'
<1>1. PICK p \in Ports :
        frame' = [frame EXCEPT ![a] = [IdleFrame EXCEPT !.job = "start", !.port = p]]
  BY DEF StartRequest, FreePorts
<1>. DEFINE f == [IdleFrame EXCEPT !.job = "start", !.port = p]
<1>2. f \in Frames /\ f.port = p /\ f.ids = NoIds /\ f.made = {}
  BY IdleFrameFacts DEF IdleFrame
<1>. HIDE DEF f
<1>3. ActorTypes' /\ Alone(a) /\ pc'[a] = "startLock" /\ on'[a] = s /\ frame'[a] = f
  <2>1. "startLock" \in Labels
    BY DEF Labels
  <2>. QED BY <1>1, <1>2, <2>1, EnterFacts DEF StartRequest, f
<1>4. UNCHANGED <<cap, ledger>> /\ SessionTypeOK' /\ DeviceTypeOK'
  BY UnderWay DEF StartRequest, sessionVars, deviceVars, SessionTypeOK, DeviceTypeOK
<1>5. ActorFits(a)'
  BY <1>2, <1>3 DEF ActorFits, Stopping, StartLabels, ExecutingLabels, NoIds, Points
<1>. QED BY <1>3, <1>4, <1>5, QuietStep

\* The locals that count for a start.
StartFits(a, f, l) ==
  /\ f.port \in Ports
  /\ \A k \in Kinds : f.ids[k] # 0 => Points(on[a], f.ids[k])
  /\ \A k \in f.made : f.ids[k] # 0
  /\ l \notin {"startLock", "spawn", "recordProcess"} => f.ids["process"] # 0
  /\ l = "addReverse" => f.ids["reverse"] # 0
  /\ l = "putProxy" => f.ids["proxy"] # 0

\* A step of start that leaves the ledger and state.json alone, to another step
\* of start or to the rollback.
LEMMA StartMove ==
  ASSUME ActorAssumption, Shape, NEW a \in Actors, on[a] \in Sessions,
         NEW l \in StartLabels \cup {"rollback"}, Goto(a, l), Keep(a), lock = a,
         NEW f \in Frames, frame' = [frame EXCEPT ![a] = f],
         l # "rollback" => StartFits(a, f, l),
         Counted, UNCHANGED <<cap, sessionVars>>, DeviceTypeOK'
  PROVE  Shape'
<1>1. l \in Labels
  BY DEF Labels, StartLabels
<1>2. CountersFit'
  BY CounterTypes
<1>3. /\ ActorTypes' /\ Alone(a) /\ pc'[a] = l /\ on'[a] = on[a] /\ frame'[a] = f
      /\ lock' = lock
  BY <1>1, <1>2, MoveFacts
<1>4. UNCHANGED <<cap, ledger>> /\ SessionTypeOK'
  BY UnderWay DEF sessionVars, SessionTypeOK
<1>5. ActorFits(a)'
  BY <1>3, <1>4 DEF ActorFits, Stopping, StartFits, StartLabels, ExecutingLabels, Points, Indices
<1>. QED BY <1>3, <1>4, <1>5, QuietStep

\* Where a start is, its locals fit.
LEMMA StartHere ==
  ASSUME Shape, NEW a \in Actors, pc[a] \in StartLabels
  PROVE  /\ StartFits(a, frame[a], pc[a]) /\ frame[a] \in Frames
         /\ on[a] \in Sessions /\ lock = a
         /\ frame = [frame EXCEPT ![a] = frame[a]]
  BY UnderWay DEF Shape, TypeOK, ActorFits, StartFits, StartLabels

\* Taking the device lock for a start.
LEMMA StartLockShape ==
  ASSUME DeviceAssumption, ActorAssumption, Shape, NEW a \in Actors, StartLock(a)
  PROVE  Shape'
<1>. DEFINE r == reverse[frame[a].port] = "own"
            f == [frame[a] EXCEPT !.adopt = r]
<1>1. pc[a] = "startLock" /\ on[a] \in Sessions /\ frame[a] \in Frames
  BY UnderWay DEF StartLock
<1>2. f \in Frames /\ StartFits(a, f, "spawn")
  <2>1. f \in Frames
    BY <1>1, FrameFacts
  <2>2. StartFits(a, frame[a], "spawn")
    BY <1>1 DEF Shape, ActorFits, Stopping, StartFits
  <2>. QED BY <1>1, <2>1, <2>2 DEF StartFits, Frames
<1>3. frame' = [frame EXCEPT ![a] = f]
  BY DEF StartLock, Shape, TypeOK
<1>4. on' = [on EXCEPT ![a] = on[a]]
  BY DEF StartLock, Shape, TypeOK
<1>. HIDE DEF f
<1>5. /\ ActorTypes' /\ Alone(a) /\ pc'[a] = "spawn" /\ on'[a] = on[a] /\ frame'[a] = f
      /\ lock' = a
  <2>1. "spawn" \in Labels
    BY DEF Labels
  <2>2. Goto(a, "spawn") /\ NoFault /\ lock = NoActor /\ lock' = a
    BY DEF StartLock
  <2>. QED BY ONLY ActorAssumption, Shape, a \in Actors, <1>1, <1>2, <1>3, <1>4, <2>1, <2>2,
              EnterFacts
<1>6. UNCHANGED <<cap, ledger>> /\ SessionTypeOK' /\ DeviceTypeOK'
  BY UnderWay DEF StartLock, sessionVars, deviceVars, SessionTypeOK, DeviceTypeOK
<1>7. ActorFits(a)'
  BY <1>1, <1>2, <1>5, <1>6 DEF ActorFits, Stopping, StartFits, StartLabels, ExecutingLabels, Points, Indices
<1>. QED BY <1>5, <1>6, <1>7, QuietStep

\* The refusals and the failures of a start that return at once.
LEMMA StartEndsShape ==
  ASSUME DeviceAssumption, ActorAssumption, Shape, NEW a \in Actors,
         StartRefused(a) \/ StartSpawnFails(a) \/ StartDropProcess(a)
  PROVE  Shape'
<1>1. Return(a) /\ UNCHANGED <<cap, ledger, status, captured, creating>> /\ Counted
  <2>1. frame[a].proc \in 0..MaxSpawns
    BY UnderWay DEF Frames
  <2>. QED BY <2>1 DEF StartRefused, StartSpawnFails, StartDropProcess, sessionVars, Counted
<1>2. DeviceTypeOK'
  <2>1. CASE UNCHANGED deviceVars
    BY <2>1, UnderWay DEF deviceVars, DeviceTypeOK
  <2>2. CASE Terminate(frame[a].proc)
    <3>1. frame[a].proc \in Nat
      BY UnderWay DEF Frames, DeviceAssumption
    <3>. QED BY <2>2, <3>1, UnderWay, DeviceCalls
  <2>. QED BY <2>1, <2>2 DEF StartRefused, StartSpawnFails, StartDropProcess
<1>3. SessionTypeOK'
  BY <1>1, UnderWay DEF SessionTypeOK
<1>4. CountersFit'
  BY <1>1, CounterTypes
<1>. QED BY <1>1, <1>2, <1>3, <1>4, ReturnStep

\* mitmdump is started.
LEMMA StartSpawnShape ==
  ASSUME DeviceAssumption, ActorAssumption, Shape, NEW a \in Actors, StartSpawn(a)
  PROVE  Shape'
<1>. DEFINE f == [frame[a] EXCEPT !.proc = spawned + 1]
<1>1. StartFits(a, frame[a], pc[a]) /\ frame[a] \in Frames /\ on[a] \in Sessions /\ lock = a
  BY StartHere DEF StartSpawn, StartLabels
<1>2. DeviceTypeOK' /\ spawned + 1 \in 0..MaxSpawns
  BY <1>1, UnderWay, DeviceCalls DEF StartSpawn, StartFits
<1>3. f \in Frames
  BY <1>1, <1>2, FrameFacts
<1>4. StartFits(a, f, "recordProcess")
  BY <1>1 DEF StartSpawn, StartFits, Frames
<1>5. frame' = [frame EXCEPT ![a] = f]
  BY DEF StartSpawn, Shape, TypeOK
<1>. HIDE DEF f
<1>6. "recordProcess" \in StartLabels
  BY DEF StartLabels
<1>. QED BY <1>1, <1>2, <1>3, <1>4, <1>5, <1>6, StartMove DEF StartSpawn, Counted

\* The current proxy is read.
LEMMA StartReadProxyShape ==
  ASSUME DeviceAssumption, ActorAssumption, Shape, NEW a \in Actors, StartReadProxy(a)
  PROVE  Shape'
<1>. DEFINE f == [frame[a] EXCEPT !.prev = proxy]
            l == IF proxy = frame[a].port THEN "running" ELSE "recordProxy"
<1>1. StartFits(a, frame[a], pc[a]) /\ frame[a] \in Frames /\ on[a] \in Sessions /\ lock = a
  BY StartHere DEF StartReadProxy, StartLabels
<1>2. DeviceTypeOK' /\ proxy \in ProxyValues
  BY UnderWay DEF StartReadProxy, deviceVars, DeviceTypeOK
<1>3. f \in Frames
  BY <1>1, <1>2, FrameFacts
<1>4. StartFits(a, f, l)
  BY <1>1 DEF StartReadProxy, StartFits, Frames
<1>5. frame' = [frame EXCEPT ![a] = f]
  BY DEF StartReadProxy, Shape, TypeOK
<1>6. l \in StartLabels /\ Goto(a, l)
  BY DEF StartLabels, StartReadProxy
<1>. HIDE DEF f, l
<1>. QED BY <1>1, <1>2, <1>3, <1>4, <1>5, <1>6, StartMove DEF StartReadProxy, Counted

\* A change of the device, confirmed or not.
LEMMA StartChangeShape ==
  ASSUME DeviceAssumption, ActorAssumption, Shape, NEW a \in Actors,
         NEW k \in {"reverse", "proxy"}, NEW l \in {"readProxy", "running"},
         pc[a] \in {"addReverse", "putProxy"}, frame[a].ids[k] # 0,
         \/ StartChanged(a, k, l)
         \/ Fault /\ Goto(a, "rollback") /\ UNCHANGED frame,
         Keep(a), UNCHANGED <<cap, sessionVars>>, DeviceTypeOK'
  PROVE  Shape'
<1>1. /\ StartFits(a, frame[a], pc[a]) /\ frame[a] \in Frames /\ on[a] \in Sessions
      /\ lock = a /\ frame = [frame EXCEPT ![a] = frame[a]]
  BY StartHere DEF StartLabels
<1>2. CASE StartChanged(a, k, l)
  <2>. DEFINE K == frame[a].made \cup {k}
              f == [frame[a] EXCEPT !.made = K]
  <2>1. K \in SUBSET Kinds
    BY <1>1 DEF Frames, Kinds
  <2>2. f \in Frames
    BY <1>1, <2>1, FrameFacts
  <2>3. StartFits(a, f, l)
    BY <1>1 DEF StartFits, Frames
  <2>4. frame' = [frame EXCEPT ![a] = f]
    BY <1>2 DEF StartChanged, Shape, TypeOK
  <2>5. l \in StartLabels /\ Goto(a, l) /\ NoFault
    BY <1>2 DEF StartLabels, StartChanged
  <2>. HIDE DEF f
  <2>. QED BY <1>1, <2>2, <2>3, <2>4, <2>5, StartMove DEF Counted
<1>3. CASE Fault /\ Goto(a, "rollback") /\ UNCHANGED frame
  BY <1>1, <1>3, StartMove DEF Counted
<1>. QED BY <1>2, <1>3

\* The mapping and the proxy are set for a start.
LEMMA StartDeviceShape ==
  ASSUME DeviceAssumption, ActorAssumption, Shape, NEW a \in Actors,
         StartAddReverse(a) \/ StartPutProxy(a)
  PROVE  Shape'
<1>0. StartFits(a, frame[a], pc[a]) /\ DeviceTypeOK
  BY StartHere, UnderWay DEF StartAddReverse, StartPutProxy, StartLabels
<1>1. CASE StartAddReverse(a)
  <2>1. pc[a] = "addReverse" /\ frame[a].ids["reverse"] # 0 /\ frame[a].port \in Ports
    BY <1>0, <1>1 DEF StartAddReverse, StartFits
  <2>2. PICK took \in BOOLEAN : SetReverse(frame[a].port, "own", took)
    BY <1>1 DEF StartAddReverse
  <2>3. DeviceTypeOK'
    BY <1>0, <2>1, <2>2, DeviceCalls
  <2>4. \/ StartChanged(a, "reverse", "readProxy")
        \/ Fault /\ Goto(a, "rollback") /\ UNCHANGED frame
    BY <1>1 DEF StartAddReverse
  <2>. QED BY <1>1, <2>1, <2>3, <2>4, StartChangeShape DEF StartAddReverse
<1>2. CASE StartPutProxy(a)
  <2>1. pc[a] = "putProxy" /\ frame[a].ids["proxy"] # 0 /\ frame[a].port \in ProxyValues
    BY <1>0, <1>2 DEF StartPutProxy, StartFits, ProxyValues
  <2>2. PICK took \in BOOLEAN : PutSetting(frame[a].port, took)
    BY <1>2 DEF StartPutProxy
  <2>3. DeviceTypeOK'
    BY <1>0, <2>1, <2>2, DeviceCalls
  <2>4. \/ StartChanged(a, "proxy", "running")
        \/ Fault /\ Goto(a, "rollback") /\ UNCHANGED frame
    BY <1>2 DEF StartPutProxy
  <2>. QED BY <1>2, <2>1, <2>3, <2>4, StartChangeShape DEF StartPutProxy
<1>. QED BY <1>1, <1>2

\* Recording an action, and keeping its id unless the event log fails.
LEMMA StartRecordShape ==
  ASSUME DeviceAssumption, ActorAssumption, Shape, NEW a \in Actors,
         NEW k \in Kinds, NEW v \in ProxyValues,
         NEW from \in {"recordProcess", "recordReverse", "recordProxy"},
         NEW to \in {"recordReverse", "addReverse", "readProxy", "putProxy"},
         from = "recordProcess" => k = "process",
         to = "addReverse" => k = "reverse", to = "putProxy" => k = "proxy",
         StartRecord(a, k, v, from, to)
  PROVE  Shape'
<1>. DEFINE e == [kind |-> k, port |-> frame[a].port, prev |-> v, proc |-> frame[a].proc]
            n == Len(ledger[on[a]]) + 1
            ids == [frame[a].ids EXCEPT ![k] = n]
            F == [frame[a] EXCEPT !.ids = ids]
<1>1. /\ StartFits(a, frame[a], from) /\ frame[a] \in Frames /\ on[a] \in Sessions
      /\ lock = a /\ frame = [frame EXCEPT ![a] = frame[a]] /\ pc[a] = from
  BY StartHere DEF StartRecord, StartLabels
<1>2. e \in Actions /\ RecordAction(on[a], e)
  BY <1>1 DEF StartRecord, StartFits, Frames, Actions
<1>3. /\ SessionTypeOK'
      /\ \A t \in Sessions : \A j \in Indices(t) : j \in Indices(t)'
      /\ n \in Nat \ {0} /\ n \in Indices(on[a])'
  <2>. HIDE DEF e
  <2>1. SessionTypeOK
    BY UnderWay
  <2>2. Len(ledger[on[a]]) + 1 \in Indices(on[a])'
    BY <1>1, <1>2, <2>1, RecordFacts DEF StartRecord, Keep
  <2>. QED BY <1>1, <1>2, <2>1, <2>2, RecordFacts
<1>4. ids \in [Kinds -> Nat] /\ \A j \in Kinds : ids[j] = IF j = k THEN n ELSE frame[a].ids[j]
  BY <1>1, <1>3 DEF Frames
<1>. HIDE DEF ids, n, e
<1>5. F \in Frames /\ F.ids = ids /\ F.made = frame[a].made /\ F.port = frame[a].port
  <2>1. F \in Frames
    BY <1>1, <1>4, FrameFacts
  <2>. QED BY <1>1, <2>1 DEF Frames
<1>6. PICK f \in {frame[a], F}, l \in {to, "rollback"} :
        /\ frame' = [frame EXCEPT ![a] = f] /\ Goto(a, l) /\ Counted
        /\ l # "rollback" => f = F
  <2>1. frame' = [frame EXCEPT ![a].ids[k] = n] => frame' = [frame EXCEPT ![a] = F]
    BY <1>1 DEF Shape, TypeOK, ids
  <2>2. CASE frame' = [frame EXCEPT ![a].ids[k] = n] /\ Goto(a, to) /\ NoFault
    BY <2>1, <2>2 DEF Counted
  <2>3. CASE Fault /\ Goto(a, "rollback") /\ UNCHANGED frame
    BY <1>1, <2>3 DEF Counted
  <2>. QED BY <2>2, <2>3 DEF StartRecord, n
<1>. HIDE DEF F
<1>7. f \in Frames /\ l \in Labels
  BY <1>1, <1>5 DEF Labels
<1>8. /\ ActorTypes' /\ Alone(a) /\ pc'[a] = l /\ on'[a] = on[a] /\ frame'[a] = f
      /\ lock' = lock
  <2>1. CountersFit'
    BY <1>6, CounterTypes
  <2>2. Keep(a)
    BY DEF StartRecord
  <2>. QED BY ONLY Shape, a \in Actors, <1>6, <1>7, <2>1, <2>2, MoveFacts
<1>9. DeviceTypeOK' /\ CaptureTypeOK' /\ cap' = cap
  BY UnderWay DEF StartRecord, deviceVars, DeviceTypeOK, CaptureTypeOK
<1>10. ActorFits(a)'
  <2>1. CASE l = "rollback"
    BY <1>1, <1>8, <2>1 DEF ActorFits, Stopping, StartLabels, ExecutingLabels
  <2>2. CASE l = to /\ f = F
    <3>1. \A j \in Kinds : ids[j] # 0 => ids[j] \in Indices(on[a])'
      <4>1. \A j \in Kinds : frame[a].ids[j] # 0 => Points(on[a], frame[a].ids[j])
        BY <1>1 DEF StartFits
      <4>2. \A j \in Kinds : frame[a].ids[j] # 0 => frame[a].ids[j] \in Indices(on[a])'
        BY <1>1, <1>3, <1>8, <4>1 DEF Points, Indices
      <4>. QED BY <1>3, <1>4, <4>2
    <3>2. \A j \in frame[a].made : ids[j] # 0
      <4>1. frame[a].made \subseteq Kinds /\ \A j \in frame[a].made : frame[a].ids[j] # 0
        BY <1>1 DEF StartFits, Frames
      <4>. QED BY <1>3, <1>4, <4>1
    <3>3. /\ ids["process"] # 0
          /\ l = "addReverse" => ids["reverse"] # 0
          /\ l = "putProxy" => ids["proxy"] # 0
      <4>1. from = "recordProcess" \/ frame[a].ids["process"] # 0
        BY <1>1 DEF StartFits
      <4>. QED BY <1>3, <1>4, <2>2, <4>1 DEF Kinds
    <3>4. frame[a].port \in Ports
      BY <1>1 DEF StartFits
    <3>. QED BY <1>1, <1>5, <1>8, <2>2, <3>1, <3>2, <3>3, <3>4
         DEF ActorFits, Stopping, StartLabels, ExecutingLabels, Points, Indices
  <2>. QED BY <1>6, <2>1, <2>2
<1>11. \A s \in Sessions : CaptureFits(s)'
  BY <1>3, <1>9 DEF Shape, CaptureFits, Points
<1>12. \A s \in Sessions : cap[s].status # "none" => cap'[s].status # "none"
  BY <1>9
<1>. QED BY ONLY ActorAssumption, Shape, a \in Actors, <1>3, <1>8, <1>9, <1>10, <1>11, <1>12,
            ShapeStep

\* The three actions that a start records.
LEMMA StartRecordsShape ==
  ASSUME DeviceAssumption, ActorAssumption, Shape, NEW a \in Actors,
         StartRecordProcess(a) \/ StartRecordReverse(a) \/ StartRecordProxy(a)
  PROVE  Shape'
<1>1. "process" \in Kinds /\ "reverse" \in Kinds /\ "proxy" \in Kinds
  BY DEF Kinds
<1>2. NoProxy \in ProxyValues /\ frame[a].prev \in ProxyValues
  BY UnderWay DEF ProxyValues, Frames
<1>3. CASE StartRecordProcess(a)
  <2>. DEFINE to == IF frame[a].adopt THEN "readProxy" ELSE "recordReverse"
  <2>1. StartRecord(a, "process", NoProxy, "recordProcess", to)
    BY <1>3 DEF StartRecordProcess
  <2>2. /\ to \in {"recordReverse", "addReverse", "readProxy", "putProxy"}
        /\ to # "addReverse" /\ to # "putProxy"
    OBVIOUS
  <2>. HIDE DEF to
  <2>. QED BY <1>1, <1>2, <2>1, <2>2, StartRecordShape
<1>4. CASE StartRecordReverse(a)
  BY <1>1, <1>2, <1>4, StartRecordShape DEF StartRecordReverse
<1>5. CASE StartRecordProxy(a)
  BY <1>1, <1>2, <1>5, StartRecordShape DEF StartRecordProxy
<1>. QED BY <1>3, <1>4, <1>5

\* state.json is written, and names actions that are in the ledger.
LEMMA StartRunningShape ==
  ASSUME DeviceAssumption, ActorAssumption, Shape, NEW a \in Actors, StartRunning(a)
  PROVE  Shape'
<1>. DEFINE c == [status |-> "running", ids |-> frame[a].ids, made |-> frame[a].made,
                  evidence |-> FALSE]
<1>1. /\ StartFits(a, frame[a], "running") /\ frame[a] \in Frames /\ on[a] \in Sessions
      /\ lock = a /\ frame = [frame EXCEPT ![a] = frame[a]] /\ pc[a] = "running"
  BY StartHere DEF StartRunning, StartLabels
<1>2. c \in Captures /\ cap' = [cap EXCEPT ![on[a]] = c]
  BY <1>1 DEF StartRunning, Captures, Frames
<1>3. \A s \in Sessions : cap'[s] = IF s = on[a] THEN c ELSE cap[s]
  BY <1>2, UnderWay DEF CaptureTypeOK
<1>4. /\ CaptureTypeOK' /\ SessionTypeOK' /\ DeviceTypeOK' /\ UNCHANGED ledger
      /\ \A s \in Sessions : cap[s].status # "none" => cap'[s].status # "none"
  <2>1. CaptureTypeOK'
    <3>. HIDE DEF c
    <3>. QED BY <1>2, UnderWay DEF CaptureTypeOK
  <2>2. SessionTypeOK' /\ DeviceTypeOK' /\ UNCHANGED ledger
    BY UnderWay DEF StartRunning, sessionVars, deviceVars, SessionTypeOK, DeviceTypeOK
  <2>. QED BY <1>3, <2>1, <2>2
<1>5. \A s \in Sessions : CaptureFits(s)'
  <2>1. Points(on[a], c.ids["process"]) /\ \A k \in c.made : Points(on[a], c.ids[k])
    BY <1>1 DEF StartFits, Frames, Kinds
  <2>. HIDE DEF c
  <2>2. ASSUME NEW s \in Sessions PROVE CaptureFits(s)'
    <3>1. CASE s = on[a]
      BY <1>3, <1>4, <2>1, <3>1 DEF CaptureFits, Points, Indices
    <3>2. CASE s # on[a]
      BY <1>3, <1>4, <3>2 DEF Shape, CaptureFits, Points, Indices
    <3>. QED BY <3>1, <3>2
  <2>. QED BY <2>2
<1>6. \A s \in Sessions : \A j \in Indices(s) : j \in Indices(s)'
  BY <1>4 DEF Indices
<1>7. Counted => CountersFit'
  BY CounterTypes
<1>8. ActorTypes' /\ Alone(a) /\ pc'[a] \in {"idle", "rollback"} /\ (pc'[a] # "idle" => on'[a] = on[a] /\ lock' = a)
  <2>1. CASE Return(a) /\ NoFault
    <3>1. IdleFrame \in Frames
      BY IdleFrameFacts
    <3>. QED BY <1>7, <2>1, <3>1 DEF Return, ActorTypes, Alone, Shape, TypeOK, Labels, Counted
  <2>2. CASE Fault /\ Goto(a, "rollback") /\ Keep(a) /\ UNCHANGED frame
    <3>1. "rollback" \in Labels
      BY DEF Labels
    <3>. QED BY <1>1, <1>7, <2>2, <3>1, MoveFacts DEF Counted
  <2>. QED BY <2>1, <2>2 DEF StartRunning
<1>9. ActorFits(a)'
  BY <1>1, <1>8 DEF ActorFits, Stopping, StartLabels, ExecutingLabels
<1>. HIDE DEF c
<1>. QED BY ONLY ActorAssumption, Shape, a \in Actors, <1>4, <1>5, <1>6, <1>8, <1>9, ShapeStep

\* A failure on the way to the rollback.
LEMMA StartRaisesShape ==
  ASSUME DeviceAssumption, ActorAssumption, Shape, NEW a \in Actors, StartRaises(a)
  PROVE  Shape'
<1>1. /\ frame[a] \in Frames /\ on[a] \in Sessions /\ lock = a
      /\ frame' = [frame EXCEPT ![a] = frame[a]]
  BY StartHere DEF StartRaises, StartLabels
<1>2. DeviceTypeOK'
  BY UnderWay DEF StartRaises, deviceVars, DeviceTypeOK
<1>. QED BY <1>1, <1>2, StartMove DEF StartRaises, Counted

\* Every step of start.
LEMMA StartShape ==
  ASSUME DeviceAssumption, ActorAssumption, Shape, NEW a \in Actors, StartStep(a)
  PROVE  Shape'
  BY StartLockShape, StartEndsShape, StartSpawnShape, StartReadProxyShape, StartDeviceShape,
     StartRecordsShape, StartRunningShape, StartRaisesShape DEF StartStep

(***************************************************************************)
(* stop, cleanup, death, and everybody else                                *)
(***************************************************************************)
\* Setting out on a stop or a cleanup, and taking the lock for it.
LEMMA StopEntryShape ==
  ASSUME DeviceAssumption, ActorAssumption, Shape, NEW a \in Actors,
         \/ \E s \in Sessions : StopRequest(a, s) \/ CleanupLock(a, s)
         \/ StopLock(a)
  PROVE  Shape'
<1>1. PICK s \in Sessions, f \in Frames, l \in {"stopLock", "stop", "cleanup"} :
        /\ Goto(a, l) /\ NoFault
        /\ on' = [on EXCEPT ![a] = s] /\ frame' = [frame EXCEPT ![a] = f]
        /\ lock' = lock \/ (lock = NoActor /\ lock' = a)
        /\ l # "stopLock" => lock' = a
        /\ l \in {"stopLock", "stop"} => cap[s].status # "none"
        /\ UNCHANGED <<cap, sessionVars, deviceVars>>
  <2>1. \A j \in Jobs : [IdleFrame EXCEPT !.job = j] \in Frames
    BY IdleFrameFacts
  <2>2. CASE \E s \in Sessions : StopRequest(a, s)
    <3>1. PICK s \in Sessions : StopRequest(a, s)
      BY <2>2
    <3>2. [IdleFrame EXCEPT !.job = "stop"] \in Frames
      BY <2>1 DEF Jobs
    <3>3. cap[s].status # "none"
      BY <3>1 DEF StopRequest
    <3>. QED BY <3>1, <3>2, <3>3 DEF StopRequest
  <2>3. CASE \E s \in Sessions : CleanupLock(a, s)
    <3>1. PICK s \in Sessions : CleanupLock(a, s)
      BY <2>3
    <3>2. [IdleFrame EXCEPT !.job = "cleanup"] \in Frames
      BY <2>1 DEF Jobs
    <3>3. CASE cap[s].status = "running"
      BY <3>1, <3>2, <3>3 DEF CleanupLock
    <3>4. CASE cap[s].status # "running"
      BY <3>1, <3>2, <3>4 DEF CleanupLock
    <3>. QED BY <3>3, <3>4
  <2>4. CASE StopLock(a)
    <3>1. /\ pc[a] = "stopLock" /\ on[a] \in Sessions /\ frame[a] \in Frames
          /\ on' = [on EXCEPT ![a] = on[a]] /\ frame' = [frame EXCEPT ![a] = frame[a]]
      BY <2>4, UnderWay DEF StopLock, Shape, TypeOK
    <3>2. cap[on[a]].status # "none"
      BY <3>1 DEF Shape, ActorFits, Stopping
    <3>. QED BY <2>4, <3>1, <3>2 DEF StopLock
  <2>. QED BY <2>2, <2>3, <2>4
<1>2. ActorTypes' /\ Alone(a) /\ pc'[a] = l /\ on'[a] = s /\ frame'[a] = f
  <2>1. l \in Labels
    BY DEF Labels
  <2>. QED BY ONLY ActorAssumption, Shape, a \in Actors, <1>1, <2>1, EnterFacts
<1>3. UNCHANGED <<cap, ledger>> /\ SessionTypeOK' /\ DeviceTypeOK'
  BY <1>1, UnderWay DEF sessionVars, deviceVars, SessionTypeOK, DeviceTypeOK
<1>4. ActorFits(a)'
  BY <1>1, <1>2, <1>3 DEF ActorFits, Stopping, StartLabels, ExecutingLabels
<1>. QED BY <1>2, <1>3, <1>4, QuietStep

\* The end of stop, returning or going on with the cleanup that called it.
LEMMA StopReturnsFacts ==
  ASSUME DeviceAssumption, Shape, NEW a \in Actors,
         pc[a] \notin {"idle", "startLock", "stopLock"}, StopReturns(a), Counted,
         ActorAssumption
  PROVE  ActorTypes' /\ Alone(a) /\ ActorFits(a)'
<1>1. CountersFit'
  BY CounterTypes
<1>2. on[a] \in Sessions /\ lock = a
  BY UnderWay
<1>. DEFINE f == [IdleFrame EXCEPT !.job = "cleanup"]
<1>3. f \in Frames /\ IdleFrame \in Frames
  BY IdleFrameFacts DEF Jobs
<1>. HIDE DEF f
<1>4. CASE frame' = [frame EXCEPT ![a] = f] /\ Goto(a, "cleanup") /\ Keep(a)
  <2>1. "cleanup" \in Labels
    BY DEF Labels
  <2>2. /\ ActorTypes' /\ Alone(a) /\ pc'[a] = "cleanup" /\ on'[a] = on[a] /\ lock' = lock
    BY <1>1, <1>3, <1>4, <2>1, MoveFacts
  <2>. QED BY <1>2, <2>2 DEF ActorFits, Stopping, StartLabels, ExecutingLabels
<1>5. CASE Return(a)
  <2>1. ActorTypes' /\ Alone(a) /\ pc'[a] = "idle"
    BY <1>1, <1>3, <1>5 DEF Return, ActorTypes, Alone, Shape, TypeOK, Labels
  <2>. QED BY <2>1 DEF ActorFits, Stopping, StartLabels, ExecutingLabels
<1>. QED BY <1>4, <1>5 DEF StopReturns, f

\* stop goes through the actions that state.json names.
LEMMA StopBeginShape ==
  ASSUME DeviceAssumption, ActorAssumption, Shape, NEW a \in Actors, StopBegin(a)
  PROVE  Shape'
<1>. DEFINE c == cap[on[a]]
            I == {c.ids["process"]} \cup {c.ids[k] : k \in c.made}
            r == c.evidence
            f == [frame[a] EXCEPT !.phase = "stop", !.registered = r, !.todo = I]
<1>1. /\ pc[a] = "stop" /\ on[a] \in Sessions /\ lock = a /\ frame[a] \in Frames
      /\ SessionTypeOK /\ DeviceTypeOK /\ c \in Captures
  BY UnderWay DEF StopBegin, CaptureTypeOK
<1>2. (\A i \in I : Points(on[a], i)) /\ cap[on[a]].status # "none"
  BY <1>1 DEF Shape, ActorFits, Stopping, CaptureFits
<1>3. I \in SUBSET Nat /\ r \in BOOLEAN /\ "stop" \in Phases
  BY <1>1, <1>2, ActionFacts DEF Phases, Captures
<1>4. frame' = [frame EXCEPT ![a] = f]
  BY DEF StopBegin, Shape, TypeOK
<1>. HIDE DEF I, c, r
<1>5. f \in Frames
  BY <1>1, <1>3, FrameFacts
<1>6. f.todo = I
  BY <1>1 DEF Frames
<1>. HIDE DEF f
<1>7. /\ ActorTypes' /\ Alone(a) /\ pc'[a] = "next" /\ on'[a] = on[a] /\ frame'[a] = f
      /\ lock' = lock
  <2>1. CountersFit'
    BY DEF StopBegin, Trespassing, Shape, TypeOK, CountersFit
  <2>2. "next" \in Labels /\ Goto(a, "next") /\ Keep(a)
    BY DEF StopBegin, Labels
  <2>. QED BY ONLY Shape, a \in Actors, <1>4, <1>5, <2>1, <2>2, MoveFacts
<1>8. UNCHANGED <<cap, ledger>> /\ SessionTypeOK' /\ DeviceTypeOK'
  BY <1>1 DEF StopBegin, sessionVars, deviceVars, SessionTypeOK, DeviceTypeOK
<1>9. ActorFits(a)'
  BY <1>1, <1>2, <1>6, <1>7, <1>8 DEF ActorFits, Stopping, StartLabels, ExecutingLabels, Points, Indices
<1>. QED BY <1>7, <1>8, <1>9, QuietStep

\* The evidence files.
LEMMA StopEvidenceShape ==
  ASSUME DeviceAssumption, ActorAssumption, Shape, NEW a \in Actors, StopEvidence(a)
  PROVE  Shape'
<1>1. /\ pc[a] = "evidence" /\ on[a] \in Sessions /\ lock = a /\ frame[a] \in Frames
      /\ SessionTypeOK /\ DeviceTypeOK /\ cap[on[a]].status # "none"
  BY UnderWay DEF StopEvidence, Shape, ActorFits, Stopping
<1>2. PICK f \in Frames : frame' = [frame EXCEPT ![a] = f] /\ Counted
  <2>1. /\ [frame[a] EXCEPT !.registered = TRUE] \in Frames
        /\ [frame[a] EXCEPT !.errors = TRUE] \in Frames
    BY <1>1, FrameFacts
  <2>2. \/ frame' = [frame EXCEPT ![a].registered = TRUE] /\ NoFault
        \/ frame' = [frame EXCEPT ![a].errors = TRUE] /\ Fault
    BY DEF StopEvidence
  <2>. QED BY <2>1, <2>2 DEF Shape, TypeOK, Counted
<1>3. ActorTypes' /\ Alone(a) /\ pc'[a] = "stopped" /\ on'[a] = on[a] /\ lock' = lock
  <2>1. CountersFit'
    BY <1>2, CounterTypes
  <2>2. "stopped" \in Labels /\ Goto(a, "stopped") /\ Keep(a)
    BY DEF StopEvidence, Labels
  <2>. QED BY ONLY Shape, a \in Actors, <1>2, <2>1, <2>2, MoveFacts
<1>4. UNCHANGED <<cap, ledger>> /\ SessionTypeOK' /\ DeviceTypeOK'
  BY <1>1 DEF StopEvidence, sessionVars, deviceVars, SessionTypeOK, DeviceTypeOK
<1>5. ActorFits(a)'
  BY <1>1, <1>3, <1>4 DEF ActorFits, Stopping, StartLabels, ExecutingLabels
<1>. QED BY <1>3, <1>4, <1>5, QuietStep

\* The outcome is written to state.json.
LEMMA StopPersistShape ==
  ASSUME DeviceAssumption, ActorAssumption, Shape, NEW a \in Actors, StopPersist(a)
  PROVE  Shape'
<1>1. /\ pc[a] = "stopped" /\ on[a] \in Sessions /\ lock = a /\ frame[a] \in Frames
      /\ SessionTypeOK /\ DeviceTypeOK /\ CaptureTypeOK
  BY UnderWay DEF StopPersist
<1>. DEFINE w == IF frame[a].errors THEN "stop_failed" ELSE "stopped"
            r == frame[a].registered
            c == [cap[on[a]] EXCEPT !.status = w, !.evidence = r]
<1>2. cap' = [cap EXCEPT ![on[a]] = c]
  BY <1>1 DEF StopPersist, CaptureTypeOK
<1>3. /\ c \in Captures /\ c.ids = cap[on[a]].ids /\ c.made = cap[on[a]].made
      /\ w \in {"stopped", "stop_failed"}
  <2>1. w \in {"stopped", "stop_failed"} /\ r \in BOOLEAN /\ cap[on[a]] \in Captures
    BY <1>1 DEF Frames, CaptureTypeOK
  <2>. HIDE DEF w, r
  <2>. QED BY <2>1 DEF Captures
<1>4. \A s \in Sessions : cap'[s] = IF s = on[a] THEN c ELSE cap[s]
  <2>. HIDE DEF c
  <2>. QED BY <1>1, <1>2 DEF CaptureTypeOK
<1>. HIDE DEF c, w, r
<1>5. CaptureTypeOK' /\ \A s \in Sessions : cap[s].status # "none" => cap'[s].status # "none"
  <2>1. CaptureTypeOK'
    BY <1>1, <1>2, <1>3 DEF CaptureTypeOK
  <2>2. c.status = w
    BY <1>1 DEF c, CaptureTypeOK, Captures
  <2>. QED BY <1>3, <1>4, <2>1, <2>2
<1>6. UNCHANGED ledger
  <2>1. CASE frame[a].errors
    BY <2>1 DEF StopPersist, sessionVars
  <2>2. CASE ~frame[a].errors
    BY <2>2 DEF StopPersist, sessionVars
  <2>. QED BY <2>1, <2>2
<1>7. \A s \in Sessions : CaptureFits(s)'
  <2>1. /\ Points(on[a], cap[on[a]].ids["process"])
        /\ \A k \in cap[on[a]].made : Points(on[a], cap[on[a]].ids[k])
    BY <1>1 DEF Shape, ActorFits, Stopping, CaptureFits
  <2>2. ASSUME NEW s \in Sessions PROVE CaptureFits(s)'
    <3>1. CASE s = on[a]
      BY <1>3, <1>4, <1>6, <2>1, <3>1 DEF CaptureFits, Points, Indices
    <3>2. CASE s # on[a]
      BY <1>4, <1>6, <3>2 DEF Shape, CaptureFits, Points, Indices
    <3>. QED BY <3>1, <3>2
  <2>. QED BY <2>2
<1>8. SessionTypeOK' /\ DeviceTypeOK' /\ \A s \in Sessions : \A j \in Indices(s) : j \in Indices(s)'
  BY <1>1, <1>6 DEF StopPersist, sessionVars, deviceVars, SessionTypeOK, DeviceTypeOK, Indices
<1>9. ActorTypes' /\ Alone(a) /\ ActorFits(a)'
  <2>1. NoFault
    BY DEF StopPersist
  <2>2. CASE frame[a].errors
    <3>1. StopReturns(a)
      BY <2>2 DEF StopPersist
    <3>. QED BY <1>1, <2>1, <3>1, StopReturnsFacts DEF Counted
  <2>3. CASE ~frame[a].errors
    <3>1. Goto(a, "activate") /\ Keep(a) /\ frame' = [frame EXCEPT ![a] = frame[a]]
      BY <2>3 DEF StopPersist, Shape, TypeOK
    <3>2. "activate" \in Labels
      BY DEF Labels
    <3>3. CountersFit'
      BY <2>1, CounterTypes DEF Counted
    <3>4. /\ ActorTypes' /\ Alone(a)
          /\ pc'[a] = "activate" /\ on'[a] = on[a] /\ lock' = lock
      BY ONLY Shape, a \in Actors, <1>1, <3>1, <3>2, <3>3, MoveFacts
    <3>. QED BY <1>1, <3>4 DEF ActorFits, Stopping, StartLabels, ExecutingLabels
  <2>. QED BY <2>2, <2>3
<1>. QED BY ONLY ActorAssumption, Shape, a \in Actors, <1>5, <1>7, <1>8, <1>9, ShapeStep

\* A failing write, a refusal, or the session going back to ACTIVE ends stop.
LEMMA StopEndsShape ==
  ASSUME DeviceAssumption, ActorAssumption, Shape, NEW a \in Actors,
         StopRefused(a) \/ StopRaises(a) \/ StopActivate(a)
  PROVE  Shape'
<1>1. UNCHANGED <<cap, deviceVars>> /\ Counted
  BY DEF StopRefused, StopRaises, StopActivate, Counted
<1>2. UNCHANGED ledger /\ SessionTypeOK'
  <2>1. CASE UNCHANGED sessionVars
    BY <2>1, UnderWay DEF sessionVars, SessionTypeOK
  <2>2. CASE StopActivate(a)
    <3>1. on[a] \in Sessions /\ SetStatus(on[a], "active") /\ SessionTypeOK
      BY <2>2, UnderWay DEF StopActivate
    <3>. QED BY <3>1, SetStatusFacts DEF Statuses
  <2>. QED BY <2>1, <2>2 DEF StopRefused, StopRaises
<1>3. DeviceTypeOK'
  BY <1>1, UnderWay DEF deviceVars, DeviceTypeOK
<1>4. CASE StopRefused(a)
  <2>1. Return(a)
    BY <1>4 DEF StopRefused
  <2>2. CountersFit'
    BY <1>1, CounterTypes
  <2>. QED BY <1>1, <1>2, <1>3, <2>1, <2>2, ReturnStep
<1>5. CASE StopRaises(a) \/ StopActivate(a)
  <2>1. pc[a] \notin {"idle", "startLock", "stopLock"} /\ StopReturns(a)
    BY <1>5 DEF StopRaises, StopActivate
  <2>2. ActorTypes' /\ Alone(a) /\ ActorFits(a)'
    BY <1>1, <2>1, StopReturnsFacts
  <2>. QED BY <1>1, <1>2, <1>3, <2>2, QuietStep
<1>. QED BY <1>4, <1>5 DEF StopRefused

\* Every step of stop.
LEMMA StopShape ==
  ASSUME DeviceAssumption, ActorAssumption, Shape, NEW a \in Actors, StopStep(a)
  PROVE  Shape'
  BY StopEntryShape, StopEndsShape, StopBeginShape, StopEvidenceShape, StopPersistShape
     DEF StopStep

\* An actor dies.
LEMMA CrashShape ==
  ASSUME DeviceAssumption, ActorAssumption, Shape, NEW a \in Actors, Crash(a)
  PROVE  Shape'
<1>1. UNCHANGED <<cap, ledger>> /\ SessionTypeOK' /\ DeviceTypeOK' /\ Return(a)
  BY UnderWay DEF Crash, sessionVars, deviceVars, SessionTypeOK, DeviceTypeOK
<1>2. CountersFit'
  BY DEF Crash, Shape, TypeOK, ActorAssumption, CountersFit
<1>. QED BY <1>1, <1>2, ReturnStep

\* Nobody's step: sessions are created, others change the device.
LEMMA OtherShape ==
  ASSUME DeviceAssumption, Shape, UNCHANGED <<actorVars, cap, ledger>>,
         SessionTypeOK', DeviceTypeOK'
  PROVE  Shape'
<1>1. TypeOK'
  BY DEF Shape, TypeOK, actorVars, CaptureTypeOK
<1>2. \A a \in Actors : ActorFits(a)'
  BY DEF Shape, actorVars, ActorFits, Stopping, Points, Indices
<1>3. \A s \in Sessions : CaptureFits(s)'
  BY DEF Shape, CaptureFits, Points, Indices
<1>. QED BY <1>1, <1>2, <1>3 DEF Shape

\* The initial state.
LEMMA InitShape == ASSUME DeviceAssumption, ActorAssumption, Init PROVE Shape
<1>1. SessionTypeOK
  BY EmptySeq DEF Init, SessionInit, SessionTypeOK, Statuses
<1>2. DeviceTypeOK
  BY DEF Init, DeviceInit, DeviceTypeOK, DeviceAssumption, ProxyValues
<1>3. CaptureTypeOK /\ \A s \in Sessions : cap[s].status = "none"
  BY DEF Init, CaptureInit, CaptureTypeOK, Captures, NoCapture, NoIds
<1>4. IdleFrame \in Frames
  BY IdleFrameFacts
<1>5. TypeOK
  <2>1. pc \in [Actors -> Labels] /\ on \in [Actors -> Sessions \cup {NoSession}]
    BY DEF Init, Labels
  <2>2. frame \in [Actors -> Frames]
    BY <1>4 DEF Init
  <2>3. 0 \in 0..MaxFaults /\ 0 \in 0..MaxCrashes
    BY DEF ActorAssumption
  <2>. QED BY <1>1, <1>2, <1>3, <2>1, <2>2, <2>3 DEF Init, TypeOK
<1>6. \A a \in Actors : ActorFits(a)
  BY DEF Init, ActorFits, Stopping, StartLabels, ExecutingLabels
<1>7. \A s \in Sessions : CaptureFits(s)
  BY <1>3 DEF CaptureFits
<1>. QED BY <1>5, <1>6, <1>7 DEF Shape

\* Every step keeps the shape.
LEMMA NextShape == ASSUME DeviceAssumption, ActorAssumption, Shape, [Next]_vars PROVE Shape'
<1>1. ASSUME NEW a \in Actors, Call(a)
      PROVE  Shape'
  BY <1>1, StartRequestShape, StopEntryShape DEF Call
<1>2. ASSUME NEW a \in Actors, ExecutorStep(a), UNCHANGED cap
      PROVE  Shape'
  BY <1>2, DecideShape, ApplyShape, MarkShape, RollbackCleanupShape DEF ExecutorStep
<1>3. ASSUME NEW a \in Actors, ActorStep(a)
      PROVE  Shape'
  BY <1>2, <1>3, StartShape, StopShape DEF ActorStep
<1>4. ASSUME NEW a \in Actors, Crash(a)
      PROVE  Shape'
  BY <1>4, CrashShape
<1>5. ASSUME NEW s \in Sessions, CreateSession(s), UNCHANGED <<deviceVars, actorVars, cap>>
      PROVE  Shape'
  <2>1. SessionTypeOK' /\ UNCHANGED ledger
    BY <1>5 DEF Shape, TypeOK, CreateSession, Initialize, Activate, CreateFails,
                SessionTypeOK, Statuses
  <2>2. DeviceTypeOK'
    BY <1>5 DEF Shape, TypeOK, deviceVars, DeviceTypeOK
  <2>. QED BY <1>5, <2>1, <2>2, OtherShape
<1>6. CASE Interference
  <2>1. SessionTypeOK' /\ UNCHANGED ledger /\ UNCHANGED <<actorVars, cap>>
    BY <1>6 DEF Interference, Shape, TypeOK, sessionVars, SessionTypeOK
  <2>2. DeviceTypeOK'
    BY <1>6, EnvironmentType DEF Interference, Shape, TypeOK
  <2>. QED BY <2>1, <2>2, OtherShape
<1>7. CASE UNCHANGED vars
  <2>1. SessionTypeOK' /\ DeviceTypeOK' /\ UNCHANGED <<actorVars, cap, ledger>>
    BY <1>7 DEF vars, sessionVars, deviceVars, Shape, TypeOK, SessionTypeOK, DeviceTypeOK
  <2>. QED BY <2>1, OtherShape
<1>. QED BY <1>1, <1>3, <1>4, <1>5, <1>6, <1>7 DEF Next

\* Every variable keeps its type: what the ledger, state.json and an operation's
\* local variables hold is what the code reads back.
THEOREM TypeCorrect == Spec => []TypeOK
<1>1. Init => Shape
  BY DeviceAssumption, ActorAssumption, InitShape
<1>2. Shape /\ [Next]_vars => Shape'
  BY DeviceAssumption, ActorAssumption, NextShape
<1>3. Shape => TypeOK
  BY DEF Shape
<1>. QED BY <1>1, <1>2, <1>3, PTL DEF Spec

(***************************************************************************)
(* One owner.  Pending actions appear only in the record steps of a start, *)
(* and a start that holds the device lock has found the slot free.         *)
(***************************************************************************)
\* Only the place of a changes.
OnlyMoves(a) == \A b \in Actors \ {a} : pc'[b] = pc[b] /\ on'[b] = on[b]

\* A step of a may take it into a start only when no other session has a
\* pending action.
LEMMA OwnerStep ==
  ASSUME Shape, Ownership, NEW a \in Actors, OnlyMoves(a),
         \A s \in Sessions : HasPending(s)' => HasPending(s),
         \A s \in Sessions : status'[s] = "cleaned" => status[s] = "cleaned" \/ ~HasPending(s),
         pc'[a] \in StartLabels =>
           /\ on'[a] = on[a]
           /\ pc[a] \in StartLabels \/ \A t \in Sessions \ {on[a]} : ~HasPending(t)
  PROVE  Ownership'
<1>1. OneOwner'
  BY DEF Ownership, OneOwner
<1>2. CleanedOwesNothing'
  BY DEF Ownership, CleanedOwesNothing
<1>3. StartOwnsDevice'
  BY DEF Ownership, StartOwnsDevice, OnlyMoves
<1>. QED BY <1>1, <1>2, <1>3 DEF Ownership

\* The same when ledgers and statuses do not change.
LEMMA OwnerMove ==
  ASSUME Shape, Ownership, NEW a \in Actors, OnlyMoves(a), UNCHANGED sessionVars,
         pc'[a] \in StartLabels => on'[a] = on[a] /\ pc[a] \in StartLabels
  PROVE  Ownership'
<1>1. \A s \in Sessions : HasPending(s)' => HasPending(s)
  BY DEF sessionVars, HasPending, Indices
<1>2. \A s \in Sessions : status'[s] = "cleaned" => status[s] = "cleaned"
  BY DEF sessionVars
<1>. QED BY <1>1, <1>2, OwnerStep

\* Where a step goes.
LEMMA Steps ==
  ASSUME Shape, NEW a \in Actors
  PROVE  /\ \A l : Goto(a, l) /\ UNCHANGED on => OnlyMoves(a) /\ pc'[a] = l /\ on'[a] = on[a]
         /\ \A l, s : Goto(a, l) /\ on' = [on EXCEPT ![a] = s] => OnlyMoves(a) /\ pc'[a] = l
         /\ Return(a) => OnlyMoves(a) /\ pc'[a] = "idle"
         /\ StopReturns(a) => OnlyMoves(a) /\ pc'[a] \in {"idle", "cleanup"}
  BY DEF Shape, TypeOK, Goto, Return, StopReturns, Keep, OnlyMoves

\* The start that takes the lock finds no pending action of another session.
LEMMA StartLockOwner ==
  ASSUME Shape, Ownership, NEW a \in Actors, StartLock(a)
  PROVE  Ownership'
<1>1. OnlyMoves(a) /\ pc'[a] = "spawn" /\ on'[a] = on[a] /\ UNCHANGED <<status, ledger>>
  BY Steps DEF StartLock, sessionVars
<1>2. \A t \in Sessions \ {on[a]} : ~HasPending(t)
  <2>1. \A t \in Sessions \ {on[a]} : status[t] # "cleaned" => ~PendingCleanup(t)
    BY DEF StartLock, MayStart, SlotFree
  <2>2. \A t \in Sessions : HasPending(t) => PendingCleanup(t)
    BY DEF HasPending, PendingCleanup
  <2>. QED BY <2>1, <2>2 DEF Ownership, CleanedOwesNothing
<1>3. \A s \in Sessions : HasPending(s)' => HasPending(s)
  BY <1>1 DEF HasPending, Indices
<1>. QED BY <1>1, <1>2, <1>3, OwnerStep

\* A start that records an action is the only one with pending actions.
LEMMA RecordOwner ==
  ASSUME DeviceAssumption, Shape, Ownership, NEW a \in Actors,
         StartRecordProcess(a) \/ StartRecordReverse(a) \/ StartRecordProxy(a)
  PROVE  Ownership'
<1>1. PICK k \in Kinds, v \in ProxyValues,
           from \in {"recordProcess", "recordReverse", "recordProxy"},
           to \in {"recordReverse", "addReverse", "readProxy", "putProxy"} :
        StartRecord(a, k, v, from, to)
  <2>1. "process" \in Kinds /\ "reverse" \in Kinds /\ "proxy" \in Kinds
    BY DEF Kinds
  <2>2. NoProxy \in ProxyValues /\ frame[a].prev \in ProxyValues
    BY UnderWay DEF ProxyValues, Frames
  <2>3. CASE StartRecordProcess(a)
    <3>1. (IF frame[a].adopt THEN "readProxy" ELSE "recordReverse")
            \in {"recordReverse", "addReverse", "readProxy", "putProxy"}
      OBVIOUS
    <3>. QED BY <2>1, <2>2, <2>3, <3>1 DEF StartRecordProcess
  <2>4. CASE StartRecordReverse(a)
    BY <2>1, <2>2, <2>4 DEF StartRecordReverse
  <2>5. CASE StartRecordProxy(a)
    BY <2>1, <2>2, <2>5 DEF StartRecordProxy
  <2>. QED BY <2>3, <2>4, <2>5
<1>2. /\ StartFits(a, frame[a], pc[a]) /\ frame[a] \in Frames /\ on[a] \in Sessions
      /\ lock = a /\ pc[a] = from /\ pc[a] \in StartLabels
  BY <1>1, StartHere DEF StartRecord, StartLabels
<1>. DEFINE e == [kind |-> k, port |-> frame[a].port, prev |-> v, proc |-> frame[a].proc]
<1>3. e \in Actions /\ RecordAction(on[a], e)
  BY <1>1, <1>2 DEF StartRecord, StartFits, Frames, Actions
<1>. HIDE DEF e
<1>4. /\ status' = [status EXCEPT ![on[a]] = "cleanup_required"]
      /\ \A t \in Sessions \ {on[a]} : ledger'[t] = ledger[t]
  BY <1>2, <1>3, UnderWay, RecordFacts
<1>5. \A t \in Sessions \ {on[a]} : ~HasPending(t)
  BY <1>2 DEF Ownership, StartOwnsDevice
<1>6. \A t \in Sessions \ {on[a]} : ~HasPending(t)'
  BY <1>4, <1>5 DEF HasPending, Indices
<1>7. OneOwner'
  BY <1>6 DEF OneOwner
<1>8. CleanedOwesNothing'
  BY <1>2, <1>4, <1>6, UnderWay DEF CleanedOwesNothing, SessionTypeOK
<1>9. StartOwnsDevice'
  <2>1. OnlyMoves(a) /\ on'[a] = on[a]
    BY <1>1, Steps DEF StartRecord, Keep
  <2>2. \A b \in Actors \ {a} : pc[b] \notin StartLabels
    BY <1>2, UnderWay DEF StartLabels
  <2>. QED BY <1>6, <2>1, <2>2 DEF StartOwnsDevice, OnlyMoves
<1>. QED BY <1>7, <1>8, <1>9 DEF Ownership

\* Every other step of start.
LEMMA StartOwner ==
  ASSUME DeviceAssumption, Shape, Ownership, NEW a \in Actors, StartStep(a)
  PROVE  Ownership'
<1>1. CASE StartRefused(a) \/ StartSpawnFails(a) \/ StartDropProcess(a)
  BY <1>1, Steps, OwnerMove DEF StartRefused, StartSpawnFails, StartDropProcess, StartLabels
<1>2. CASE StartSpawn(a) \/ StartReadProxy(a)
  BY <1>2, Steps, OwnerMove DEF StartSpawn, StartReadProxy, StartLabels, Keep
<1>3. CASE StartAddReverse(a) \/ StartPutProxy(a)
  BY <1>3, Steps, OwnerMove DEF StartAddReverse, StartPutProxy, StartChanged, StartLabels, Keep
<1>4. CASE StartRunning(a) \/ StartRaises(a)
  BY <1>4, Steps, OwnerMove DEF StartRunning, StartRaises, StartLabels, Keep
<1>. QED BY <1>1, <1>2, <1>3, <1>4, StartLockOwner, RecordOwner DEF StartStep

\* Stop changes no status to CLEANED and no action to pending.
LEMMA StopOwner ==
  ASSUME Shape, Ownership, NEW a \in Actors, StopStep(a)
  PROVE  Ownership'
<1>1. CASE StopRefused(a) \/ StopLock(a) \/ StopBegin(a) \/ StopEvidence(a)
  BY <1>1, Steps, OwnerMove DEF StopRefused, StopLock, StopBegin, StopEvidence, StartLabels, Keep
<1>2. CASE StopPersist(a) \/ StopRaises(a)
  BY <1>2, Steps, OwnerMove DEF StopPersist, StopRaises, StartLabels, Keep
<1>3. CASE StopActivate(a)
  <2>1. on[a] \in Sessions /\ SessionTypeOK
    BY <1>3, UnderWay DEF StopActivate
  <2>2. ledger' = ledger /\ status' = [status EXCEPT ![on[a]] = "active"]
    BY <1>3, <2>1 DEF StopActivate, SetStatus
  <2>3. OnlyMoves(a) /\ pc'[a] \notin StartLabels
    BY <1>3, Steps DEF StopActivate, StartLabels
  <2>4. \A s \in Sessions : HasPending(s)' => HasPending(s)
    BY <2>2 DEF HasPending, Indices
  <2>5. \A s \in Sessions : status'[s] = "cleaned" => status[s] = "cleaned"
    BY <2>1, <2>2 DEF SessionTypeOK
  <2>. QED BY <2>3, <2>4, <2>5, OwnerStep
<1>. QED BY <1>1, <1>2, <1>3 DEF StopStep

\* A session is cleaned when no action is left, and an action that was executed
\* is never pending again.
LEMMA ExecutorOwner ==
  ASSUME Shape, Ownership, NEW a \in Actors, ExecutorStep(a)
  PROVE  Ownership'
<1>1. CASE Decide(a) \/ Apply(a)
  <2>1. UNCHANGED <<on, sessionVars>> /\ (Goto(a, "apply") \/ Goto(a, "mark"))
    BY <1>1 DEF Decide, Apply, Keep
  <2>2. OnlyMoves(a) /\ pc'[a] \notin StartLabels
    BY <2>1, Steps DEF StartLabels
  <2>. QED BY <2>1, <2>2, OwnerMove
<1>2. CASE BeginRollback(a) \/ ReturnCleaned(a)
  BY <1>2, Steps, OwnerMove DEF BeginRollback, ReturnCleaned, StartLabels, Keep
<1>3. CASE Mark(a)
  <2>1. /\ pc[a] = "mark" /\ on[a] \in Sessions /\ SessionTypeOK
        /\ frame[a].verdict \in EntryStatuses /\ frame[a].verdict # "pending"
    BY <1>3, UnderWay DEF Mark, Frames, Verdicts
  <2>2. frame[a].current \in Indices(on[a])
    BY <2>1 DEF Shape, ActorFits, Points
  <2>3. /\ status' = status
        /\ \A t \in Sessions : Indices(t)' = Indices(t)
        /\ \A t \in Sessions : \A j \in Indices(t) :
             ledger'[t][j].status = IF t = on[a] /\ j = frame[a].current
                                    THEN frame[a].verdict ELSE ledger[t][j].status
    BY <1>3, <2>1, <2>2, UpdateFacts DEF Mark
  <2>4. \A s \in Sessions : HasPending(s)' => HasPending(s)
    BY <2>1, <2>3 DEF HasPending
  <2>5. OnlyMoves(a) /\ pc'[a] \notin StartLabels
    BY <1>3, Steps DEF Mark, Keep, AfterActions, StartLabels
  <2>. QED BY <2>3, <2>4, <2>5, OwnerStep
<1>4. CASE EndRollback(a) \/ BeginCleanup(a) \/ EndCleanup(a)
  <2>1. on[a] \in Sessions /\ SessionTypeOK
    BY <1>4, UnderWay DEF EndRollback, BeginCleanup, EndCleanup
  <2>2. PICK v : /\ SetStatus(on[a], v)
                 /\ v = "cleaned" => Unsettled(on[a]) = {}
    BY <1>4 DEF EndRollback, BeginCleanup, EndCleanup
  <2>3. ledger' = ledger /\ status' = [status EXCEPT ![on[a]] = v]
    BY <2>2 DEF SetStatus
  <2>4. OnlyMoves(a) /\ pc'[a] \notin StartLabels
    BY <1>4, Steps DEF EndRollback, BeginCleanup, EndCleanup, Keep, StartLabels
  <2>5. \A s \in Sessions : HasPending(s)' => HasPending(s)
    BY <2>3 DEF HasPending, Indices
  <2>6. Unsettled(on[a]) = {} => ~HasPending(on[a])
    BY DEF Unsettled, HasPending, Settled
  <2>7. \A s \in Sessions : status'[s] = "cleaned" => status[s] = "cleaned" \/ ~HasPending(s)
    BY <2>1, <2>2, <2>3, <2>6 DEF SessionTypeOK
  <2>. QED BY <2>4, <2>5, <2>7, OwnerStep
<1>. QED BY <1>1, <1>2, <1>3, <1>4 DEF ExecutorStep

\* Every step keeps the ownership of the device.
LEMMA NextOwnership ==
  ASSUME DeviceAssumption, Shape, Ownership, [Next]_vars
  PROVE  Ownership'
<1>1. ASSUME NEW a \in Actors, Call(a)
      PROVE  Ownership'
  <2>1. PICK s \in Sessions : StartRequest(a, s) \/ StopRequest(a, s) \/ CleanupLock(a, s)
    BY <1>1 DEF Call
  <2>2. OnlyMoves(a) /\ pc'[a] \notin StartLabels /\ UNCHANGED sessionVars
    <3>1. /\ on' = [on EXCEPT ![a] = s] /\ UNCHANGED sessionVars
          /\ \E l \in {"startLock", "stopLock", "stop", "cleanup"} : Goto(a, l)
      BY <2>1 DEF StartRequest, StopRequest, CleanupLock
    <3>. QED BY <3>1, Steps DEF StartLabels
  <2>. QED BY <2>2, OwnerMove
<1>2. ASSUME NEW a \in Actors, ActorStep(a)
      PROVE  Ownership'
  BY <1>2, ExecutorOwner, StartOwner, StopOwner DEF ActorStep
<1>3. ASSUME NEW a \in Actors, Crash(a)
      PROVE  Ownership'
  BY <1>3, Steps, OwnerMove DEF Crash, StartLabels
<1>4. ASSUME NEW s \in Sessions, CreateSession(s), UNCHANGED <<deviceVars, actorVars, cap>>
      PROVE  Ownership'
  <2>1. UNCHANGED <<ledger, pc, on>>
    BY <1>4 DEF CreateSession, Initialize, Activate, CreateFails, actorVars
  <2>2. \A t \in Sessions : status'[t] = "cleaned" => status[t] = "cleaned"
    BY <1>4 DEF CreateSession, Initialize, Activate, CreateFails, Shape, TypeOK, SessionTypeOK
  <2>. QED BY <2>1, <2>2 DEF Ownership, OneOwner, CleanedOwesNothing, StartOwnsDevice,
                             HasPending, Indices
<1>5. CASE Interference \/ UNCHANGED vars
  <2>1. UNCHANGED <<status, ledger, pc, on>>
    BY <1>5 DEF Interference, vars, sessionVars, actorVars
  <2>. QED BY <2>1 DEF Ownership, OneOwner, CleanedOwesNothing, StartOwnsDevice,
                       HasPending, Indices
<1>. QED BY <1>1, <1>2, <1>3, <1>4, <1>5 DEF Next

\* Two sessions never both hold changes that nobody tried to give back, although
\* start first looks at the other sessions before it waits for the device lock.
THEOREM DeviceHasOneOwner == Spec => []OneOwner
<1>1. Init => IInv
  <2>1. Init => Ownership
    <3>1. Init => \A s \in Sessions : ~HasPending(s)
      BY DEF Init, SessionInit, HasPending, Indices
    <3>. QED BY <3>1 DEF Ownership, OneOwner, CleanedOwesNothing, StartOwnsDevice
  <2>. QED BY <2>1, DeviceAssumption, ActorAssumption, InitShape DEF IInv
<1>2. IInv /\ [Next]_vars => IInv'
  BY DeviceAssumption, ActorAssumption, NextShape, NextOwnership DEF IInv
<1>3. IInv => OneOwner
  BY DEF IInv, Ownership
<1>. QED BY <1>1, <1>2, <1>3, PTL DEF Spec

(***************************************************************************)
(* What a step does to the ledgers, to the device and to an actor.         *)
(***************************************************************************)
\* An operation of a, or its death.
Acts(a) == Call(a) \/ ActorStep(a) \/ Crash(a)

\* The action a has settled, which it marks now.
Settles(a, s, i) ==
  /\ pc[a] = "mark" /\ s = on[a] /\ i = frame[a].current
  /\ frame[a].verdict \in Settled

\* Ledgers grow, actions keep what they say, and what is owed stays owed unless
\* it was executed with success.
LedgersKept ==
  \A s \in Sessions : \A i \in Indices(s) :
    /\ i \in Indices(s)'
    /\ ledger'[s][i].action = ledger[s][i].action
    /\ i \in Unsettled(s) => i \in Unsettled(s)' \/ \E a \in Actors : Settles(a, s, i)

LEMMA SameLedger == ASSUME UNCHANGED ledger PROVE LedgersKept
  BY DEF LedgersKept, Unsettled, Indices

\* Marking an action does not change what it says.
LEMMA UpdateActions ==
  ASSUME SessionTypeOK, NEW s \in Sessions, NEW i \in Indices(s), NEW v \in EntryStatuses,
         UpdateAction(s, i, v)
  PROVE  \A t \in Sessions : \A j \in Indices(t) : ledger'[t][j].action = ledger[t][j].action
<1>. DEFINE e == [ledger[s][i] EXCEPT !.status = v]
            L == [ledger[s] EXCEPT ![i] = e]
<1>1. ledger' = [ledger EXCEPT ![s] = L]
  BY DEF UpdateAction
<1>2. ledger[s] \in Seq(Entries) /\ i \in 1..Len(ledger[s]) /\ ledger[s][i] \in Entries
  BY LedgerFacts DEF Indices
<1>3. e \in Entries /\ e.action = ledger[s][i].action
  BY <1>2 DEF Entries
<1>4. \A j \in 1..Len(ledger[s]) : L[j] = IF j = i THEN e ELSE ledger[s][j]
  <2>. HIDE DEF e
  <2>. QED BY <1>2, <1>3, ExceptSeq
<1>. HIDE DEF e, L
<1>5. \A t \in Sessions : ledger'[t] = IF t = s THEN L ELSE ledger[t]
  BY <1>1 DEF SessionTypeOK
<1>. QED BY <1>3, <1>4, <1>5 DEF Indices

\* Recording one keeps the others, and what is recorded is owed.
LEMMA RecordEntries ==
  ASSUME SessionTypeOK, NEW s \in Sessions, NEW e \in Actions, RecordAction(s, e)
  PROVE  /\ \A t \in Sessions : \A j \in Indices(t) : ledger'[t][j] = ledger[t][j]
         /\ Len(ledger[s]) + 1 \in Unsettled(s)'
         /\ ledger'[s][Len(ledger[s]) + 1].action = e
<1>. DEFINE x == [action |-> e, status |-> "pending"]
            L == Append(ledger[s], x)
            n == Len(ledger[s]) + 1
<1>1. ledger' = [ledger EXCEPT ![s] = L]
  BY DEF RecordAction
<1>2. x \in Entries /\ x.action = e /\ x.status \notin Settled
  BY DEF Entries, EntryStatuses, Settled
<1>3. ledger[s] \in Seq(Entries) /\ Len(ledger[s]) \in Nat
  BY LedgerFacts
<1>4. /\ Len(L) = n /\ L[n] = x
      /\ \A j \in 1..Len(ledger[s]) : L[j] = ledger[s][j]
  <2>. HIDE DEF x
  <2>. QED BY <1>2, <1>3, AppendProperties
<1>. HIDE DEF x, L
<1>5. \A t \in Sessions : ledger'[t] = IF t = s THEN L ELSE ledger[t]
  BY <1>1 DEF SessionTypeOK
<1>6. \A t \in Sessions : \A j \in Indices(t) : ledger'[t][j] = ledger[t][j]
  BY <1>4, <1>5 DEF Indices
<1>7. n \in Indices(s)' /\ ledger'[s][n] = x
  BY <1>3, <1>4, <1>5 DEF Indices
<1>. QED BY <1>2, <1>6, <1>7 DEF Unsettled

\* After a step of a the ledger of its session owes an action of kind k that puts back v.
NewlyOwed(a, k, v) ==
  \A s \in Sessions : s = on[a] =>
    \E i \in Unsettled(s)' :
      ledger'[s][i].action = [kind |-> k, port |-> frame[a].port, prev |-> v, proc |-> frame[a].proc]

\* The three actions a start records: where it goes on, and what is owed then.
LEMMA RecordStep ==
  ASSUME DeviceAssumption, Shape, NEW a \in Actors, NEW k \in Kinds, NEW v \in ProxyValues,
         NEW from \in {"recordProcess", "recordReverse", "recordProxy"}, NEW to,
         StartRecord(a, k, v, from, to)
  PROVE  /\ LedgersKept
         /\ on'[a] = on[a] /\ on[a] \in Sessions /\ lock = a /\ pc[a] = from
         /\ frame'[a].port = frame[a].port /\ frame'[a].proc = frame[a].proc
         /\ frame'[a].prev = frame[a].prev
         /\ frame[a].ids \in [Kinds -> Nat] /\ frame[a].port \in Ports
         /\ \/ pc'[a] = to /\ frame'[a].ids = [frame[a].ids EXCEPT ![k] = Len(ledger[on[a]]) + 1]
            \/ pc'[a] = "rollback" /\ frame'[a] = frame[a]
         /\ status'[on[a]] = "cleanup_required"
         /\ NewlyOwed(a, k, v)
<1>1. /\ StartFits(a, frame[a], from) /\ frame[a] \in Frames /\ on[a] \in Sessions
      /\ lock = a /\ pc[a] = from
  BY StartHere DEF StartRecord, StartLabels
<1>. DEFINE e == [kind |-> k, port |-> frame[a].port, prev |-> v, proc |-> frame[a].proc]
<1>2. e \in Actions /\ RecordAction(on[a], e) /\ SessionTypeOK
  BY <1>1, UnderWay DEF StartRecord, StartFits, Frames, Actions
<1>3. /\ \A t \in Sessions : \A j \in Indices(t) : ledger'[t][j] = ledger[t][j] /\ j \in Indices(t)'
      /\ Len(ledger[on[a]]) + 1 \in Unsettled(on[a])'
      /\ ledger'[on[a]][Len(ledger[on[a]]) + 1].action = e
      /\ status' = [status EXCEPT ![on[a]] = "cleanup_required"]
  <2>. HIDE DEF e
  <2>1. on'[a] = on[a]
    BY DEF StartRecord, Keep
  <2>. QED BY <1>1, <1>2, <2>1, RecordFacts, RecordEntries DEF Unsettled, Indices
<1>4. LedgersKept
  BY <1>3 DEF LedgersKept, Unsettled
<1>5. frame[a].ids \in [Kinds -> Nat] /\ frame[a].port \in Ports
  BY <1>1 DEF StartFits, Frames
<1>6. \/ /\ frame'[a] = [frame[a] EXCEPT !.ids = [frame[a].ids EXCEPT ![k] = Len(ledger[on[a]]) + 1]]
         /\ pc'[a] = to
      \/ pc'[a] = "rollback" /\ frame'[a] = frame[a]
  BY DEF StartRecord, Shape, TypeOK, Goto
<1>7. /\ frame'[a].port = frame[a].port /\ frame'[a].proc = frame[a].proc
      /\ frame'[a].prev = frame[a].prev
      /\ \/ pc'[a] = to /\ frame'[a].ids = [frame[a].ids EXCEPT ![k] = Len(ledger[on[a]]) + 1]
         \/ pc'[a] = "rollback" /\ frame'[a] = frame[a]
  BY <1>1, <1>6 DEF Frames
<1>8. on'[a] = on[a] /\ status'[on[a]] = "cleanup_required"
  BY <1>1, <1>2, <1>3 DEF StartRecord, Keep, SessionTypeOK
<1>9. ASSUME NEW s \in Sessions, s = on[a]
      PROVE  \E i \in Unsettled(s)' : ledger'[s][i].action = e
  BY <1>3, <1>8, <1>9 DEF Unsettled, Indices
<1>10. NewlyOwed(a, k, v)
  BY <1>9 DEF NewlyOwed
<1>. QED BY <1>1, <1>3, <1>4, <1>5, <1>7, <1>8, <1>10

\* Which of the three it is.
LEMMA RecordCases ==
  ASSUME Shape, NEW a \in Actors
  PROVE  /\ StartRecordProcess(a) => \E to \in {"readProxy", "recordReverse"} :
              StartRecord(a, "process", NoProxy, "recordProcess", to)
         /\ StartRecordReverse(a) => StartRecord(a, "reverse", NoProxy, "recordReverse", "addReverse")
         /\ StartRecordProxy(a) => StartRecord(a, "proxy", frame[a].prev, "recordProxy", "putProxy")
         /\ Kinds = {"process", "reverse", "proxy"}
         /\ NoProxy \in ProxyValues /\ frame[a].prev \in ProxyValues
<1>1. NoProxy \in ProxyValues /\ frame[a].prev \in ProxyValues
  BY UnderWay DEF ProxyValues, Frames
<1>2. StartRecordProcess(a) => \E to \in {"readProxy", "recordReverse"} :
              StartRecord(a, "process", NoProxy, "recordProcess", to)
  BY DEF StartRecordProcess
<1>. QED BY <1>1, <1>2 DEF StartRecordReverse, StartRecordProxy, Kinds

\* Marking: what is settled is what was executed.
LEMMA MarkStep ==
  ASSUME Shape, NEW a \in Actors, Mark(a)
  PROVE  /\ LedgersKept /\ on[a] \in Sessions /\ lock = a
         /\ frame[a].current \in Indices(on[a])
         /\ UNCHANGED status
         /\ \A t \in Sessions : \A j \in Indices(t) :
              ledger'[t][j].status = IF t = on[a] /\ j = frame[a].current
                                     THEN frame[a].verdict ELSE ledger[t][j].status
<1>1. /\ pc[a] = "mark" /\ on[a] \in Sessions /\ SessionTypeOK /\ lock = a
      /\ frame[a].verdict \in EntryStatuses
  BY UnderWay DEF Mark, Frames, Verdicts
<1>2. frame[a].current \in Indices(on[a])
  BY <1>1 DEF Shape, ActorFits, Points
<1>3. /\ UNCHANGED status
      /\ \A t \in Sessions : Indices(t)' = Indices(t)
      /\ \A t \in Sessions : \A j \in Indices(t) :
           ledger'[t][j].status = IF t = on[a] /\ j = frame[a].current
                                  THEN frame[a].verdict ELSE ledger[t][j].status
  BY <1>1, <1>2, UpdateFacts DEF Mark
<1>4. \A t \in Sessions : \A j \in Indices(t) : ledger'[t][j].action = ledger[t][j].action
  BY <1>1, <1>2, UpdateActions DEF Mark
<1>5. LedgersKept
  BY <1>1, <1>3, <1>4 DEF LedgersKept, Unsettled, Settles
<1>. QED BY <1>1, <1>2, <1>3, <1>5

\* Every step.
LEMMA LedgerStep ==
  ASSUME DeviceAssumption, Shape, [Next]_vars
  PROVE  LedgersKept
<1>1. ASSUME NEW a \in Actors, Call(a) \/ Crash(a)
      PROVE  UNCHANGED ledger
  BY <1>1 DEF Call, Crash, StartRequest, StopRequest, CleanupLock, sessionVars
<1>2. ASSUME NEW a \in Actors, ExecutorStep(a), ~Mark(a)
      PROVE  UNCHANGED ledger
  BY <1>2 DEF ExecutorStep, Decide, Apply, BeginRollback, EndRollback, ReturnCleaned,
              BeginCleanup, EndCleanup, SetStatus, sessionVars
<1>3. ASSUME NEW a \in Actors, StartStep(a),
             ~(StartRecordProcess(a) \/ StartRecordReverse(a) \/ StartRecordProxy(a))
      PROVE  UNCHANGED ledger
  BY <1>3 DEF StartStep, StartLock, StartRefused, StartSpawn, StartSpawnFails, StartAddReverse,
              StartReadProxy, StartPutProxy, StartRunning, StartRaises, StartDropProcess, sessionVars
<1>4. ASSUME NEW a \in Actors, StartRecordProcess(a) \/ StartRecordReverse(a) \/ StartRecordProxy(a)
      PROVE  LedgersKept
  BY <1>4, RecordCases, RecordStep
<1>5. ASSUME NEW a \in Actors, StopStep(a)
      PROVE  UNCHANGED ledger
  BY <1>5 DEF StopStep, StopRefused, StopLock, StopBegin, StopEvidence, StopPersist, StopRaises,
              StopActivate, SetStatus, sessionVars
<1>6. ASSUME NEW s \in Sessions, CreateSession(s)
      PROVE  UNCHANGED ledger
  BY <1>6 DEF CreateSession, Initialize, Activate, CreateFails
<1>7. CASE Interference \/ UNCHANGED vars
  BY <1>7, SameLedger DEF Interference, vars, sessionVars
<1>. QED BY <1>1, <1>2, <1>3, <1>4, <1>5, <1>6, <1>7, SameLedger, MarkStep DEF Next, ActorStep

\* Where the device is touched: the operations that do not.
LEMMA DeviceLeft ==
  ASSUME Shape, NEW a \in Actors, Acts(a),
         ~Apply(a), ~StartSpawn(a), ~StartAddReverse(a), ~StartPutProxy(a), ~StartDropProcess(a)
  PROVE  UNCHANGED deviceVars
<1>1. CASE Call(a) \/ Crash(a)
  BY <1>1 DEF Call, Crash, StartRequest, StopRequest, CleanupLock
<1>2. CASE ExecutorStep(a)
  BY <1>2 DEF ExecutorStep, Decide, Mark, BeginRollback, EndRollback, ReturnCleaned,
              BeginCleanup, EndCleanup
<1>3. CASE StartStep(a)
  BY <1>3 DEF StartStep, StartLock, StartRefused, StartSpawnFails, StartReadProxy, StartRunning,
              StartRaises, StartRecordProcess, StartRecordReverse, StartRecordProxy, StartRecord
<1>4. CASE StopStep(a)
  BY <1>4 DEF StopStep, StopRefused, StopLock, StopBegin, StopEvidence, StopPersist, StopRaises,
              StopActivate
<1>. QED BY <1>1, <1>2, <1>3, <1>4 DEF Acts, ActorStep

\* What each of the five does.
LEMMA DeviceTouched ==
  ASSUME Shape, NEW a \in Actors
  PROVE  /\ Apply(a) =>
              /\ pc[a] = "apply" /\ pc'[a] = "mark"
              /\ spawned' = spawned /\ alive' \subseteq alive
              /\ proxy' # proxy => Action(a).kind = "proxy" /\ proxy' = Action(a).prev
              /\ reverse' = reverse \/ /\ Action(a).kind = "reverse"
                                       /\ reverse' = [reverse EXCEPT ![Action(a).port] = "none"]
         /\ StartSpawn(a) =>
              /\ pc[a] = "spawn" /\ UNCHANGED <<proxy, reverse>>
              /\ spawned' = spawned + 1
              /\ alive' = alive \cup {[id |-> spawned + 1, port |-> frame[a].port]}
         /\ StartAddReverse(a) =>
              /\ pc[a] = "addReverse" /\ UNCHANGED <<proxy, alive, spawned>>
              /\ reverse' = reverse \/ reverse' = [reverse EXCEPT ![frame[a].port] = "own"]
         /\ StartPutProxy(a) =>
              /\ pc[a] = "putProxy" /\ UNCHANGED <<reverse, alive, spawned>>
              /\ proxy' # proxy => proxy' = frame[a].port
         /\ StartDropProcess(a) =>
              /\ pc[a] = "rollback" /\ UNCHANGED <<proxy, reverse, spawned>>
              /\ alive' \subseteq alive
              /\ frame[a].proc \in spared' \/ \A x \in alive' : x.id # frame[a].proc
<1>1. Apply(a) => UNCHANGED deviceVars \/ \E took \in BOOLEAN : Effect(Action(a), took)
  BY DEF Apply
<1>2. ASSUME NEW e, NEW took \in BOOLEAN, Effect(e, took)
      PROVE  /\ spawned' = spawned /\ alive' \subseteq alive
             /\ proxy' # proxy => e.kind = "proxy" /\ proxy' = e.prev
             /\ reverse' = reverse \/ /\ e.kind = "reverse"
                                      /\ reverse' = [reverse EXCEPT ![e.port] = "none"]
  BY <1>2 DEF Effect, PutSetting, SetReverse, Terminate
<1>3. Apply(a) => pc[a] = "apply" /\ pc'[a] = "mark"
  BY DEF Apply, Goto, Shape, TypeOK
<1>4. Apply(a) =>
              /\ pc[a] = "apply" /\ pc'[a] = "mark"
              /\ spawned' = spawned /\ alive' \subseteq alive
              /\ proxy' # proxy => Action(a).kind = "proxy" /\ proxy' = Action(a).prev
              /\ reverse' = reverse \/ /\ Action(a).kind = "reverse"
                                       /\ reverse' = [reverse EXCEPT ![Action(a).port] = "none"]
  BY <1>1, <1>2, <1>3 DEF deviceVars
<1>5. StartSpawn(a) =>
              /\ pc[a] = "spawn" /\ UNCHANGED <<proxy, reverse>>
              /\ spawned' = spawned + 1
              /\ alive' = alive \cup {[id |-> spawned + 1, port |-> frame[a].port]}
  BY DEF StartSpawn, Spawn
<1>6. StartAddReverse(a) =>
              /\ pc[a] = "addReverse" /\ UNCHANGED <<proxy, alive, spawned>>
              /\ reverse' = reverse \/ reverse' = [reverse EXCEPT ![frame[a].port] = "own"]
  BY DEF StartAddReverse, SetReverse
<1>7. StartPutProxy(a) =>
              /\ pc[a] = "putProxy" /\ UNCHANGED <<reverse, alive, spawned>>
              /\ proxy' # proxy => proxy' = frame[a].port
  BY DEF StartPutProxy, PutSetting
<1>8. StartDropProcess(a) =>
              /\ pc[a] = "rollback" /\ UNCHANGED <<proxy, reverse, spawned>>
              /\ alive' \subseteq alive
              /\ frame[a].proc \in spared' \/ \A x \in alive' : x.id # frame[a].proc
  BY DEF StartDropProcess, Terminate, Spare, deviceVars
<1>. QED BY <1>4, <1>5, <1>6, <1>7, <1>8

\* What others do to the device.
LEMMA EnvironmentStep ==
  ASSUME DeviceAssumption, DeviceTypeOK, Environment
  PROVE  /\ spawned' = spawned /\ alive' \subseteq alive
         /\ proxy' = proxy \/ proxy' \in External \cup {NoProxy}
         /\ \A p \in Ports : reverse'[p] # reverse[p] => reverse'[p] \in {"none", "other"}
         /\ externals' = externals + 1
<1>1. ASSUME NEW v \in External \cup {NoProxy}, ProxyChanged(v)
      PROVE  /\ proxy' = v /\ UNCHANGED <<reverse, spawned, alive>> /\ externals' = externals + 1
  BY <1>1 DEF ProxyChanged, ExternalChange
<1>2. ASSUME ReversesLost
      PROVE  /\ UNCHANGED <<proxy, spawned, alive>> /\ reverse' = [p \in Ports |-> "none"]
             /\ externals' = externals + 1
  BY <1>2 DEF ReversesLost, ExternalChange
<1>3. ASSUME NEW p \in Ports, ReverseTaken(p)
      PROVE  /\ UNCHANGED <<proxy, spawned, alive>> /\ reverse' = [reverse EXCEPT ![p] = "other"]
             /\ externals' = externals + 1
  BY <1>3 DEF ReverseTaken, ExternalChange
<1>4. ASSUME NEW x \in alive, ProcessExits(x)
      PROVE  UNCHANGED <<proxy, spawned, reverse>> /\ alive' = alive \ {x} /\ externals' = externals + 1
  BY <1>4 DEF ProcessExits, ExternalChange
<1>5. ASSUME NEW n \in ProcIds, PidReused(n)
      PROVE  UNCHANGED <<proxy, spawned, reverse, alive>> /\ externals' = externals + 1
  BY <1>5 DEF PidReused, ExternalChange
<1>6. reverse \in [Ports -> {"none", "own", "other"}]
  BY DEF DeviceTypeOK
<1>. QED BY <1>1, <1>2, <1>3, <1>4, <1>5, <1>6 DEF Environment

\* Who moves: everybody else stays where it was.
Still(a) == pc'[a] = pc[a] /\ on'[a] = on[a] /\ frame'[a] = frame[a]

LEMMA ActsAlone ==
  ASSUME Shape, NEW a \in Actors, Acts(a)
  PROVE  \A b \in Actors \ {a} : Still(b)
<1>. DEFINE Only == /\ \E l : pc' = [pc EXCEPT ![a] = l]
                    /\ \E s : on' = [on EXCEPT ![a] = s]
                    /\ \E f : frame' = [frame EXCEPT ![a] = f]
<1>0. /\ on = [on EXCEPT ![a] = on[a]] /\ frame = [frame EXCEPT ![a] = frame[a]]
      /\ pc = [pc EXCEPT ![a] = pc[a]]
      /\ pc \in [Actors -> Labels] /\ on \in [Actors -> Sessions \cup {NoSession}]
      /\ frame \in [Actors -> Frames]
  BY DEF Shape, TypeOK
<1>1. CASE Call(a) \/ Crash(a)
  BY <1>0, <1>1 DEF Call, Crash, StartRequest, StopRequest, CleanupLock, Goto, Return, Still
<1>2. CASE ExecutorStep(a)
  BY <1>0, <1>2 DEF ExecutorStep, Decide, Apply, Mark, BeginRollback, EndRollback, ReturnCleaned,
              BeginCleanup, EndCleanup, Begin, Goto, Keep, Return, Still
<1>3. CASE StartStep(a)
  BY <1>0, <1>3 DEF StartStep, StartLock, StartRefused, StartSpawn, StartSpawnFails, StartReadProxy,
              StartRunning, StartRaises, StartDropProcess, StartAddReverse, StartPutProxy, StartChanged,
              StartRecordProcess, StartRecordReverse, StartRecordProxy, StartRecord,
              Goto, Keep, Return, Still
<1>4. CASE StopStep(a)
  BY <1>0, <1>4 DEF StopStep, StopRefused, StopLock, StopBegin, StopEvidence, StopPersist, StopRaises,
              StopActivate, StopReturns, Goto, Keep, Return, Still
<1>. QED BY <1>1, <1>2, <1>3, <1>4 DEF Acts, ActorStep

\* A step is the step of one actor, a session that is created, or others' doing.
LEMMA StepCases ==
  ASSUME Shape, [Next]_vars
  PROVE  \/ \E a \in Actors : Acts(a) /\ \A b \in Actors \ {a} : Still(b)
         \/ /\ UNCHANGED <<actorVars, cap>> /\ \A b \in Actors : Still(b)
            /\ \/ UNCHANGED deviceVars /\ (UNCHANGED sessionVars \/ \E s \in Sessions : CreateSession(s))
               \/ Interference /\ UNCHANGED sessionVars
<1>1. ASSUME NEW a \in Actors, Call(a) \/ ActorStep(a) \/ Crash(a)
      PROVE  Acts(a) /\ \A b \in Actors \ {a} : Still(b)
  BY <1>1, ActsAlone DEF Acts
<1>2. UNCHANGED actorVars => \A b \in Actors : Still(b)
  BY DEF actorVars, Still
<1>3. ASSUME NEW s \in Sessions, CreateSession(s), UNCHANGED <<deviceVars, actorVars, cap>>
      PROVE  /\ UNCHANGED <<actorVars, cap>> /\ \A b \in Actors : Still(b)
             /\ UNCHANGED deviceVars /\ CreateSession(s)
  BY <1>2, <1>3
<1>4. ASSUME Interference
      PROVE  UNCHANGED <<actorVars, cap, sessionVars>> /\ \A b \in Actors : Still(b)
  BY <1>2, <1>4 DEF Interference
<1>5. ASSUME UNCHANGED vars
      PROVE  /\ UNCHANGED <<actorVars, cap>> /\ \A b \in Actors : Still(b)
             /\ UNCHANGED deviceVars /\ UNCHANGED sessionVars
  BY <1>2, <1>5 DEF vars
<1>6. CASE \E a \in Actors : Call(a) \/ ActorStep(a) \/ Crash(a)
  BY <1>1, <1>6
<1>7. CASE \E s \in Sessions : CreateSession(s) /\ UNCHANGED <<deviceVars, actorVars, cap>>
  <2>1. PICK s \in Sessions : CreateSession(s) /\ UNCHANGED <<deviceVars, actorVars, cap>>
    BY <1>7
  <2>2. UNCHANGED <<actorVars, cap, deviceVars>> /\ \A b \in Actors : Still(b)
    BY <1>3, <2>1
  <2>. QED BY <2>1, <2>2
<1>8. CASE Interference
  <2>1. /\ UNCHANGED <<actorVars, cap>> /\ \A b \in Actors : Still(b)
        /\ UNCHANGED sessionVars
    BY <1>4, <1>8
  <2>. QED BY <1>8, <2>1
<1>9. CASE UNCHANGED vars
  BY <1>5, <1>9
<1>. QED BY <1>6, <1>7, <1>8, <1>9 DEF Next

\* How the proxy, the mappings and the processes change in a step.
ProxyChange ==
  \/ proxy' = proxy
  \/ proxy' \in External \cup {NoProxy} /\ Interference
  \/ \E a \in Actors : pc[a] = "putProxy" /\ StartPutProxy(a) /\ proxy' = frame[a].port
  \/ \E a \in Actors : /\ pc[a] = "apply" /\ Apply(a) /\ Action(a).kind = "proxy"
                       /\ proxy' = Action(a).prev
ReverseChange ==
  \A p \in Ports :
    \/ reverse'[p] = reverse[p]
    \/ reverse'[p] \in {"none", "other"} /\ Interference
    \/ \E a \in Actors : /\ pc[a] = "apply" /\ Apply(a) /\ Action(a).kind = "reverse"
                         /\ Action(a).port = p /\ reverse'[p] = "none"
    \/ \E a \in Actors : pc[a] = "addReverse" /\ StartAddReverse(a) /\ frame[a].port = p /\ reverse'[p] = "own"
ProcessChange ==
  \/ alive' \subseteq alive /\ spawned' = spawned
  \/ \E a \in Actors :
       /\ pc[a] = "spawn" /\ StartSpawn(a) /\ spawned' = spawned + 1
       /\ alive' = alive \cup {[id |-> spawned + 1, port |-> frame[a].port]}

LEMMA DeviceStep ==
  ASSUME DeviceAssumption, Shape, [Next]_vars
  PROVE  ProxyChange /\ ReverseChange /\ ProcessChange
<1>0. reverse \in [Ports -> {"none", "own", "other"}] /\ DeviceTypeOK
  BY DEF Shape, TypeOK, DeviceTypeOK
<1>1. ASSUME NEW a \in Actors, Acts(a)
      PROVE  ProxyChange /\ ReverseChange /\ ProcessChange
  <2>1. CASE UNCHANGED deviceVars
    BY <2>1 DEF deviceVars, ProxyChange, ReverseChange, ProcessChange
  <2>2. CASE Apply(a)
    BY <1>0, <2>2, DeviceTouched DEF ProxyChange, ReverseChange, ProcessChange
  <2>3. CASE StartSpawn(a) \/ StartDropProcess(a)
    BY <1>0, <2>3, DeviceTouched DEF ProxyChange, ReverseChange, ProcessChange
  <2>4. CASE StartAddReverse(a)
    BY <1>0, <2>4, DeviceTouched DEF ProxyChange, ReverseChange, ProcessChange
  <2>5. CASE StartPutProxy(a)
    BY <1>0, <2>5, DeviceTouched DEF ProxyChange, ReverseChange, ProcessChange
  <2>. QED BY <1>1, <2>1, <2>2, <2>3, <2>4, <2>5, DeviceLeft
<1>2. CASE Interference
  BY <1>0, <1>2, EnvironmentStep DEF Interference, ProxyChange, ReverseChange, ProcessChange
<1>3. CASE UNCHANGED deviceVars
  BY <1>3 DEF deviceVars, ProxyChange, ReverseChange, ProcessChange
<1>. QED BY <1>1, <1>2, <1>3, StepCases

(***************************************************************************)
(* Nothing unrecorded.  A start announces a change in the ledger before it *)
(* makes it, and what is marked as settled has been given back; with the   *)
(* numbers that tell processes apart this is inductive (Debts).            *)
(***************************************************************************)
\* A ledger still has to give process n back.
OwedProcess(n) ==
  \E s \in Sessions : \E i \in Unsettled(s) :
    ledger[s][i].action.kind = "process" /\ ledger[s][i].action.proc = n

\* A start whose process is in no ledger yet.
Unregistered(a) == pc[a] = "recordProcess" \/ (pc[a] = "rollback" /\ Recorded(a) = {})

\* What a start does next is in the ledger.
ActorAnnounces(a) ==
  /\ pc[a] = "addReverse" => OwedBy(on[a], "reverse", frame[a].port)
  /\ pc[a] = "putProxy" => OwedBy(on[a], "proxy", frame[a].port)
  /\ pc[a] \in {"startLock", "spawn", "recordProcess"} => Recorded(a) = {}
  /\ frame[a].proc <= spawned
  /\ Alive(frame[a].proc) =>
       OwedProcess(frame[a].proc) \/ Unregistered(a) \/ frame[a].proc \in spared
Announced == \A a \in Actors : ActorAnnounces(a)

\* What is marked as settled was given back, or passed for ended.
ActorGaveBack(a) ==
  pc[a] = "mark" /\ frame[a].verdict \in Settled =>
    /\ Action(a).kind = "proxy" => proxy \notin Ports \/ proxy = Action(a).prev
    /\ Action(a).kind = "reverse" => reverse[Action(a).port] # "own"
    /\ Action(a).kind = "process" => ~Alive(Action(a).proc) \/ Action(a).proc \in spared
GivenBack == \A a \in Actors : ActorGaveBack(a)

\* Every process has a number of its own.
Numbered ==
  /\ IsFiniteSet(alive)
  /\ \A x \in alive : x.id \in 1..spawned
  /\ \A x, y \in alive : x.id = y.id => x = y

Debts == Announced /\ GivenBack /\ Numbered /\ NothingUnrecorded

\* Two actors past their first steps are one.
LEMMA LockHolder ==
  ASSUME Shape, NEW a \in Actors, NEW b \in Actors,
         pc[a] \notin {"idle", "startLock", "stopLock"}, pc[b] \notin {"idle", "startLock", "stopLock"}
  PROVE  a = b
  BY UnderWay

\* The ledger entry in hand.
LEMMA InHand ==
  ASSUME DeviceAssumption, Shape, NEW a \in Actors, pc[a] \in {"apply", "mark"}
  PROVE  /\ on[a] \in Sessions /\ lock = a /\ frame[a].current \in Indices(on[a])
         /\ Action(a) \in Actions /\ Action(a).kind \in Kinds
         /\ Action(a).port \in Ports /\ Action(a).prev \in ProxyValues
<1>1. on[a] \in Sessions /\ lock = a
  BY UnderWay
<1>2. Points(on[a], frame[a].current)
  BY DEF Shape, ActorFits
<1>3. SessionTypeOK
  BY UnderWay
<1>. QED BY <1>1, <1>2, <1>3, ActionFacts DEF Action, Points

\* What is owed for a mapping, a proxy value or a process that is still there
\* stays owed.
LEMMA MappingOwedKept ==
  ASSUME DeviceAssumption, Shape, GivenBack, [Next]_vars,
         NEW s \in Sessions, NEW p \in Ports, OwedBy(s, "reverse", p),
         reverse[p] = "own" \/ (\A a \in Actors : pc[a] # "mark")
  PROVE  OwedBy(s, "reverse", p)'
<1>1. LedgersKept
  BY LedgerStep
<1>2. PICK i \in Unsettled(s) : ledger[s][i].action.kind = "reverse" /\ ledger[s][i].action.port = p
  BY DEF OwedBy
<1>3. i \in Indices(s)
  BY DEF Unsettled
<1>4. i \in Unsettled(s)'
  <2>1. ASSUME NEW a \in Actors, Settles(a, s, i) PROVE FALSE
    <3>1. Action(a) = ledger[s][i].action
      BY <2>1 DEF Settles, Action
    <3>. QED BY <1>2, <2>1, <3>1 DEF GivenBack, ActorGaveBack, Settles
  <2>. QED BY <1>1, <1>3, <2>1 DEF LedgersKept
<1>5. ledger'[s][i].action = ledger[s][i].action
  BY <1>1, <1>3 DEF LedgersKept
<1>. QED BY <1>2, <1>4, <1>5 DEF OwedBy

LEMMA ProxyOwedKept ==
  ASSUME DeviceAssumption, Shape, GivenBack, [Next]_vars,
         NEW s \in Sessions, NEW p \in Ports, OwedBy(s, "proxy", p),
         proxy = p \/ (\A a \in Actors : pc[a] # "mark")
  PROVE  OwedBy(s, "proxy", p)' \/ (PutBack(p) /\ \E a \in Actors : pc[a] = "mark")
<1>1. LedgersKept
  BY LedgerStep
<1>2. PICK i \in Unsettled(s) : ledger[s][i].action.kind = "proxy" /\ ledger[s][i].action.port = p
  BY DEF OwedBy
<1>3. i \in Indices(s)
  BY DEF Unsettled
<1>4. CASE i \in Unsettled(s)'
  <2>1. ledger'[s][i].action = ledger[s][i].action
    BY <1>1, <1>3 DEF LedgersKept
  <2>. QED BY <1>2, <1>4, <2>1 DEF OwedBy
<1>5. CASE i \notin Unsettled(s)'
  <2>1. PICK a \in Actors : Settles(a, s, i)
    BY <1>1, <1>3, <1>5 DEF LedgersKept
  <2>2. Action(a) = ledger[s][i].action /\ proxy = p
    BY <2>1 DEF Settles, Action
  <2>3. ledger[s][i].action.prev = p
    BY <1>2, <2>1, <2>2 DEF GivenBack, ActorGaveBack, Settles
  <2>. QED BY <1>2, <1>3, <2>1, <2>3 DEF PutBack, Settles
<1>. QED BY <1>4, <1>5

LEMMA ProcessOwedKept ==
  ASSUME DeviceAssumption, Shape, GivenBack, [Next]_vars, NEW n, OwedProcess(n), Alive(n),
         n \notin spared
  PROVE  OwedProcess(n)'
<1>1. LedgersKept
  BY LedgerStep
<1>2. PICK s \in Sessions : \E i \in Unsettled(s) :
        ledger[s][i].action.kind = "process" /\ ledger[s][i].action.proc = n
  BY DEF OwedProcess
<1>. PICK i \in Unsettled(s) :
        ledger[s][i].action.kind = "process" /\ ledger[s][i].action.proc = n
  BY <1>2
<1>3. i \in Indices(s)
  BY DEF Unsettled
<1>4. i \in Unsettled(s)'
  <2>1. ASSUME NEW a \in Actors, Settles(a, s, i) PROVE FALSE
    <3>1. Action(a).kind = "process" /\ Action(a).proc = n
      BY <2>1 DEF Settles, Action
    <3>2. pc[a] = "mark" /\ frame[a].verdict \in Settled /\ ActorGaveBack(a)
      BY <2>1 DEF Settles, GivenBack
    <3>. QED BY <3>1, <3>2 DEF ActorGaveBack, Alive
  <2>. QED BY <1>1, <1>3, <2>1 DEF LedgersKept
<1>5. ledger'[s][i].action = ledger[s][i].action
  BY <1>1, <1>3 DEF LedgersKept
<1>. QED BY <1>2, <1>4, <1>5 DEF OwedProcess

\* A value once put back stays one that may be.
LEMMA PutBackKept ==
  ASSUME DeviceAssumption, Shape, [Next]_vars, NEW v, PutBack(v)
  PROVE  PutBack(v)'
<1>1. LedgersKept
  BY LedgerStep
<1>. QED BY <1>1 DEF PutBack, LedgersKept

\* The mappings.
LEMMA MappingsStep ==
  ASSUME DeviceAssumption, Shape, Debts, [Next]_vars
  PROVE  MappingsOwed'
<1>1. ReverseChange /\ LedgersKept
  BY DeviceStep, LedgerStep
<1>2. SUFFICES ASSUME NEW p \in Ports, reverse'[p] = "own"
               PROVE  \E s \in Sessions : OwedBy(s, "reverse", p)'
  BY DEF MappingsOwed
<1>3. CASE reverse[p] = "own"
  <2>1. PICK s \in Sessions : OwedBy(s, "reverse", p)
    BY <1>3 DEF Debts, NothingUnrecorded, WriteAhead, MappingsOwed
  <2>. QED BY <1>3, <2>1, MappingOwedKept DEF Debts
<1>4. CASE reverse[p] # "own"
  <2>1. PICK a \in Actors : pc[a] = "addReverse" /\ frame[a].port = p
    BY <1>1, <1>2, <1>4 DEF ReverseChange
  <2>2. on[a] \in Sessions /\ OwedBy(on[a], "reverse", p)
    BY <2>1, UnderWay DEF Debts, Announced, ActorAnnounces
  <2>3. \A b \in Actors : pc[b] # "mark"
    BY <2>1, LockHolder
  <2>. QED BY <2>2, <2>3, MappingOwedKept DEF Debts
<1>. QED BY <1>3, <1>4

\* The proxy.
LEMMA ProxyStep ==
  ASSUME DeviceAssumption, Shape, Debts, [Next]_vars
  PROVE  ProxyOwed'
<1>1. ProxyChange
  BY DeviceStep
<1>2. SUFFICES ASSUME NEW v \in Ports, proxy' = v
               PROVE  PutBack(v) \/ (\E s \in Sessions : OwedBy(s, "proxy", v)')
  <2>1. SUFFICES ASSUME NEW v \in Ports, proxy' = v
                 PROVE  PutBack(v)' \/ (\E s \in Sessions : OwedBy(s, "proxy", v)')
    BY DEF ProxyOwed, PutBack, OwedBy
  <2>. QED BY <2>1, PutBackKept
<1>3. CASE proxy = v
  <2>1. PutBack(v) \/ \E s \in Sessions : OwedBy(s, "proxy", v)
    BY <1>3 DEF Debts, NothingUnrecorded, WriteAhead, ProxyOwed
  <2>. QED BY <1>3, <2>1, ProxyOwedKept DEF Debts
<1>4. CASE proxy' \in External \cup {NoProxy}
  BY <1>2, <1>4 DEF DeviceAssumption
<1>5. ASSUME NEW a \in Actors, pc[a] = "putProxy", proxy' = frame[a].port
      PROVE  PutBack(v) \/ (\E s \in Sessions : OwedBy(s, "proxy", v)')
  <2>1. on[a] \in Sessions /\ OwedBy(on[a], "proxy", v)
    BY <1>2, <1>5, UnderWay DEF Debts, Announced, ActorAnnounces
  <2>2. \A b \in Actors : pc[b] # "mark"
    BY <1>5, LockHolder
  <2>. QED BY <2>1, <2>2, ProxyOwedKept DEF Debts
<1>6. ASSUME NEW a \in Actors, pc[a] = "apply", Action(a).kind = "proxy", proxy' = Action(a).prev
      PROVE  PutBack(v)
  BY <1>2, <1>6, InHand DEF PutBack, Action
<1>7. \/ \E a \in Actors : pc[a] = "putProxy" /\ proxy' = frame[a].port
      \/ \E a \in Actors : pc[a] = "apply" /\ Action(a).kind = "proxy" /\ proxy' = Action(a).prev
      \/ proxy' = proxy \/ proxy' \in External \cup {NoProxy}
  BY <1>1 DEF ProxyChange
<1>8. CASE \E a \in Actors : pc[a] = "putProxy" /\ proxy' = frame[a].port
  BY <1>5, <1>8
<1>9. CASE \E a \in Actors : pc[a] = "apply" /\ Action(a).kind = "proxy" /\ proxy' = Action(a).prev
  BY <1>6, <1>9
<1>. QED BY <1>2, <1>3, <1>4, <1>7, <1>8, <1>9

\* Where an actor may come from.
Arrival(a) ==
  /\ pc'[a] = "mark" => Decide(a) \/ Apply(a)
  /\ pc'[a] = "apply" => Decide(a)
  /\ pc'[a] = "next" => Mark(a) \/ BeginRollback(a) \/ BeginCleanup(a) \/ StopBegin(a)
  /\ pc'[a] = "startLock" => \E s \in Sessions : StartRequest(a, s)
  /\ pc'[a] = "spawn" => StartLock(a)
  /\ pc'[a] = "recordProcess" => StartSpawn(a)
  /\ pc'[a] = "recordReverse" => StartRecordProcess(a)
  /\ pc'[a] = "addReverse" => StartRecordReverse(a)
  /\ pc'[a] = "readProxy" => StartRecordProcess(a) \/ StartAddReverse(a)
  /\ pc'[a] = "recordProxy" => StartReadProxy(a)
  /\ pc'[a] = "putProxy" => StartRecordProxy(a)
  /\ pc'[a] = "running" => StartReadProxy(a) \/ StartPutProxy(a)
  /\ pc'[a] = "rollback" => \/ StartRaises(a) \/ StartRecordProcess(a) \/ StartRecordReverse(a)
                            \/ StartRecordProxy(a) \/ StartAddReverse(a) \/ StartPutProxy(a)
                            \/ StartRunning(a)
  /\ pc'[a] = "endRollback" => BeginRollback(a) \/ Mark(a)
  /\ pc'[a] = "endCleanup" => BeginCleanup(a) \/ Mark(a)
  /\ pc'[a] = "evidence" => Mark(a)
  /\ pc'[a] = "stopped" => StopEvidence(a)
  /\ pc'[a] = "activate" => StopPersist(a)

LEMMA Arrivals ==
  ASSUME DeviceAssumption, Shape, NEW a \in Actors, Acts(a)
  PROVE  Arrival(a)
<1>0. /\ pc \in [Actors -> Labels]
      /\ \A l : Goto(a, l) => pc'[a] = l
      /\ Return(a) => pc'[a] = "idle"
      /\ StopReturns(a) => pc'[a] \in {"idle", "cleanup"}
  BY DEF Shape, TypeOK, Goto, Return, StopReturns
<1>1. CASE Call(a) \/ Crash(a)
  BY <1>0, <1>1 DEF Call, Crash, StartRequest, StopRequest, CleanupLock, Arrival
<1>2. CASE ExecutorStep(a)
  <2>1. CASE Decide(a)
    <3>1. pc'[a] \in {"apply", "mark"}
      BY <1>0, <2>1 DEF Decide
    <3>. QED BY <2>1, <3>1 DEF Arrival
  <2>2. CASE Apply(a)
    BY <1>0, <2>2 DEF Apply, Arrival
  <2>3. CASE Mark(a)
    <3>1. pc'[a] \in {"next", "endRollback", "evidence", "endCleanup"}
      BY <1>0, <2>3 DEF Mark, AfterActions
    <3>. QED BY <2>3, <3>1 DEF Arrival
  <2>4. CASE BeginRollback(a) \/ BeginCleanup(a)
    <3>1. BeginRollback(a) => pc'[a] \in {"next", "endRollback"}
      BY <1>0 DEF BeginRollback
    <3>2. BeginCleanup(a) => pc'[a] \in {"next", "endCleanup"}
      BY <1>0 DEF BeginCleanup
    <3>. QED BY <2>4, <3>1, <3>2 DEF Arrival
  <2>5. CASE EndRollback(a) \/ ReturnCleaned(a) \/ EndCleanup(a)
    BY <1>0, <2>5 DEF EndRollback, ReturnCleaned, EndCleanup, Arrival
  <2>. QED BY <1>2, <2>1, <2>2, <2>3, <2>4, <2>5 DEF ExecutorStep
<1>3. CASE StartStep(a)
  <2>1. StartLock(a) => pc'[a] = "spawn"
    BY <1>0 DEF StartLock
  <2>2. StartRefused(a) \/ StartSpawnFails(a) \/ StartDropProcess(a) => pc'[a] = "idle"
    BY <1>0 DEF StartRefused, StartSpawnFails, StartDropProcess
  <2>3. StartSpawn(a) => pc'[a] = "recordProcess"
    BY <1>0 DEF StartSpawn
  <2>4. StartReadProxy(a) => pc'[a] \in {"running", "recordProxy"}
    BY <1>0 DEF StartReadProxy
  <2>5. StartAddReverse(a) => pc'[a] \in {"readProxy", "rollback"}
    BY <1>0 DEF StartAddReverse, StartChanged
  <2>6. StartPutProxy(a) => pc'[a] \in {"running", "rollback"}
    BY <1>0 DEF StartPutProxy, StartChanged
  <2>7. StartRunning(a) => pc'[a] \in {"idle", "rollback"}
    BY <1>0 DEF StartRunning
  <2>8. StartRaises(a) => pc'[a] = "rollback"
    BY <1>0 DEF StartRaises
  <2>9. StartRecordProcess(a) => pc'[a] \in {"readProxy", "recordReverse", "rollback"}
    BY <1>0 DEF StartRecordProcess, StartRecord
  <2>10. StartRecordReverse(a) => pc'[a] \in {"addReverse", "rollback"}
    BY <1>0 DEF StartRecordReverse, StartRecord
  <2>11. StartRecordProxy(a) => pc'[a] \in {"putProxy", "rollback"}
    BY <1>0 DEF StartRecordProxy, StartRecord
  <2>12. CASE StartLock(a) \/ StartRefused(a) \/ StartSpawnFails(a) \/ StartDropProcess(a) \/ StartSpawn(a)
    BY <2>1, <2>2, <2>3, <2>12 DEF Arrival
  <2>13. CASE StartReadProxy(a) \/ StartAddReverse(a) \/ StartPutProxy(a) \/ StartRunning(a) \/ StartRaises(a)
    BY <2>4, <2>5, <2>6, <2>7, <2>8, <2>13 DEF Arrival
  <2>14. CASE StartRecordProcess(a) \/ StartRecordReverse(a) \/ StartRecordProxy(a)
    BY <2>9, <2>10, <2>11, <2>14 DEF Arrival
  <2>. QED BY <1>3, <2>12, <2>13, <2>14 DEF StartStep
<1>4. CASE StopStep(a)
  <2>1. StopRefused(a) => pc'[a] = "idle"
    BY <1>0 DEF StopRefused
  <2>2. StopLock(a) => pc'[a] = "stop"
    BY <1>0 DEF StopLock
  <2>3. StopBegin(a) => pc'[a] = "next"
    BY <1>0 DEF StopBegin
  <2>4. StopEvidence(a) => pc'[a] = "stopped"
    BY <1>0 DEF StopEvidence
  <2>5. StopPersist(a) => pc'[a] \in {"idle", "cleanup", "activate"}
    BY <1>0 DEF StopPersist
  <2>6. StopRaises(a) \/ StopActivate(a) => pc'[a] \in {"idle", "cleanup"}
    BY <1>0 DEF StopRaises, StopActivate
  <2>. QED BY <1>4, <2>1, <2>2, <2>3, <2>4, <2>5, <2>6 DEF StopStep, Arrival
<1>. QED BY <1>1, <1>2, <1>3, <1>4 DEF Acts, ActorStep

\* The decision: what is settled at once needs no change.
LEMMA DecideStep ==
  ASSUME DeviceAssumption, Shape, NEW a \in Actors, Decide(a)
  PROVE  \E i \in frame[a].todo :
           LET e == ledger[on[a]][i].action IN
           /\ i \in Indices(on[a]) /\ on[a] \in Sessions /\ lock = a
           /\ frame'[a].current = i /\ on'[a] = on[a] /\ UNCHANGED <<sessionVars, deviceVars>>
           /\ frame'[a].todo = frame[a].todo /\ frame'[a].phase = frame[a].phase
           /\ frame'[a].errors = frame[a].errors
           /\ pc'[a] = "mark" /\ frame'[a].verdict \in Settled =>
                DeviceVerdict(on[a], e) = "skipped" \/ (e.kind = "process" /\ e.proc \in spared')
           /\ pc'[a] = "apply" => DeviceVerdict(on[a], e) = "apply"
<1>1. /\ pc[a] = "next" /\ on[a] \in Sessions /\ lock = a /\ frame[a] \in Frames
  BY UnderWay DEF Decide
<1>2. \A i \in frame[a].todo : i \in Indices(on[a])
  BY <1>1 DEF Shape, ActorFits, ExecutingLabels, Points
<1>. DEFINE v(i) == DeviceVerdict(on[a], ledger[on[a]][i].action)
            With(i, x) == frame' = [frame EXCEPT ![a].current = i, ![a].verdict = x]
            passed(i) == LET e == ledger[on[a]][i].action
                         IN e.kind = "process" /\ e.proc \in spared'
<1>3. PICK i \in frame[a].todo :
          \/ With(i, "failed") /\ Goto(a, "mark")
          \/ With(i, "completed") /\ Goto(a, "apply") /\ v(i) = "apply"
          \/ v(i) # "apply" /\ With(i, v(i)) /\ Goto(a, "mark")
          \/ With(i, "skipped") /\ Goto(a, "mark") /\ passed(i)
  BY DEF Decide, Spare
<1>4. v(i) \in {"failed", "skipped", "conflict", "apply"}
  BY DEF DeviceVerdict, ProxyVerdict, ReverseVerdict, ProcessVerdict
<1>5. \A x : With(i, x) => frame'[a].current = i /\ frame'[a].verdict = x
                           /\ frame'[a].todo = frame[a].todo /\ frame'[a].phase = frame[a].phase
                           /\ frame'[a].errors = frame[a].errors
  BY <1>1 DEF Shape, TypeOK, Frames
<1>6. \A l : Goto(a, l) => pc'[a] = l
  BY DEF Goto, Shape, TypeOK
<1>7. on'[a] = on[a] /\ UNCHANGED <<sessionVars, deviceVars>>
  BY DEF Decide, Keep
<1>. HIDE DEF v, With, passed
<1>8. /\ pc'[a] = "mark" /\ frame'[a].verdict \in Settled => v(i) = "skipped" \/ passed(i)
      /\ pc'[a] = "apply" => v(i) = "apply"
  BY <1>3, <1>4, <1>5, <1>6 DEF Settled
<1>9. /\ frame'[a].current = i /\ frame'[a].todo = frame[a].todo /\ frame'[a].phase = frame[a].phase
      /\ frame'[a].errors = frame[a].errors
  BY <1>3, <1>5
<1>. QED BY <1>1, <1>2, <1>7, <1>8, <1>9 DEF v, passed

\* The execution: what succeeds has given the thing back.
LEMMA ApplyStep ==
  ASSUME DeviceAssumption, Shape, NEW a \in Actors, Apply(a)
  PROVE  /\ UNCHANGED sessionVars /\ on'[a] = on[a]
         /\ frame'[a].current = frame[a].current /\ frame'[a].todo = frame[a].todo
         /\ frame'[a].phase = frame[a].phase /\ frame'[a].errors = frame[a].errors
         /\ frame'[a].verdict \in Settled =>
              /\ Action(a).kind = "proxy" => proxy' = Action(a).prev
              /\ Action(a).kind = "reverse" => reverse'[Action(a).port] = "none"
              /\ Action(a).kind = "process" =>
                   Action(a).proc \in spared' \/ \A x \in alive' : x.id # Action(a).proc
<1>1. /\ pc[a] = "apply" /\ frame[a] \in Frames /\ DeviceTypeOK
      /\ UNCHANGED sessionVars /\ on'[a] = on[a]
  BY UnderWay DEF Apply, Keep
<1>. DEFINE passed == Action(a).kind = "process" /\ Action(a).proc \in spared'
<1>2. \/ UNCHANGED frame /\ (Effect(Action(a), TRUE) \/ passed)
      \/ frame' = [frame EXCEPT ![a].verdict = "failed"]
  BY DEF Apply, Spare
<1>. HIDE DEF passed
<1>3. /\ frame'[a].current = frame[a].current /\ frame'[a].todo = frame[a].todo
      /\ frame'[a].phase = frame[a].phase /\ frame'[a].errors = frame[a].errors
      /\ Effect(Action(a), TRUE) \/ passed \/ frame'[a].verdict = "failed"
  <2>1. CASE UNCHANGED frame /\ (Effect(Action(a), TRUE) \/ passed)
    BY <2>1
  <2>2. CASE frame' = [frame EXCEPT ![a].verdict = "failed"]
    <3>1. frame'[a] = [frame[a] EXCEPT !.verdict = "failed"]
      BY <2>2 DEF Shape, TypeOK
    <3>. QED BY <1>1, <3>1 DEF Frames
  <2>. QED BY <1>2, <2>1, <2>2
<1>4. ASSUME Effect(Action(a), TRUE)
      PROVE  /\ Action(a).kind = "proxy" => proxy' = Action(a).prev
             /\ Action(a).kind = "reverse" => reverse'[Action(a).port] = "none"
             /\ Action(a).kind = "process" => \A x \in alive' : x.id # Action(a).proc
  <2>1. Action(a).port \in Ports /\ reverse \in [Ports -> {"none", "own", "other"}]
    BY <1>1, InHand DEF DeviceTypeOK
  <2>. QED BY <1>4, <2>1 DEF Effect, PutSetting, SetReverse, Terminate
<1>. QED BY <1>1, <1>3, <1>4 DEF Settled, passed

\* What passed for ended once is remembered.
LEMMA SparedStep ==
  ASSUME Shape, [Next]_vars
  PROVE  spared \subseteq spared'
<1>. USE DEF NoFault, Fault, Spare
<1>1. ASSUME NEW a \in Actors, Acts(a) PROVE spared \subseteq spared'
  <2>1. CASE Call(a) \/ Crash(a)
    BY <2>1 DEF Call, Crash, StartRequest, StopRequest, CleanupLock
  <2>2. CASE ExecutorStep(a)
    BY <2>2 DEF ExecutorStep, Decide, Apply, Mark, BeginRollback, EndRollback, ReturnCleaned,
                BeginCleanup, EndCleanup, Begin
  <2>3. CASE StartStep(a)
    BY <2>3 DEF StartStep, StartLock, StartRefused, StartSpawn, StartSpawnFails, StartReadProxy,
                StartRunning, StartRaises, StartDropProcess, StartAddReverse, StartPutProxy, StartChanged,
                StartRecordProcess, StartRecordReverse, StartRecordProxy, StartRecord
  <2>4. CASE StopStep(a)
    BY <2>4 DEF StopStep, StopRefused, StopLock, StopBegin, StopEvidence, StopPersist, StopRaises,
                StopActivate
  <2>. QED BY <1>1, <2>1, <2>2, <2>3, <2>4 DEF Acts, ActorStep
<1>2. UNCHANGED actorVars => spared' = spared
  BY DEF actorVars
<1>. QED BY <1>1, <1>2, StepCases

\* Every step: what is marked as settled was given back.
LEMMA GivenBackStep ==
  ASSUME DeviceAssumption, Shape, GivenBack, [Next]_vars
  PROVE  GivenBack'
<1>0. LedgersKept /\ ProxyChange /\ ReverseChange /\ ProcessChange /\ spared \subseteq spared'
  BY LedgerStep, DeviceStep, SparedStep
<1>1. SUFFICES ASSUME NEW a \in Actors, pc'[a] = "mark", frame'[a].verdict \in Settled
               PROVE  /\ Action(a)'.kind = "proxy" => proxy' \notin Ports \/ proxy' = Action(a)'.prev
                      /\ Action(a)'.kind = "reverse" => reverse'[Action(a)'.port] # "own"
                      /\ Action(a)'.kind = "process" =>
                           Action(a)'.proc \in spared' \/ \A x \in alive' : x.id # Action(a)'.proc
  BY DEF GivenBack, ActorGaveBack, Alive, Action
<1>2. CASE Still(a)
  <2>1. pc[a] = "mark" /\ frame[a].verdict \in Settled
    BY <1>1, <1>2 DEF Still
  <2>2. /\ on[a] \in Sessions /\ frame[a].current \in Indices(on[a]) /\ Action(a).port \in Ports
    BY <2>1, InHand
  <2>3. Action(a)' = Action(a)
    BY <1>0, <1>2, <2>2 DEF Still, Action, LedgersKept
  <2>4. /\ Action(a).kind = "proxy" => proxy \notin Ports \/ proxy = Action(a).prev
        /\ Action(a).kind = "reverse" => reverse[Action(a).port] # "own"
        /\ Action(a).kind = "process" =>
             Action(a).proc \in spared \/ \A x \in alive : x.id # Action(a).proc
    BY <2>1 DEF GivenBack, ActorGaveBack, Alive
  <2>5. \A b \in Actors : pc[b] \notin {"putProxy", "apply", "addReverse", "spawn"}
    BY <2>1, LockHolder
  <2>6. proxy' = proxy \/ proxy' \notin Ports
    BY <1>0, <2>5 DEF ProxyChange, DeviceAssumption
  <2>7. \A p \in Ports : reverse'[p] = "own" => reverse[p] = "own"
    BY <1>0, <2>5 DEF ReverseChange
  <2>8. alive' \subseteq alive
    BY <1>0, <2>5 DEF ProcessChange
  <2>. QED BY <1>0, <2>2, <2>3, <2>4, <2>6, <2>7, <2>8
<1>3. CASE Acts(a)
  <2>1. Decide(a) \/ Apply(a)
    BY <1>1, <1>3, Arrivals DEF Arrival
  <2>2. CASE Decide(a)
    <3>1. PICK i \in frame[a].todo :
           LET e == ledger[on[a]][i].action IN
           /\ i \in Indices(on[a]) /\ on[a] \in Sessions
           /\ frame'[a].current = i /\ on'[a] = on[a] /\ UNCHANGED <<sessionVars, deviceVars>>
           /\ DeviceVerdict(on[a], e) = "skipped" \/ (e.kind = "process" /\ e.proc \in spared')
      BY <1>1, <2>2, DecideStep
    <3>. DEFINE e == ledger[on[a]][i].action
    <3>2. Action(a)' = e
      BY <3>1 DEF Action, sessionVars
    <3>3. UNCHANGED <<proxy, reverse, alive>>
      BY <3>1 DEF deviceVars
    <3>4. /\ e.kind = "proxy" => proxy = e.prev
          /\ e.kind = "reverse" => reverse[e.port] = "none"
          /\ e.kind = "process" => ~Alive(e.proc) \/ e.proc \in spared'
      BY <3>1 DEF DeviceVerdict, ProxyVerdict, ReverseVerdict, ProcessVerdict
    <3>. HIDE DEF e
    <3>. QED BY <3>2, <3>3, <3>4 DEF Alive
  <2>3. CASE Apply(a)
    <3>1. pc[a] = "apply"
      BY <2>3 DEF Apply
    <3>2. Action(a)' = Action(a)
      BY <2>3, ApplyStep DEF Action, sessionVars
    <3>. QED BY <1>1, <2>3, <3>2, ApplyStep
  <2>. QED BY <2>1, <2>2, <2>3
<1>. QED BY <1>2, <1>3, StepCases

\* Numbers are given once.
LEMMA NumberedStep ==
  ASSUME DeviceAssumption, Shape, Numbered, [Next]_vars
  PROVE  Numbered' /\ spawned \in Nat /\ spawned' \in {spawned, spawned + 1}
<1>1. spawned \in Nat /\ ProcessChange
  BY DeviceStep, UnderWay DEF Shape, TypeOK, DeviceTypeOK, DeviceAssumption
<1>2. CASE alive' \subseteq alive /\ spawned' = spawned
  <2>1. IsFiniteSet(alive)'
    BY <1>2, FS_Subset DEF Numbered
  <2>. QED BY <1>1, <1>2, <2>1 DEF Numbered
<1>3. ASSUME NEW a \in Actors, spawned' = spawned + 1,
             alive' = alive \cup {[id |-> spawned + 1, port |-> frame[a].port]}
      PROVE  Numbered'
  <2>. DEFINE x == [id |-> spawned + 1, port |-> frame[a].port]
  <2>1. IsFiniteSet(alive)'
    <3>. HIDE DEF x
    <3>. QED BY <1>3, FS_AddElement DEF Numbered
  <2>2. x.id = spawned + 1
    OBVIOUS
  <2>. HIDE DEF x
  <2>3. \A y \in alive' : y.id \in 1..spawned' /\ (y.id = spawned + 1 <=> y = x)
    BY <1>1, <1>3, <2>2 DEF Numbered, x
  <2>. QED BY <2>1, <2>3, <1>3 DEF Numbered, x
<1>. QED BY <1>1, <1>2, <1>3 DEF ProcessChange

\* Changing other local variables leaves the process in hand alone.
LEMMA FrameProc ==
  ASSUME NEW f \in Frames
  PROVE  /\ \A i \in Nat, v \in Verdicts : [f EXCEPT !.current = i, !.verdict = v].proc = f.proc
         /\ \A v \in Verdicts : [f EXCEPT !.verdict = v].proc = f.proc
         /\ \A I \in SUBSET Nat, e \in BOOLEAN : [f EXCEPT !.todo = I, !.errors = e].proc = f.proc
         /\ \A p \in Phases, I \in SUBSET Nat, r \in BOOLEAN :
              /\ [f EXCEPT !.phase = p, !.todo = I, !.ready = r].proc = f.proc
              /\ [f EXCEPT !.phase = p, !.registered = r, !.todo = I].proc = f.proc
         /\ \A r \in BOOLEAN : [f EXCEPT !.registered = r].proc = f.proc
         /\ \A r \in BOOLEAN : [f EXCEPT !.errors = r].proc = f.proc
         /\ \A r \in BOOLEAN : [f EXCEPT !.adopt = r].proc = f.proc
         /\ \A v \in ProxyValues : [f EXCEPT !.prev = v].proc = f.proc
         /\ \A K \in SUBSET Kinds : [f EXCEPT !.made = K].proc = f.proc
  BY DEF Frames

\* What becomes of the process an operation has in hand.
LEMMA ProcStep ==
  ASSUME DeviceAssumption, ActorAssumption, Shape, NEW a \in Actors, Acts(a)
  PROVE  \/ frame'[a].proc = 0 /\ (Crash(a) \/ ~Unregistered(a) \/ StartDropProcess(a))
         \/ StartSpawn(a) /\ frame'[a].proc = spawned + 1
         \/ /\ frame'[a].proc = frame[a].proc
            /\ StartRecordProcess(a) \/ StartRaises(a) \/ ~Unregistered(a)
<1>0. /\ frame \in [Actors -> Frames]
      /\ Return(a) => frame'[a].proc = 0
      /\ StopReturns(a) => frame'[a].proc = 0
      /\ UNCHANGED frame => frame'[a].proc = frame[a].proc
      /\ Unregistered(a) <=> pc[a] = "recordProcess" \/ (pc[a] = "rollback" /\ Recorded(a) = {})
  BY DEF Shape, TypeOK, Return, StopReturns, IdleFrame, Unregistered
<1>1. CASE Call(a)
  <2>1. \E f : frame' = [frame EXCEPT ![a] = f] /\ f.proc = 0
    <3>1. /\ \A p \in Ports : [IdleFrame EXCEPT !.job = "start", !.port = p].proc = 0
          /\ \A j \in Jobs : [IdleFrame EXCEPT !.job = j].proc = 0
          /\ "stop" \in Jobs /\ "cleanup" \in Jobs
      BY DEF IdleFrame, Jobs
    <3>. QED BY <1>1, <3>1 DEF Call, StartRequest, StopRequest, CleanupLock, FreePorts
  <2>2. pc[a] = "idle"
    BY <1>1 DEF Call, StartRequest, StopRequest, CleanupLock
  <2>. QED BY <1>0, <2>1, <2>2
<1>2. CASE Crash(a)
  BY <1>0, <1>2 DEF Crash
<1>3. CASE ExecutorStep(a)
  <2>1. CASE Decide(a) \/ Apply(a) \/ Mark(a)
    <3>1. \E f : frame' = [frame EXCEPT ![a] = f] /\ f.proc = frame[a].proc
      <4>1. frame[a] \in Frames
        BY <1>0
      <4>2. CASE Decide(a)
        <5>1. PICK i, v : frame' = [frame EXCEPT ![a].current = i, ![a].verdict = v]
          BY <4>2 DEF Decide
        <5>2. frame' = [frame EXCEPT ![a] = [frame[a] EXCEPT !.current = i, !.verdict = v]]
          BY <1>0, <5>1
        <5>3. [frame[a] EXCEPT !.current = i, !.verdict = v].proc = frame[a].proc
          BY <4>1 DEF Frames
        <5>. QED BY <5>2, <5>3
      <4>3. CASE Apply(a)
        <5>1. \/ frame' = [frame EXCEPT ![a] = frame[a]]
              \/ frame' = [frame EXCEPT ![a] = [frame[a] EXCEPT !.verdict = "failed"]]
          BY <1>0, <4>3 DEF Apply
        <5>2. "failed" \in Verdicts
          BY DEF Verdicts, EntryStatuses
        <5>3. [frame[a] EXCEPT !.verdict = "failed"].proc = frame[a].proc
          BY <4>1, <5>2, FrameProc
        <5>. QED BY <5>1, <5>3
      <4>4. CASE Mark(a)
        <5>. DEFINE rest == frame[a].todo \ {frame[a].current}
                    bad == frame[a].errors \/ frame[a].verdict \notin Settled
        <5>1. frame' = [frame EXCEPT ![a] = [frame[a] EXCEPT !.todo = rest, !.errors = bad]]
          BY <1>0, <4>4 DEF Mark
        <5>2. rest \in SUBSET Nat /\ bad \in BOOLEAN
          BY <4>1 DEF Frames
        <5>. HIDE DEF rest, bad
        <5>3. [frame[a] EXCEPT !.todo = rest, !.errors = bad].proc = frame[a].proc
          BY <4>1, <5>2, FrameProc
        <5>. QED BY <5>1, <5>3
      <4>. QED BY <2>1, <4>2, <4>3, <4>4
    <3>2. ~Unregistered(a)
      BY <1>0, <2>1 DEF Decide, Apply, Mark
    <3>. QED BY <1>0, <3>1, <3>2
  <2>2. CASE BeginRollback(a) \/ BeginCleanup(a)
    <3>0. on[a] \in Sessions /\ frame[a] \in Frames
      BY <2>2, UnderWay DEF BeginRollback, BeginCleanup
    <3>1. PICK p \in Phases, I \in SUBSET Indices(on[a]), r \in BOOLEAN :
            frame' = [frame EXCEPT ![a] = [frame[a] EXCEPT !.phase = p, !.todo = I, !.ready = r]]
      <4>1. \E p \in Phases, I \in SUBSET Indices(on[a]) : Begin(a, p, I)
        BY <2>2 DEF BeginRollback, BeginCleanup, Phases, Unsettled
      <4>2. PICK p \in Phases, I \in SUBSET Indices(on[a]), r \in BOOLEAN :
              frame' = [frame EXCEPT ![a].phase = p, ![a].todo = I, ![a].ready = r]
        BY <4>1 DEF Begin
      <4>. QED BY <1>0, <4>2
    <3>2. I \in SUBSET Nat
      BY <3>0, UnderWay, LedgerFacts
    <3>3. [frame[a] EXCEPT !.phase = p, !.todo = I, !.ready = r].proc = frame[a].proc
      BY <3>0, <3>2, FrameProc
    <3>4. frame'[a].proc = frame[a].proc
      BY <1>0, <3>1, <3>3
    <3>. QED BY <1>0, <2>2, <3>4 DEF BeginRollback, BeginCleanup
  <2>3. CASE EndRollback(a) \/ ReturnCleaned(a) \/ EndCleanup(a)
    BY <1>0, <2>3 DEF EndRollback, ReturnCleaned, EndCleanup
  <2>. QED BY <1>3, <2>1, <2>2, <2>3 DEF ExecutorStep
<1>4. CASE StartStep(a)
  <2>1. CASE StartLock(a) \/ StartReadProxy(a)
    <3>1. \/ \E r \in BOOLEAN : frame' = [frame EXCEPT ![a] = [frame[a] EXCEPT !.adopt = r]]
          \/ frame' = [frame EXCEPT ![a] = [frame[a] EXCEPT !.prev = proxy]]
      BY <1>0, <2>1 DEF StartLock, StartReadProxy
    <3>2. frame[a] \in Frames /\ proxy \in ProxyValues
      BY UnderWay DEF DeviceTypeOK
    <3>3. CASE \E r \in BOOLEAN : frame' = [frame EXCEPT ![a] = [frame[a] EXCEPT !.adopt = r]]
      <4>1. PICK r \in BOOLEAN : frame' = [frame EXCEPT ![a] = [frame[a] EXCEPT !.adopt = r]]
        BY <3>3
      <4>2. [frame[a] EXCEPT !.adopt = r].proc = frame[a].proc
        BY <3>2, FrameProc
      <4>. QED BY <1>0, <2>1, <4>1, <4>2 DEF StartLock, StartReadProxy
    <3>4. CASE frame' = [frame EXCEPT ![a] = [frame[a] EXCEPT !.prev = proxy]]
      <4>1. [frame[a] EXCEPT !.prev = proxy].proc = frame[a].proc
        BY <3>2, FrameProc
      <4>. QED BY <1>0, <2>1, <3>4, <4>1 DEF StartLock, StartReadProxy
    <3>. QED BY <3>1, <3>3, <3>4
  <2>2. CASE StartRefused(a) \/ StartSpawnFails(a) \/ StartDropProcess(a)
    BY <1>0, <2>2 DEF StartRefused, StartSpawnFails, StartDropProcess
  <2>3. CASE StartSpawn(a)
    BY <1>0, <2>3 DEF StartSpawn, Frames
  <2>4. CASE StartAddReverse(a) \/ StartPutProxy(a)
    <3>1. \/ frame' = [frame EXCEPT ![a] = frame[a]]
          \/ \E k \in Kinds : frame' = [frame EXCEPT ![a] = [frame[a] EXCEPT !.made = frame[a].made \cup {k}]]
      BY <1>0, <2>4 DEF StartAddReverse, StartPutProxy, StartChanged, Kinds
    <3>2. frame[a] \in Frames /\ \A k \in Kinds : frame[a].made \cup {k} \in SUBSET Kinds
      BY UnderWay DEF Frames
    <3>3. CASE \E k \in Kinds : frame' = [frame EXCEPT ![a] = [frame[a] EXCEPT !.made = frame[a].made \cup {k}]]
      <4>1. PICK k \in Kinds : frame' = [frame EXCEPT ![a] = [frame[a] EXCEPT !.made = frame[a].made \cup {k}]]
        BY <3>3
      <4>2. [frame[a] EXCEPT !.made = frame[a].made \cup {k}].proc = frame[a].proc
        BY <3>2, FrameProc
      <4>. QED BY <1>0, <2>4, <4>1, <4>2 DEF StartAddReverse, StartPutProxy
    <3>4. CASE frame' = [frame EXCEPT ![a] = frame[a]]
      BY <1>0, <2>4, <3>4 DEF StartAddReverse, StartPutProxy
    <3>. QED BY <3>1, <3>3, <3>4
  <2>5. CASE StartRunning(a) \/ StartRaises(a)
    BY <1>0, <2>5 DEF StartRunning, StartRaises
  <2>6. CASE StartRecordProcess(a) \/ StartRecordReverse(a) \/ StartRecordProxy(a)
    BY <1>0, <2>6, RecordCases, RecordStep
  <2>. QED BY <1>4, <2>1, <2>2, <2>3, <2>4, <2>5, <2>6 DEF StartStep
<1>5. CASE StopStep(a)
  <2>1. CASE StopRefused(a) \/ StopPersist(a) \/ StopRaises(a) \/ StopActivate(a)
    BY <1>0, <2>1 DEF StopRefused, StopPersist, StopRaises, StopActivate
  <2>2. CASE StopLock(a) \/ StopBegin(a) \/ StopEvidence(a)
    <3>1. StopLock(a) => frame'[a] = frame[a]
      BY DEF StopLock
    <3>2. StopEvidence(a) => frame'[a].proc = frame[a].proc
      <4>1. StopEvidence(a) => \/ frame' = [frame EXCEPT ![a] = [frame[a] EXCEPT !.registered = TRUE]]
                               \/ frame' = [frame EXCEPT ![a] = [frame[a] EXCEPT !.errors = TRUE]]
        BY <1>0 DEF StopEvidence
      <4>. QED BY <1>0, <4>1, FrameProc
    <3>3. ASSUME StopBegin(a) PROVE frame'[a].proc = frame[a].proc
      <4>. DEFINE I == {cap[on[a]].ids["process"]} \cup {cap[on[a]].ids[k] : k \in cap[on[a]].made}
                  r == cap[on[a]].evidence
      <4>1. frame' = [frame EXCEPT ![a] = [frame[a] EXCEPT !.phase = "stop", !.registered = r, !.todo = I]]
        BY <1>0, <3>3 DEF StopBegin
      <4>2. on[a] \in Sessions /\ cap[on[a]] \in Captures
        BY <3>3, UnderWay DEF StopBegin, CaptureTypeOK
      <4>3. I \in SUBSET Nat /\ r \in BOOLEAN /\ "stop" \in Phases /\ frame[a] \in Frames
        BY <1>0, <4>2 DEF Captures, Phases, Kinds
      <4>. HIDE DEF I, r
      <4>4. [frame[a] EXCEPT !.phase = "stop", !.registered = r, !.todo = I].proc = frame[a].proc
        BY <4>3, FrameProc
      <4>. QED BY <1>0, <4>1, <4>4
    <3>. QED BY <1>0, <2>2, <3>1, <3>2, <3>3 DEF StopLock, StopBegin, StopEvidence
  <2>. QED BY <1>5, <2>1, <2>2 DEF StopStep
<1>. QED BY <1>1, <1>2, <1>3, <1>4, <1>5 DEF Acts, ActorStep

\* What a start records it owes.
LEMMA RecordOwes ==
  ASSUME DeviceAssumption, Shape, NEW a \in Actors
  PROVE  /\ StartRecordProcess(a) => \A n : n = frame[a].proc => OwedProcess(n)'
         /\ StartRecordReverse(a) => \A s \in Sessions : \A p : s = on[a] /\ p = frame[a].port => OwedBy(s, "reverse", p)'
         /\ StartRecordProxy(a) => \A s \in Sessions : \A p : s = on[a] /\ p = frame[a].port => OwedBy(s, "proxy", p)'
<1>1. ASSUME NEW k, NEW v, NewlyOwed(a, k, v), NEW s \in Sessions, s = on[a]
      PROVE  \E i \in Unsettled(s)' :
              /\ ledger'[s][i].action.kind = k /\ ledger'[s][i].action.port = frame[a].port
              /\ ledger'[s][i].action.proc = frame[a].proc
  BY <1>1 DEF NewlyOwed
<1>2. Kinds = {"process", "reverse", "proxy"} /\ NoProxy \in ProxyValues /\ frame[a].prev \in ProxyValues
  BY RecordCases
<1>3. ASSUME StartRecordProcess(a), NEW n, n = frame[a].proc
      PROVE  OwedProcess(n)'
  <2>1. PICK to : StartRecord(a, "process", NoProxy, "recordProcess", to)
    BY <1>3, RecordCases
  <2>2. NewlyOwed(a, "process", NoProxy) /\ on[a] \in Sessions
    BY <1>2, <2>1, RecordStep
  <2>. PICK s : s = on[a]
    OBVIOUS
  <2>. QED BY <1>1, <1>3, <2>2 DEF OwedProcess
<1>4. ASSUME StartRecordReverse(a), NEW s \in Sessions, NEW p, s = on[a], p = frame[a].port
      PROVE  OwedBy(s, "reverse", p)'
  <2>1. StartRecord(a, "reverse", NoProxy, "recordReverse", "addReverse")
    BY <1>4, RecordCases
  <2>2. NewlyOwed(a, "reverse", NoProxy)
    BY <1>2, <2>1, RecordStep
  <2>. QED BY <1>1, <1>4, <2>2 DEF OwedBy
<1>5. ASSUME StartRecordProxy(a), NEW s \in Sessions, NEW p, s = on[a], p = frame[a].port
      PROVE  OwedBy(s, "proxy", p)'
  <2>1. StartRecord(a, "proxy", frame[a].prev, "recordProxy", "putProxy")
    BY <1>5, RecordCases
  <2>2. NewlyOwed(a, "proxy", frame[a].prev)
    BY <1>2, <2>1, RecordStep
  <2>. QED BY <1>1, <1>5, <2>2 DEF OwedBy
<1>. QED BY <1>3, <1>4, <1>5

\* Nobody comes to life again.
LEMMA AliveBefore ==
  ASSUME DeviceAssumption, Shape, Numbered, [Next]_vars,
         NEW n \in Nat, n <= spawned, Alive(n)'
  PROVE  Alive(n)
<1>1. ProcessChange /\ spawned \in Nat
  BY NumberedStep, DeviceStep
<1>2. PICK x \in alive' : x.id = n
  BY DEF Alive
<1>3. x \in alive
  <2>1. ASSUME NEW a \in Actors, alive' = alive \cup {[id |-> spawned + 1, port |-> frame[a].port]}
        PROVE  x \in alive
    BY <1>1, <1>2, <2>1
  <2>. QED BY <1>1, <1>2, <2>1 DEF ProcessChange
<1>. QED BY <1>2, <1>3 DEF Alive

\* What an actor announces, said of the values of its variables after a step.
LEMMA AnnouncedAfter ==
  ASSUME NEW a, NEW s, NEW p, NEW n, s = on'[a], p = frame'[a].port, n = frame'[a].proc,
         pc'[a] = "addReverse" => OwedBy(s, "reverse", p)',
         pc'[a] = "putProxy" => OwedBy(s, "proxy", p)',
         pc'[a] \in {"startLock", "spawn", "recordProcess"} => Recorded(a)' = {},
         n <= spawned',
         Alive(n)' => OwedProcess(n)' \/ Unregistered(a)' \/ n \in spared'
  PROVE  ActorAnnounces(a)'
<1>1. pc'[a] = "addReverse" => OwedBy(on[a], "reverse", frame[a].port)'
  BY DEF OwedBy, Unsettled, Indices
<1>2. pc'[a] = "putProxy" => OwedBy(on[a], "proxy", frame[a].port)'
  BY DEF OwedBy, Unsettled, Indices
<1>3. Alive(frame[a].proc)' =>
        OwedProcess(frame[a].proc)' \/ Unregistered(a)' \/ frame'[a].proc \in spared'
  BY DEF Alive, OwedProcess, Unsettled, Indices
<1>. QED BY <1>1, <1>2, <1>3 DEF ActorAnnounces

\* The announcements of an actor that stays where it is.
LEMMA StillAnnounced ==
  ASSUME DeviceAssumption, Shape, Debts, [Next]_vars, NEW a \in Actors, Still(a)
  PROVE  ActorAnnounces(a)'
<1>. PICK s, p, n : s = on[a] /\ p = frame[a].port /\ n = frame[a].proc
  OBVIOUS
<1>0. ActorAnnounces(a) /\ GivenBack /\ Numbered
  BY DEF Debts, Announced
<1>1. ASSUME pc[a] = "addReverse" PROVE OwedBy(s, "reverse", p)'
  <2>1. s \in Sessions /\ p \in Ports
    BY <1>1, UnderWay DEF Shape, ActorFits, StartLabels
  <2>2. OwedBy(s, "reverse", p)
    BY <1>0, <1>1 DEF ActorAnnounces
  <2>3. \A b \in Actors : pc[b] # "mark"
    BY <1>1, LockHolder
  <2>. QED BY <1>0, <2>1, <2>2, <2>3, MappingOwedKept
<1>2. ASSUME pc[a] = "putProxy" PROVE OwedBy(s, "proxy", p)'
  <2>1. s \in Sessions /\ p \in Ports
    BY <1>2, UnderWay DEF Shape, ActorFits, StartLabels
  <2>2. OwedBy(s, "proxy", p)
    BY <1>0, <1>2 DEF ActorAnnounces
  <2>3. \A b \in Actors : pc[b] # "mark"
    BY <1>2, LockHolder
  <2>. QED BY <1>0, <2>1, <2>2, <2>3, ProxyOwedKept
<1>3. pc[a] \in {"startLock", "spawn", "recordProcess"} => Recorded(a)' = {}
  BY <1>0 DEF ActorAnnounces, Recorded, Still
<1>4. n \in Nat /\ n <= spawned /\ n <= spawned'
  <2>1. n \in Nat /\ n <= spawned
    BY <1>0, UnderWay DEF ActorAnnounces, Frames, DeviceAssumption
  <2>. QED BY <1>0, <2>1, NumberedStep
<1>5. ASSUME Alive(n)', n \notin spared' PROVE OwedProcess(n)' \/ Unregistered(a)'
  <2>1. Alive(n)
    BY <1>0, <1>4, <1>5, AliveBefore
  <2>2. OwedProcess(n) \/ Unregistered(a)
    BY <1>0, <1>5, <2>1, SparedStep DEF ActorAnnounces
  <2>3. Unregistered(a) => Unregistered(a)'
    BY DEF Unregistered, Recorded, Still
  <2>. QED BY <1>0, <1>5, <2>1, <2>2, <2>3, ProcessOwedKept, SparedStep
<1>. QED BY <1>1, <1>2, <1>3, <1>4, <1>5, AnnouncedAfter DEF Still

\* The announcements of the actor that moves.
LEMMA ActsAnnounced ==
  ASSUME DeviceAssumption, ActorAssumption, Shape, Debts, [Next]_vars, NEW a \in Actors, Acts(a)
  PROVE  ActorAnnounces(a)'
<1>. PICK s, p, n : s = on'[a] /\ p = frame'[a].port /\ n = frame'[a].proc
  OBVIOUS
<1>0. ActorAnnounces(a) /\ GivenBack /\ Numbered /\ Arrival(a) /\ frame \in [Actors -> Frames]
  BY Arrivals DEF Debts, Announced, Shape, TypeOK
<1>1. ASSUME pc'[a] = "addReverse" PROVE OwedBy(s, "reverse", p)'
  <2>1. StartRecordReverse(a)
    BY <1>0, <1>1 DEF Arrival
  <2>2. s = on[a] /\ p = frame[a].port /\ s \in Sessions
    BY <2>1, RecordCases, RecordStep
  <2>. QED BY <2>1, <2>2, RecordOwes
<1>2. ASSUME pc'[a] = "putProxy" PROVE OwedBy(s, "proxy", p)'
  <2>1. StartRecordProxy(a)
    BY <1>0, <1>2 DEF Arrival
  <2>2. s = on[a] /\ p = frame[a].port /\ s \in Sessions
    BY <2>1, RecordCases, RecordStep
  <2>. QED BY <2>1, <2>2, RecordOwes
<1>3. ASSUME pc'[a] \in {"startLock", "spawn", "recordProcess"} PROVE Recorded(a)' = {}
  <2>1. CASE \E t \in Sessions : StartRequest(a, t)
    <3>1. frame'[a].ids = NoIds
      BY <1>0, <2>1 DEF StartRequest, IdleFrame
    <3>. QED BY <3>1 DEF Recorded, NoIds
  <2>2. CASE StartLock(a) \/ StartSpawn(a)
    <3>1. frame'[a].ids = frame[a].ids
      BY <1>0, <2>2 DEF StartLock, StartSpawn, Frames
    <3>2. Recorded(a) = {}
      BY <1>0, <2>2 DEF StartLock, StartSpawn, ActorAnnounces
    <3>. QED BY <3>1, <3>2 DEF Recorded
  <2>. QED BY <1>0, <1>3, <2>1, <2>2 DEF Arrival
<1>4. n \in Nat /\ n <= spawned' /\ (n = 0 \/ StartSpawn(a) \/ n = frame[a].proc)
  <2>1. spawned \in Nat /\ spawned' \in {spawned, spawned + 1} /\ (StartSpawn(a) => spawned' = spawned + 1)
    BY <1>0, NumberedStep, DeviceTouched
  <2>2. frame[a].proc \in Nat /\ frame[a].proc <= spawned
    BY <1>0 DEF ActorAnnounces, Frames, DeviceAssumption
  <2>. QED BY <2>1, <2>2, ProcStep
<1>5. ASSUME Alive(n)', n \notin spared' PROVE OwedProcess(n)' \/ Unregistered(a)'
  <2>1. CASE n = 0
    <3>1. Numbered'
      BY <1>0, NumberedStep
    <3>2. spawned' \in Nat
      BY <1>0, NumberedStep
    <3>. QED BY <1>5, <2>1, <3>1, <3>2 DEF Alive, Numbered
  <2>2. CASE StartSpawn(a)
    <3>1. pc'[a] = "recordProcess"
      BY <2>2 DEF StartSpawn, Goto, Shape, TypeOK
    <3>. QED BY <3>1 DEF Unregistered
  <2>3. CASE n = frame[a].proc /\ n # 0 /\ ~StartSpawn(a)
    <3>1. Alive(n)
      BY <1>0, <1>4, <1>5, <2>3, AliveBefore DEF ActorAnnounces
    <3>2. StartRecordProcess(a) \/ StartRaises(a) \/ ~Unregistered(a)
      BY <2>3, ProcStep
    <3>3. CASE StartRecordProcess(a)
      BY <2>3, <3>3, RecordOwes
    <3>4. CASE ~Unregistered(a)
      <4>1. n \notin spared
        BY <1>5, SparedStep
      <4>2. OwedProcess(n)
        BY <1>0, <2>3, <3>1, <3>4, <4>1 DEF ActorAnnounces
      <4>. QED BY <1>0, <3>1, <4>1, <4>2, ProcessOwedKept
    <3>5. CASE StartRaises(a) /\ Unregistered(a)
      <4>1. pc'[a] = "rollback" /\ frame' = frame
        BY <3>5 DEF StartRaises, Goto, Shape, TypeOK
      <4>2. Recorded(a) = {}
        BY <1>0, <3>5 DEF Unregistered, ActorAnnounces
      <4>. QED BY <4>1, <4>2 DEF Unregistered, Recorded
    <3>. QED BY <3>2, <3>3, <3>4, <3>5
  <2>. QED BY <1>4, <2>1, <2>2, <2>3
<1>. QED BY <1>1, <1>2, <1>3, <1>4, <1>5, AnnouncedAfter

LEMMA AnnouncedStep ==
  ASSUME DeviceAssumption, ActorAssumption, Shape, Debts, [Next]_vars
  PROVE  Announced'
<1>1. ASSUME NEW a \in Actors PROVE ActorAnnounces(a)'
  BY StepCases, StillAnnounced, ActsAnnounced
<1>. QED BY <1>1 DEF Announced

\* Processes that nothing knows of.
Orphans == {x \in alive : ~Known(x.id) /\ x.id \notin spared}

LEMMA KnownCases ==
  ASSUME NEW n
  PROVE  /\ Known(n) <=> OwedProcess(n) \/ \E a \in Actors : frame[a].proc = n
         /\ Known(n)' <=> OwedProcess(n)' \/ \E a \in Actors : frame'[a].proc = n
  BY DEF Known, OwedProcess

\* Only the death of an operation that has not recorded its process makes one.
LEMMA NewOrphan ==
  ASSUME DeviceAssumption, ActorAssumption, Shape, Debts, [Next]_vars, NEW x \in Orphans', x \notin Orphans
  PROVE  x \in alive /\ \E a \in Actors : Crash(a) /\ frame[a].proc = x.id
<1>. PICK n : n = x.id
  OBVIOUS
<1>0. /\ x \in alive' /\ ~Known(n)' /\ n \notin spared /\ n \notin spared' /\ GivenBack /\ Numbered /\ ProcessChange
      /\ \A a \in Actors : frame'[a].proc # n
      /\ ~OwedProcess(n)'
  <2>1. x \in alive' /\ ~Known(n)' /\ n \notin spared'
    BY DEF Orphans, Known, Unsettled, Indices
  <2>. QED BY <2>1, DeviceStep, SparedStep, KnownCases DEF Debts
<1>1. x \in alive
  <2>1. ASSUME NEW a \in Actors, StartSpawn(a), spawned' = spawned + 1,
               alive' = alive \cup {[id |-> spawned + 1, port |-> frame[a].port]}, x \notin alive
        PROVE  FALSE
    <3>1. n = spawned + 1
      BY <1>0, <2>1
    <3>2. frame'[a].proc = spawned + 1
      <4>1. frame[a] \in Frames
        BY UnderWay
      <4>. QED BY <2>1, <4>1 DEF StartSpawn, Shape, TypeOK, Frames
    <3>. QED BY <1>0, <3>1, <3>2
  <2>. QED BY <1>0, <2>1 DEF ProcessChange
<1>2. Alive(n) /\ Known(n)
  BY <1>0, <1>1 DEF Alive, Orphans
<1>3. ~OwedProcess(n)
  BY <1>0, <1>2, ProcessOwedKept
<1>4. PICK a \in Actors : frame[a].proc = n
  BY <1>2, <1>3, KnownCases
<1>5. Unregistered(a)
  BY <1>0, <1>2, <1>3, <1>4 DEF Debts, Announced, ActorAnnounces
<1>6. Acts(a)
  BY <1>0, <1>4, StepCases DEF Still
<1>7. ~StartSpawn(a)
  BY <1>5 DEF Unregistered, StartSpawn
<1>8. ~StartDropProcess(a)
  BY <1>0, <1>4 DEF StartDropProcess, Terminate, Spare
<1>9. Crash(a)
  BY <1>0, <1>4, <1>5, <1>6, <1>7, <1>8, ProcStep
<1>. QED BY <1>1, <1>4, <1>9

\* Deaths are counted.
LEMMA CrashesCounted ==
  ASSUME ActorAssumption, Shape, [Next]_vars
  PROVE  /\ crashes \in Nat /\ crashes' \in {crashes, crashes + 1}
         /\ \A a \in Actors : Crash(a) => crashes' = crashes + 1
<1>0. crashes \in Nat
  BY DEF Shape, TypeOK, ActorAssumption
<1>. USE DEF NoFault, Fault, Spare
<1>1. ASSUME NEW a \in Actors, Acts(a) PROVE crashes' \in {crashes, crashes + 1}
  <2>1. CASE Call(a) \/ Crash(a)
    BY <2>1 DEF Call, Crash, StartRequest, StopRequest, CleanupLock
  <2>2. CASE ExecutorStep(a)
    BY <2>2 DEF ExecutorStep, Decide, Apply, Mark, BeginRollback, EndRollback, ReturnCleaned,
                BeginCleanup, EndCleanup, Begin
  <2>3. CASE StartStep(a)
    BY <2>3 DEF StartStep, StartLock, StartRefused, StartSpawn, StartSpawnFails, StartReadProxy,
                StartRunning, StartRaises, StartDropProcess, StartAddReverse, StartPutProxy, StartChanged,
                StartRecordProcess, StartRecordReverse, StartRecordProxy, StartRecord
  <2>4. CASE StopStep(a)
    BY <2>4 DEF StopStep, StopRefused, StopLock, StopBegin, StopEvidence, StopPersist, StopRaises,
                StopActivate
  <2>. QED BY <1>1, <2>1, <2>2, <2>3, <2>4 DEF Acts, ActorStep
<1>2. \A a \in Actors : Crash(a) => crashes' = crashes + 1
  BY DEF Crash
<1>3. UNCHANGED actorVars => crashes' = crashes
  BY DEF actorVars
<1>. QED BY <1>0, <1>1, <1>2, <1>3, StepCases

LEMMA OrphanStep ==
  ASSUME DeviceAssumption, ActorAssumption, Shape, Debts, [Next]_vars
  PROVE  OrphansOnlyByCrash'
<1>0. /\ Numbered /\ Cardinality(Orphans) <= crashes /\ IsFiniteSet(alive) /\ IsFiniteSet(alive')
      /\ crashes \in Nat /\ crashes' \in {crashes, crashes + 1}
  BY CrashesCounted, NumberedStep DEF Debts, NothingUnrecorded, OrphansOnlyByCrash, Orphans, Numbered
<1>1. /\ IsFiniteSet(Orphans) /\ Cardinality(Orphans) \in Nat
      /\ IsFiniteSet(Orphans') /\ Cardinality(Orphans') \in Nat
  <2>1. Orphans \in SUBSET alive /\ Orphans' \in SUBSET alive'
    BY DEF Orphans
  <2>. QED BY <1>0, <2>1, FS_Subset, FS_CardinalityType
<1>2. Cardinality(Orphans') <= crashes'
  <2>1. CASE Orphans' \subseteq Orphans
    <3>1. Cardinality(Orphans') <= Cardinality(Orphans)
      BY <1>1, <2>1, FS_Subset
    <3>. QED BY <1>0, <1>1, <3>1
  <2>2. CASE ~(Orphans' \subseteq Orphans)
    <3>1. PICK x \in Orphans' : x \notin Orphans
      BY <2>2
    <3>2. PICK a \in Actors : Crash(a) /\ frame[a].proc = x.id
      BY <3>1, NewOrphan
    <3>3. x \in alive
      BY <3>1, NewOrphan
    <3>4. ASSUME NEW y \in Orphans', y \notin Orphans PROVE y = x
      <4>1. PICK b \in Actors : Crash(b) /\ frame[b].proc = y.id
        BY <3>4, NewOrphan
      <4>2. y \in alive
        BY <3>4, NewOrphan
      <4>3. b = a
        <5>1. pc[a] # "idle" /\ pc'[a] = "idle" /\ pc[b] # "idle" /\ pc'[b] = "idle"
          BY <3>2, <4>1 DEF Crash, Return, Shape, TypeOK
        <5>. QED BY <5>1, StepCases DEF Still
      <4>. QED BY <1>0, <3>2, <3>3, <4>1, <4>2, <4>3 DEF Numbered
    <3>5. Orphans' \in SUBSET (Orphans \cup {x})
      BY <3>4
    <3>6. IsFiniteSet(Orphans \cup {x}) /\ Cardinality(Orphans \cup {x}) <= Cardinality(Orphans) + 1
      BY <1>1, FS_AddElement
    <3>7. Cardinality(Orphans') <= Cardinality(Orphans \cup {x})
      BY <3>5, <3>6, FS_Subset
    <3>8. crashes' = crashes + 1 /\ Cardinality(Orphans \cup {x}) \in Nat
      BY <3>2, <3>6, CrashesCounted, FS_CardinalityType
    <3>. QED BY <1>0, <1>1, <3>6, <3>7, <3>8
  <2>. QED BY <2>1, <2>2
<1>. QED BY <1>2 DEF OrphansOnlyByCrash, Orphans, Known, Unsettled, Indices

LEMMA DebtsStep ==
  ASSUME DeviceAssumption, ActorAssumption, Shape, Debts, [Next]_vars
  PROVE  Debts'
<1>1. MappingsOwed' /\ ProxyOwed' /\ OrphansOnlyByCrash'
  BY MappingsStep, ProxyStep, OrphanStep
<1>2. Announced' /\ GivenBack' /\ Numbered'
  BY AnnouncedStep, GivenBackStep, NumberedStep DEF Debts
<1>. QED BY <1>1, <1>2 DEF Debts, NothingUnrecorded, WriteAhead

LEMMA InitDebts == ASSUME DeviceAssumption, ActorAssumption, Init PROVE Debts
<1>1. /\ pc = [a \in Actors |-> "idle"] /\ frame = [a \in Actors |-> IdleFrame]
      /\ alive = {} /\ spawned = 0 /\ crashes = 0
      /\ proxy \in External \cup {NoProxy} /\ reverse = [p \in Ports |-> "none"]
  BY DEF Init, DeviceInit
<1>2. GivenBack
  BY <1>1 DEF GivenBack, ActorGaveBack
<1>3. Announced
  BY <1>1 DEF Announced, ActorAnnounces, IdleFrame, Alive
<1>4. Numbered /\ OrphansOnlyByCrash
  <2>1. {x \in alive : ~Known(x.id) /\ x.id \notin spared} = {}
    BY <1>1
  <2>. QED BY <1>1, <2>1, FS_EmptySet DEF Numbered, OrphansOnlyByCrash
<1>5. WriteAhead
  BY <1>1, DeviceAssumption DEF WriteAhead, MappingsOwed, ProxyOwed
<1>. QED BY <1>2, <1>3, <1>4, <1>5 DEF Debts, NothingUnrecorded

\* Nothing of the framework is on the device or on the host that no ledger and no
\* running operation knows of, but for processes that a failing call of the OS let
\* pass for ended (host_process.py:119, 130) and those of an actor that died: in
\* traffic.start every change follows the record_cleanup_action that would give it
\* back, and a ledger action is settled only after the change was given back.
THEOREM ChangesRecorded == Spec => []NothingUnrecorded
<1>1. Init => Shape /\ Debts
  BY DeviceAssumption, ActorAssumption, InitShape, InitDebts
<1>2. Shape /\ Debts /\ [Next]_vars => Shape' /\ Debts'
  BY DeviceAssumption, ActorAssumption, NextShape, DebtsStep
<1>3. Debts => NothingUnrecorded
  BY DEF Debts
<1>. QED BY <1>1, <1>2, <1>3, PTL DEF Spec

(***************************************************************************)
(* Reopening.  What a cleaned session still owes is named in its           *)
(* state.json, and a stop that has had no error has settled what it went   *)
(* through of that; no start and no cleanup under way finds its session    *)
(* cleaned (Reopening).                                                    *)
(***************************************************************************)
\* What stop gives back, by what state.json names.
StopIds(s) == {cap[s].ids["process"]} \cup {cap[s].ids[k] : k \in cap[s].made}

\* A session is captured once and for all when it is created, only a captured one
\* has a ledger, and what a cleaned one still owes is for stop to give back.
SessionFits(s) ==
  /\ s \in captured => s \notin creating /\ status[s] # "absent"
  /\ s \notin captured => Indices(s) = {}
  /\ status[s] = "cleaned" => Unsettled(s) \subseteq StopIds(s)

\* The steps that never find a cleaned session.
Open(a) ==
  \/ pc[a] \in StartLabels \cup {"rollback", "endRollback", "endCleanup"}
  \/ pc[a] \in ExecutingLabels /\ frame[a].phase # "stop"

\* How far the operation of a has come with s; a stop without errors has settled
\* what it has gone through.
Progress(a, s) ==
  /\ pc[a] \in StartLabels \cup {"startLock"} => s \in captured
  /\ Open(a) => status[s] # "cleaned"
  /\ pc[a] \in ExecutingLabels /\ frame[a].phase = "stop" =>
       /\ frame[a].todo \subseteq StopIds(s)
       /\ pc[a] \in {"apply", "mark"} => frame[a].current \in frame[a].todo
       /\ frame[a].errors \/ Unsettled(s) \cap StopIds(s) \subseteq frame[a].todo
  /\ pc[a] \in {"evidence", "stopped", "activate"} =>
       frame[a].errors \/ Unsettled(s) \cap StopIds(s) = {}
  /\ pc[a] = "activate" => ~frame[a].errors

Reopening ==
  /\ \A s \in Sessions : SessionFits(s)
  /\ \A a \in Actors : \A s \in Sessions : on[a] = s => Progress(a, s)

\* The record steps of a start.
Records(a) == StartRecordProcess(a) \/ StartRecordReverse(a) \/ StartRecordProxy(a)

\* Where ledgers come to owe more.
LedgersGrow ==
  \A s \in Sessions :
    /\ Indices(s)' = Indices(s) \/ \E a \in Actors : Records(a) /\ on[a] = s
    /\ \A i \in Unsettled(s)' :
         \/ i \in Unsettled(s)
         \/ \E a \in Actors : Records(a) /\ on[a] = s
         \/ \E a \in Actors : /\ Mark(a) /\ on[a] = s /\ i = frame[a].current
                              /\ frame[a].verdict \notin Settled

\* Marking, said of one entry.
LEMMA MarkGrow ==
  ASSUME Shape, NEW a \in Actors, Mark(a)
  PROVE  LedgersGrow
<1>1. /\ \A t \in Sessions : Indices(t)' = Indices(t)
      /\ \A t \in Sessions : \A j \in Indices(t) :
              ledger'[t][j].status = IF t = on[a] /\ j = frame[a].current
                                     THEN frame[a].verdict ELSE ledger[t][j].status
  <2>1. /\ pc[a] = "mark" /\ on[a] \in Sessions /\ SessionTypeOK
        /\ frame[a].verdict \in EntryStatuses
    BY UnderWay DEF Mark, Frames, Verdicts
  <2>2. frame[a].current \in Indices(on[a])
    BY <2>1 DEF Shape, ActorFits, Points
  <2>. QED BY <2>1, <2>2, UpdateFacts DEF Mark
<1>2. ASSUME NEW s \in Sessions, NEW i \in Unsettled(s)', i \notin Unsettled(s)
      PROVE  s = on[a] /\ i = frame[a].current /\ frame[a].verdict \notin Settled
  <2>1. i \in Indices(s) /\ ledger'[s][i].status \notin Settled /\ ledger[s][i].status \in Settled
    <3>1. i \in Indices(s)' /\ ledger'[s][i].status \notin Settled
      BY <1>2 DEF Unsettled, Indices
    <3>2. i \in Indices(s)
      BY <1>1, <3>1
    <3>. QED BY <1>2, <3>1, <3>2 DEF Unsettled
  <2>. QED BY <1>1, <2>1
<1>. QED BY <1>1, <1>2 DEF LedgersGrow

LEMMA RecordGrow ==
  ASSUME DeviceAssumption, Shape, NEW a \in Actors, Records(a)
  PROVE  /\ LedgersGrow /\ on[a] \in Sessions /\ status[on[a]] # "cleaned"
         /\ status' = [status EXCEPT ![on[a]] = "cleanup_required"]
<1>1. PICK k, v, from, to : StartRecord(a, k, v, from, to)
  BY RecordCases DEF Records
<1>2. on[a] \in Sessions
  <2>1. pc[a] # "idle"
    BY DEF Records, StartRecordProcess, StartRecordReverse, StartRecordProxy, StartRecord
  <2>. QED BY <2>1, UnderWay
<1>3. /\ status[on[a]] # "cleaned" /\ status' = [status EXCEPT ![on[a]] = "cleanup_required"]
      /\ \A t \in Sessions \ {on[a]} : ledger'[t] = ledger[t]
  <2>1. /\ status[on[a]] # "cleaned" /\ status' = [status EXCEPT ![on[a]] = "cleanup_required"]
        /\ \E L : ledger' = [ledger EXCEPT ![on[a]] = L]
    BY <1>1 DEF StartRecord, RecordAction
  <2>. QED BY <2>1, UnderWay DEF SessionTypeOK
<1>4. LedgersGrow
  BY <1>3 DEF LedgersGrow, Unsettled, Indices
<1>. QED BY <1>2, <1>3, <1>4

\* Who changes a status, and to what.
StatusChange ==
  \A s \in Sessions :
    \/ status'[s] = status[s]
    \/ CreateSession(s) /\ status'[s] \in {"initializing", "active", "error"} /\ (status[s] # "absent" => s \in creating)
    \/ \E a \in Actors :
         /\ on[a] = s
         /\ \/ Records(a) /\ status'[s] = "cleanup_required"
            \/ EndRollback(a) /\ status'[s] = IF PendingCleanup(s) THEN "cleanup_required" ELSE "active"
            \/ BeginCleanup(a) /\ status'[s] = "cleaning"
            \/ EndCleanup(a) /\ status'[s] = IF Unsettled(s) = {} THEN "cleaned" ELSE "cleanup_failed"
            \/ StopActivate(a) /\ status'[s] = "active"

\* What a step does to the sessions.
LEMMA SessionStep ==
  ASSUME DeviceAssumption, Shape, [Next]_vars
  PROVE  /\ LedgersGrow /\ StatusChange
         /\ captured \subseteq captured'
         /\ \A s \in captured' : s \in captured \/ (s \in creating /\ s \notin creating' /\ status'[s] = "active")
         /\ \A s \in creating' : s \in creating \/ status[s] = "absent"
<1>. DEFINE Creates == \A s \in captured' : s \in captured \/ (s \in creating /\ s \notin creating' /\ status'[s] = "active")
            Rest == UNCHANGED <<captured, creating>>
<1>0. /\ UNCHANGED ledger => LedgersGrow
      /\ UNCHANGED status => StatusChange
      /\ SessionTypeOK
  BY DEF LedgersGrow, StatusChange, Unsettled, Indices, Shape, TypeOK
<1>1. ASSUME NEW a \in Actors, Call(a) \/ Crash(a)
      PROVE  UNCHANGED sessionVars
  BY <1>1 DEF Call, Crash, StartRequest, StopRequest, CleanupLock
<1>2. ASSUME NEW a \in Actors, ExecutorStep(a)
      PROVE  LedgersGrow /\ StatusChange /\ Rest
  <2>1. CASE Decide(a) \/ Apply(a) \/ BeginRollback(a) \/ ReturnCleaned(a)
    BY <1>0, <2>1 DEF Decide, Apply, BeginRollback, ReturnCleaned, sessionVars
  <2>2. CASE Mark(a)
    BY <1>0, <2>2, MarkGrow DEF Mark, UpdateAction
  <2>3. CASE EndRollback(a) \/ BeginCleanup(a) \/ EndCleanup(a)
    <3>0. on[a] \in Sessions
      BY <2>3, UnderWay DEF EndRollback, BeginCleanup, EndCleanup
    <3>1. UNCHANGED <<ledger, captured, creating>>
      BY <2>3 DEF EndRollback, BeginCleanup, EndCleanup, SetStatus
    <3>2. ASSUME NEW s \in Sessions, s # on[a] PROVE status'[s] = status[s]
      BY <1>0, <2>3, <3>2 DEF EndRollback, BeginCleanup, EndCleanup, SetStatus, SessionTypeOK
    <3>3. ASSUME NEW s \in Sessions, s = on[a]
          PROVE  \/ EndRollback(a) /\ status'[s] = IF PendingCleanup(s) THEN "cleanup_required" ELSE "active"
                 \/ BeginCleanup(a) /\ status'[s] = "cleaning"
                 \/ EndCleanup(a) /\ status'[s] = IF Unsettled(s) = {} THEN "cleaned" ELSE "cleanup_failed"
      BY <1>0, <2>3, <3>3 DEF EndRollback, BeginCleanup, EndCleanup, SetStatus, SessionTypeOK
    <3>4. StatusChange
      BY <3>2, <3>3 DEF StatusChange
    <3>. QED BY <1>0, <3>1, <3>4
  <2>. QED BY <1>2, <2>1, <2>2, <2>3 DEF ExecutorStep
<1>3. ASSUME NEW a \in Actors, StartStep(a)
      PROVE  LedgersGrow /\ StatusChange /\ Rest
  <2>1. CASE Records(a)
    <3>1. LedgersGrow /\ on[a] \in Sessions /\ status' = [status EXCEPT ![on[a]] = "cleanup_required"]
      BY <2>1, RecordGrow
    <3>2. UNCHANGED <<captured, creating>>
      BY <2>1 DEF Records, StartRecordProcess, StartRecordReverse, StartRecordProxy, StartRecord, RecordAction
    <3>3. StatusChange
      BY <1>0, <2>1, <3>1 DEF StatusChange, SessionTypeOK
    <3>. QED BY <3>1, <3>2, <3>3
  <2>2. CASE ~Records(a)
    <3>1. UNCHANGED sessionVars
      BY <1>3, <2>2 DEF Records, StartStep, StartLock, StartRefused, StartSpawn, StartSpawnFails,
              StartAddReverse, StartReadProxy, StartPutProxy, StartRunning, StartRaises, StartDropProcess
    <3>. QED BY <1>0, <3>1 DEF sessionVars
  <2>. QED BY <2>1, <2>2
<1>4. ASSUME NEW a \in Actors, StopStep(a)
      PROVE  LedgersGrow /\ StatusChange /\ Rest
  <2>1. CASE StopActivate(a)
    <3>0. on[a] \in Sessions
      BY <2>1, UnderWay DEF StopActivate
    <3>1. UNCHANGED <<ledger, captured, creating>> /\ status' = [status EXCEPT ![on[a]] = "active"]
      BY <2>1 DEF StopActivate, SetStatus
    <3>2. StatusChange
      BY <1>0, <2>1, <3>0, <3>1 DEF StatusChange, SessionTypeOK
    <3>. QED BY <1>0, <3>1, <3>2
  <2>2. CASE ~StopActivate(a)
    <3>1. UNCHANGED sessionVars
      BY <1>4, <2>2 DEF StopStep, StopRefused, StopLock, StopBegin, StopEvidence, StopPersist, StopRaises
    <3>. QED BY <1>0, <3>1 DEF sessionVars
  <2>. QED BY <2>1, <2>2
<1>5. ASSUME NEW s \in Sessions, CreateSession(s)
      PROVE  /\ LedgersGrow /\ StatusChange /\ captured \subseteq captured' /\ Creates
             /\ \A t \in creating' : t \in creating \/ status[t] = "absent"
  <2>. USE <1>0, <1>5 DEF SessionTypeOK
  <2>1. CASE Initialize(s)
    BY <2>1 DEF Initialize, StatusChange, CreateSession
  <2>2. ASSUME NEW r \in BOOLEAN, Activate(s, r)
        PROVE  /\ LedgersGrow /\ StatusChange /\ captured \subseteq captured' /\ Creates
               /\ \A t \in creating' : t \in creating \/ status[t] = "absent"
    <3>1. /\ UNCHANGED ledger /\ status' = [status EXCEPT ![s] = "active"] /\ s \in creating
          /\ captured' \in {captured, captured \cup {s}} /\ creating' = creating \ {s}
      BY <2>2 DEF Activate
    <3>2. status'[s] = "active" /\ \A t \in Sessions \ {s} : status'[t] = status[t]
      BY <3>1
    <3>3. StatusChange
      BY <3>1, <3>2 DEF StatusChange, CreateSession
    <3>4. \A u \in captured' : u \in captured \/ u = s
      BY <3>1
    <3>5. captured \subseteq captured' /\ Creates
      BY <3>1, <3>2, <3>4
    <3>. QED BY <3>1, <3>5, <3>3
  <2>3. CASE CreateFails(s)
    BY <2>3 DEF CreateFails, StatusChange, CreateSession
  <2>. QED BY <2>1, <2>2, <2>3 DEF CreateSession
<1>6. CASE Interference \/ UNCHANGED vars
  BY <1>0, <1>6 DEF Interference, vars, sessionVars
<1>7. ASSUME NEW a \in Actors, Acts(a) PROVE LedgersGrow /\ StatusChange /\ Rest
  BY <1>0, <1>1, <1>2, <1>3, <1>4, <1>7 DEF Acts, ActorStep, sessionVars
<1>8. CASE \E a \in Actors : Acts(a)
  BY <1>7, <1>8
<1>9. CASE \E s \in Sessions : CreateSession(s)
  BY <1>5, <1>9
<1>. QED BY <1>6, <1>8, <1>9 DEF Next, Acts

\* state.json names the same actions until a start has it written again.
LEMMA StopIdsStep ==
  ASSUME Shape, [Next]_vars, NEW s \in Sessions
  PROVE  StopIds(s)' = StopIds(s) \/ \E a \in Actors : StartRunning(a) /\ on[a] = s
<1>1. UNCHANGED cap => StopIds(s)' = StopIds(s)
  BY DEF StopIds
<1>2. ASSUME NEW a \in Actors, Acts(a), cap' # cap
      PROVE  StartRunning(a) \/ StopPersist(a)
  <2>1. CASE Call(a) \/ Crash(a)
    BY <1>2, <2>1 DEF Call, Crash, StartRequest, StopRequest, CleanupLock
  <2>2. CASE StartStep(a)
    BY <1>2, <2>2 DEF StartStep, StartLock, StartRefused, StartSpawn, StartSpawnFails, StartReadProxy,
              StartRaises, StartDropProcess, StartAddReverse, StartPutProxy,
              StartRecordProcess, StartRecordReverse, StartRecordProxy, StartRecord
  <2>3. CASE StopStep(a)
    BY <1>2, <2>3 DEF StopStep, StopRefused, StopLock, StopBegin, StopEvidence, StopRaises, StopActivate
  <2>. QED BY <1>2, <2>1, <2>2, <2>3 DEF Acts, ActorStep
<1>3. ASSUME NEW a \in Actors, StopPersist(a) PROVE StopIds(s)' = StopIds(s)
  <2>1. cap'[s].ids = cap[s].ids /\ cap'[s].made = cap[s].made
    BY <1>3, UnderWay DEF StopPersist, CaptureTypeOK, Captures
  <2>. QED BY <2>1 DEF StopIds
<1>4. ASSUME NEW a \in Actors, StartRunning(a), on[a] # s PROVE StopIds(s)' = StopIds(s)
  <2>1. cap'[s] = cap[s]
    BY <1>4, UnderWay DEF StartRunning, CaptureTypeOK
  <2>. QED BY <2>1 DEF StopIds
<1>. QED BY <1>1, <1>2, <1>3, <1>4, StepCases

\* Where the steps that give back take the local variables.
LEMMA MarkFrame ==
  ASSUME Shape, NEW a \in Actors, Mark(a)
  PROVE  /\ pc[a] = "mark" /\ on'[a] = on[a] /\ frame'[a].phase = frame[a].phase
         /\ frame'[a].todo = frame[a].todo \ {frame[a].current}
         /\ frame'[a].errors <=> frame[a].errors \/ frame[a].verdict \notin Settled
         /\ pc'[a] = IF frame'[a].todo = {} THEN AfterActions(a) ELSE "next"
<1>. DEFINE rest == frame[a].todo \ {frame[a].current}
            bad == frame[a].errors \/ frame[a].verdict \notin Settled
<1>1. frame' = [frame EXCEPT ![a] = [frame[a] EXCEPT !.todo = rest, !.errors = bad]]
  BY DEF Mark, Shape, TypeOK
<1>2. /\ pc[a] = "mark" /\ on'[a] = on[a]
      /\ pc'[a] = IF rest = {} THEN AfterActions(a) ELSE "next"
  BY DEF Mark, Goto, Keep, Shape, TypeOK
<1>. HIDE DEF rest, bad
<1>3. /\ frame'[a].phase = frame[a].phase /\ frame'[a].todo = rest /\ frame'[a].errors = bad
  BY <1>1, UnderWay DEF Shape, TypeOK, Frames
<1>. QED BY <1>2, <1>3 DEF rest, bad

LEMMA BeginFrame ==
  ASSUME ActorAssumption, Shape, NEW a \in Actors
  PROVE  /\ BeginRollback(a) => /\ pc[a] = "rollback" /\ on'[a] = on[a] /\ frame'[a].phase = "rollback"
                                /\ pc'[a] \in {"endRollback", "next"}
         /\ BeginCleanup(a) => /\ pc[a] = "cleanup" /\ on'[a] = on[a] /\ frame'[a].phase = "cleanup"
                               /\ pc'[a] \in {"endCleanup", "next"}
                               /\ \A s \in Sessions : s = on[a] => status'[s] = "cleaning"
<1>1. ASSUME BeginRollback(a)
      PROVE  /\ pc[a] = "rollback" /\ on'[a] = on[a] /\ frame'[a].phase = "rollback"
             /\ pc'[a] \in {"endRollback", "next"}
  <2>1. on[a] \in Sessions
    BY <1>1, UnderWay DEF BeginRollback
  <2>. DEFINE I == Recorded(a) \cap Unsettled(on[a])
  <2>2. "rollback" \in Phases /\ I \in SUBSET Indices(on[a]) /\ Begin(a, "rollback", I)
    BY <1>1 DEF BeginRollback, Phases, Unsettled
  <2>. HIDE DEF I
  <2>3. \E f \in Frames : frame' = [frame EXCEPT ![a] = f] /\ f.todo = I /\ f.phase = "rollback"
    BY <2>1, <2>2, BeginFacts
  <2>. QED BY <1>1, <2>3 DEF BeginRollback, Goto, Keep, Shape, TypeOK
<1>2. ASSUME BeginCleanup(a)
      PROVE  /\ pc[a] = "cleanup" /\ on'[a] = on[a] /\ frame'[a].phase = "cleanup"
             /\ pc'[a] \in {"endCleanup", "next"}
             /\ \A s \in Sessions : s = on[a] => status'[s] = "cleaning"
  <2>1. on[a] \in Sessions
    BY <1>2, UnderWay DEF BeginCleanup
  <2>. DEFINE I == Unsettled(on[a])
  <2>2. "cleanup" \in Phases /\ I \in SUBSET Indices(on[a]) /\ Begin(a, "cleanup", I)
    BY <1>2 DEF BeginCleanup, Phases, Unsettled
  <2>. HIDE DEF I
  <2>3. \E f \in Frames : frame' = [frame EXCEPT ![a] = f] /\ f.todo = I /\ f.phase = "cleanup"
    BY <2>1, <2>2, BeginFacts
  <2>4. \A s \in Sessions : s = on[a] => status'[s] = "cleaning"
    BY <1>2, UnderWay DEF BeginCleanup, SetStatus, SessionTypeOK
  <2>. QED BY <1>2, <2>3, <2>4 DEF BeginCleanup, Goto, Keep, Shape, TypeOK
<1>. QED BY <1>1, <1>2

\* Where stop goes, and what it has to do.
LEMMA StopFrame ==
  ASSUME Shape, NEW a \in Actors
  PROVE  /\ StopBegin(a) => /\ pc[a] = "stop" /\ pc'[a] = "next" /\ on'[a] = on[a] /\ frame'[a].phase = "stop"
                            /\ \A s \in Sessions : s = on[a] => frame'[a].todo = StopIds(s)
         /\ StopEvidence(a) => /\ pc[a] = "evidence" /\ pc'[a] = "stopped" /\ on'[a] = on[a]
                               /\ frame[a].errors => frame'[a].errors
         /\ StopPersist(a) /\ pc'[a] = "activate" => /\ pc[a] = "stopped" /\ on'[a] = on[a]
                                                     /\ ~frame[a].errors /\ frame'[a] = frame[a]
<1>0. frame[a] \in Frames /\ pc \in [Actors -> Labels] /\ frame \in [Actors -> Frames]
  BY DEF Shape, TypeOK
<1>1. ASSUME StopBegin(a)
      PROVE  /\ pc[a] = "stop" /\ pc'[a] = "next" /\ on'[a] = on[a] /\ frame'[a].phase = "stop"
             /\ \A s \in Sessions : s = on[a] => frame'[a].todo = StopIds(s)
  <2>. DEFINE I == {cap[on[a]].ids["process"]} \cup {cap[on[a]].ids[k] : k \in cap[on[a]].made}
              r == cap[on[a]].evidence
  <2>1. frame' = [frame EXCEPT ![a] = [frame[a] EXCEPT !.phase = "stop", !.registered = r, !.todo = I]]
    BY <1>0, <1>1 DEF StopBegin
  <2>2. \A s \in Sessions : s = on[a] => I = StopIds(s)
    BY DEF StopIds
  <2>. HIDE DEF I, r
  <2>3. frame'[a].phase = "stop" /\ frame'[a].todo = I
    BY <1>0, <2>1 DEF Frames
  <2>. QED BY <1>0, <1>1, <2>2, <2>3 DEF StopBegin, Goto, Keep
<1>2. ASSUME StopEvidence(a)
      PROVE  /\ pc[a] = "evidence" /\ pc'[a] = "stopped" /\ on'[a] = on[a]
             /\ frame[a].errors => frame'[a].errors
  <2>1. \/ frame' = [frame EXCEPT ![a] = [frame[a] EXCEPT !.registered = TRUE]]
        \/ frame' = [frame EXCEPT ![a] = [frame[a] EXCEPT !.errors = TRUE]]
    BY <1>0, <1>2 DEF StopEvidence
  <2>2. /\ [frame[a] EXCEPT !.registered = TRUE].errors = frame[a].errors
        /\ [frame[a] EXCEPT !.errors = TRUE].errors = TRUE
    BY <1>0 DEF Frames
  <2>3. frame[a].errors => frame'[a].errors
    <3>1. CASE frame' = [frame EXCEPT ![a] = [frame[a] EXCEPT !.registered = TRUE]]
      BY <1>0, <2>2, <3>1
    <3>2. CASE frame' = [frame EXCEPT ![a] = [frame[a] EXCEPT !.errors = TRUE]]
      BY <1>0, <2>2, <3>2
    <3>. QED BY <2>1, <3>1, <3>2
  <2>. QED BY <1>0, <1>2, <2>3 DEF StopEvidence, Goto, Keep
<1>3. ASSUME StopPersist(a), pc'[a] = "activate"
      PROVE  /\ pc[a] = "stopped" /\ on'[a] = on[a]
             /\ ~frame[a].errors /\ frame'[a] = frame[a]
  <2>1. StopReturns(a) => pc'[a] \in {"idle", "cleanup"}
    BY <1>0 DEF StopReturns, Return, Goto
  <2>. QED BY <1>0, <1>3, <2>1 DEF StopPersist, Keep
<1>. QED BY <1>1, <1>2, <1>3

\* While an operation that holds the lock stays where it is, nobody records,
\* marks, cleans or writes state.json of a start.
LEMMA Undisturbed ==
  ASSUME Shape, NEW a \in Actors, pc[a] \notin {"idle", "startLock", "stopLock"},
         NEW b \in Actors, Records(b) \/ Mark(b) \/ StartRunning(b) \/ EndCleanup(b)
  PROVE  a = b /\ pc'[a] # pc[a]
<1>1. pc[b] \notin {"idle", "startLock", "stopLock"}
  BY DEF Records, StartRecordProcess, StartRecordReverse, StartRecordProxy, StartRecord, Mark,
         StartRunning, EndCleanup
<1>2. a = b
  BY <1>1, LockHolder
<1>3. ASSUME Records(a) PROVE pc'[a] # pc[a]
  BY <1>3 DEF Records, StartRecordProcess, StartRecordReverse, StartRecordProxy, StartRecord, Goto,
              Shape, TypeOK
<1>4. ASSUME Mark(a) PROVE pc'[a] # pc[a]
  BY <1>4 DEF Mark, AfterActions, Goto, Shape, TypeOK
<1>5. ASSUME StartRunning(a) \/ EndCleanup(a) PROVE pc'[a] # pc[a]
  BY <1>5 DEF StartRunning, EndCleanup, Goto, Return, Shape, TypeOK
<1>. QED BY <1>2, <1>3, <1>4, <1>5

\* Nobody else cleans the session of an operation, makes it owe more, or has
\* state.json name other actions.
LEMMA OthersAway ==
  ASSUME DeviceAssumption, Shape, [Next]_vars, NEW a \in Actors,
         pc[a] \notin {"idle", "startLock", "stopLock"},
         NEW s \in Sessions
  PROVE  /\ ~EndCleanup(a) /\ status[s] # "cleaned" => status'[s] # "cleaned"
         /\ ~Records(a) /\ ~Mark(a) => Unsettled(s)' \subseteq Unsettled(s)
         /\ ~Records(a) /\ frame[a].verdict \in Settled => Unsettled(s)' \subseteq Unsettled(s)
         /\ ~StartRunning(a) => StopIds(s)' = StopIds(s)
<1>1. LedgersGrow /\ StatusChange
  BY SessionStep
<1>2. ~EndCleanup(a) /\ status[s] # "cleaned" => status'[s] # "cleaned"
  BY <1>1, Undisturbed DEF StatusChange
<1>3. ~Records(a) /\ ~Mark(a) => Unsettled(s)' \subseteq Unsettled(s)
  BY <1>1, Undisturbed DEF LedgersGrow
<1>4. ~Records(a) /\ frame[a].verdict \in Settled => Unsettled(s)' \subseteq Unsettled(s)
  BY <1>1, Undisturbed DEF LedgersGrow
<1>5. ~StartRunning(a) => StopIds(s)' = StopIds(s)
  BY StopIdsStep, Undisturbed
<1>. QED BY <1>2, <1>3, <1>4, <1>5

\* An operation that stays where it is has come as far as before.
LEMMA StillProgress ==
  ASSUME DeviceAssumption, Shape, Reopening, [Next]_vars, NEW a \in Actors, Still(a),
         NEW s \in Sessions, on[a] = s
  PROVE  Progress(a, s)'
<1>1. Progress(a, s) /\ captured \subseteq captured'
  BY SessionStep DEF Reopening
<1>2. pc'[a] = pc[a] /\ frame'[a] = frame[a]
  BY DEF Still
<1>3. CASE pc[a] \in {"idle", "startLock", "stopLock"}
  BY <1>1, <1>2, <1>3 DEF Progress, Open, StartLabels, ExecutingLabels
<1>4. CASE pc[a] \notin {"idle", "startLock", "stopLock"}
  <2>1. /\ status[s] # "cleaned" => status'[s] # "cleaned"
        /\ Unsettled(s)' \subseteq Unsettled(s)
        /\ StopIds(s)' = StopIds(s)
    <3>1. ~EndCleanup(a) /\ ~Records(a) /\ ~Mark(a) /\ ~StartRunning(a)
      BY <1>2, <1>4, Undisturbed
    <3>. QED BY <1>4, <3>1, OthersAway
  <2>. QED BY <1>1, <1>2, <2>1 DEF Progress, Open
<1>. QED BY <1>3, <1>4

\* Where the steps of a start come from.
LEMMA FromStart ==
  ASSUME DeviceAssumption, Shape, NEW a \in Actors, Acts(a), pc'[a] \in StartLabels \cup {"rollback"}
  PROVE  /\ pc[a] \in StartLabels \cup {"startLock"} /\ on'[a] = on[a]
         /\ pc'[a] = "spawn" => StartLock(a)
         /\ pc'[a] # "spawn" => pc[a] \in StartLabels
<1>1. Arrival(a)
  BY Arrivals
<1>2. \/ StartLock(a) \/ StartSpawn(a) \/ StartRecordProcess(a) \/ StartRecordReverse(a)
      \/ StartRecordProxy(a) \/ StartAddReverse(a) \/ StartReadProxy(a) \/ StartPutProxy(a)
      \/ StartRaises(a) \/ StartRunning(a)
  BY <1>1 DEF Arrival, StartLabels
<1>3. on'[a] = on[a]
  <2>1. CASE StartRunning(a)
    <3>1. Return(a) => pc'[a] = "idle"
      BY DEF Return, Shape, TypeOK
    <3>. QED BY <2>1, <3>1 DEF StartRunning, Keep, StartLabels
  <2>. QED BY <1>2, <2>1 DEF StartLock, StartSpawn, StartRecordProcess, StartRecordReverse,
           StartRecordProxy, StartRecord, StartAddReverse, StartReadProxy, StartPutProxy, StartRaises, Keep
<1>4. pc[a] \in StartLabels \/ (StartLock(a) /\ pc[a] = "startLock")
  BY <1>2 DEF StartLock, StartSpawn, StartRecordProcess, StartRecordReverse, StartLabels,
           StartRecordProxy, StartRecord, StartAddReverse, StartReadProxy, StartPutProxy, StartRaises, StartRunning
<1>5. StartLock(a) => pc'[a] = "spawn"
  BY DEF StartLock, Goto, Shape, TypeOK
<1>. QED BY <1>1, <1>3, <1>4, <1>5 DEF Arrival

\* Where the steps come from that find no cleaned session.
LEMMA FromOpen ==
  ASSUME DeviceAssumption, ActorAssumption, Shape, NEW a \in Actors, Acts(a), Open(a)'
  PROVE  StartLock(a) \/ BeginCleanup(a) \/ (Open(a) /\ on'[a] = on[a])
<1>1. Arrival(a)
  BY Arrivals
<1>2. CASE pc'[a] \in StartLabels \cup {"rollback"}
  BY <1>2, FromStart DEF Open
<1>3. CASE Mark(a)
  BY <1>3, MarkFrame DEF Open, AfterActions, StartLabels, ExecutingLabels
<1>4. CASE BeginRollback(a)
  BY <1>4, BeginFrame DEF Open
<1>5. CASE Decide(a) \/ Apply(a)
  <2>1. pc[a] \in ExecutingLabels /\ pc'[a] \in ExecutingLabels /\ on'[a] = on[a] /\ frame'[a].phase = frame[a].phase
    <3>1. CASE Decide(a)
      <4>1. pc[a] = "next" /\ pc'[a] \in {"apply", "mark"}
        BY <3>1 DEF Decide, Goto, Shape, TypeOK
      <4>. QED BY <3>1, <4>1, DecideStep DEF ExecutingLabels
    <3>2. CASE Apply(a)
      <4>1. pc[a] = "apply" /\ pc'[a] = "mark"
        BY <3>2, DeviceTouched
      <4>. QED BY <3>2, <4>1, ApplyStep DEF ExecutingLabels
    <3>. QED BY <1>5, <3>1, <3>2
  <2>. QED BY <2>1 DEF Open, StartLabels, ExecutingLabels
<1>6. CASE StopBegin(a)
  BY <1>6, StopFrame DEF Open, StartLabels
<1>. QED BY <1>1, <1>2, <1>3, <1>4, <1>5, <1>6 DEF Open, Arrival, ExecutingLabels

\* A mark in the course of stop.
LEMMA MarkProgress ==
  ASSUME DeviceAssumption, Shape, Reopening, [Next]_vars, NEW a \in Actors, Mark(a),
         frame[a].phase = "stop", NEW s \in Sessions, on[a] = s
  PROVE  /\ frame'[a].todo \subseteq StopIds(s)'
         /\ frame'[a].errors \/ Unsettled(s)' \cap StopIds(s)' \subseteq frame'[a].todo
<1>1. Progress(a, s) /\ pc[a] = "mark"
  BY DEF Reopening, Mark
<1>2. /\ frame[a].todo \subseteq StopIds(s)
      /\ frame[a].errors \/ Unsettled(s) \cap StopIds(s) \subseteq frame[a].todo
  BY <1>1 DEF Progress, ExecutingLabels
<1>3. ~StartRunning(a) /\ ~Records(a)
  BY <1>1 DEF StartRunning, Records, StartRecordProcess, StartRecordReverse, StartRecordProxy, StartRecord
<1>4. StopIds(s)' = StopIds(s)
  BY <1>1, <1>3, OthersAway
<1>5. CASE frame'[a].errors
  BY <1>2, <1>4, <1>5, MarkFrame
<1>6. CASE ~frame'[a].errors
  <2>1. ~frame[a].errors /\ frame[a].verdict \in Settled
    BY <1>6, MarkFrame
  <2>2. Unsettled(s)' \subseteq Unsettled(s)
    BY <1>1, <1>3, <2>1, OthersAway
  <2>3. frame[a].current \notin Unsettled(s)'
    <3>1. frame[a].current \in Indices(s) /\ ledger'[s][frame[a].current].status = frame[a].verdict
      BY MarkStep
    <3>. QED BY <2>1, <3>1 DEF Unsettled
  <2>. QED BY <1>2, <1>4, <2>1, <2>2, <2>3, MarkFrame
<1>. QED BY <1>5, <1>6

\* What a start may find cleaned or not captured.
LEMMA StartProgress ==
  ASSUME DeviceAssumption, ActorAssumption, Shape, Reopening, [Next]_vars, NEW a \in Actors, Acts(a),
         NEW s \in Sessions, on'[a] = s
  PROVE  /\ pc'[a] \in StartLabels \cup {"startLock"} => s \in captured'
         /\ Open(a)' => status'[s] # "cleaned"
<1>0. captured \subseteq captured'
  BY SessionStep
<1>1. ASSUME pc'[a] \in StartLabels PROVE s \in captured
  <2>1. pc[a] \in StartLabels \cup {"startLock"} /\ on[a] = s
    BY <1>1, FromStart
  <2>. QED BY <2>1 DEF Reopening, Progress
<1>2. ASSUME pc'[a] = "startLock" PROVE s \in captured
  <2>1. PICK t \in Sessions : StartRequest(a, t)
    BY <1>2, Arrivals DEF Arrival
  <2>. QED BY <2>1 DEF StartRequest, Shape, TypeOK
<1>3. ASSUME Open(a)' PROVE status'[s] # "cleaned"
  <2>1. CASE StartLock(a)
    <3>1. on[a] = s /\ status'[s] = status[s]
      BY <2>1 DEF StartLock, sessionVars
    <3>2. status[s] \in {"active", "cleanup_required"}
      BY <2>1, <3>1 DEF StartLock, MayStart, SlotFree
    <3>. QED BY <3>1, <3>2
  <2>2. CASE BeginCleanup(a)
    BY <2>2, BeginFrame
  <2>3. CASE Open(a) /\ on'[a] = on[a]
    <3>1. status[s] # "cleaned" /\ pc[a] \notin {"idle", "startLock", "stopLock"}
      BY <2>3 DEF Reopening, Progress, Open, StartLabels, ExecutingLabels
    <3>2. ~EndCleanup(a)
      <4>1. EndCleanup(a) => pc'[a] = "idle"
        BY DEF EndCleanup, Return, Shape, TypeOK
      <4>. QED BY <1>3, <4>1 DEF Open, StartLabels, ExecutingLabels
    <3>. QED BY <3>1, <3>2, OthersAway
  <2>. QED BY <1>3, <2>1, <2>2, <2>3, FromOpen
<1>. QED BY <1>0, <1>1, <1>2, <1>3

\* What stop has settled.
LEMMA StopProgress ==
  ASSUME DeviceAssumption, ActorAssumption, Shape, Reopening, [Next]_vars, NEW a \in Actors, Acts(a),
         NEW s \in Sessions, on'[a] = s
  PROVE  /\ pc'[a] \in ExecutingLabels /\ frame'[a].phase = "stop" =>
              /\ frame'[a].todo \subseteq StopIds(s)'
              /\ pc'[a] \in {"apply", "mark"} => frame'[a].current \in frame'[a].todo
              /\ frame'[a].errors \/ Unsettled(s)' \cap StopIds(s)' \subseteq frame'[a].todo
         /\ pc'[a] \in {"evidence", "stopped", "activate"} =>
              frame'[a].errors \/ Unsettled(s)' \cap StopIds(s)' = {}
         /\ pc'[a] = "activate" => ~frame'[a].errors
<1>0. Arrival(a) /\ (on[a] = s => Progress(a, s))
  BY Arrivals DEF Reopening
<1>1. ASSUME pc'[a] \in ExecutingLabels, frame'[a].phase = "stop"
      PROVE  /\ frame'[a].todo \subseteq StopIds(s)'
             /\ pc'[a] \in {"apply", "mark"} => frame'[a].current \in frame'[a].todo
             /\ frame'[a].errors \/ Unsettled(s)' \cap StopIds(s)' \subseteq frame'[a].todo
  <2>1. CASE Mark(a)
    <3>1. frame[a].phase = "stop" /\ on[a] = s /\ pc'[a] \notin {"apply", "mark"}
      BY <1>1, <2>1, MarkFrame DEF AfterActions
    <3>. QED BY <2>1, <3>1, MarkProgress
  <2>2. CASE StopBegin(a)
    <3>1. pc[a] = "stop" /\ pc'[a] = "next" /\ on[a] = s /\ frame'[a].todo = StopIds(s)
      BY <2>2, StopFrame
    <3>2. ~StartRunning(a)
      BY <3>1 DEF StartRunning
    <3>3. StopIds(s)' = StopIds(s)
      BY <3>1, <3>2, OthersAway
    <3>. QED BY <3>1, <3>3
  <2>3. CASE Decide(a) \/ Apply(a)
    <3>1. /\ pc[a] \in {"next", "apply"} /\ on[a] = s
          /\ frame'[a].todo = frame[a].todo /\ frame'[a].phase = frame[a].phase
          /\ frame'[a].errors = frame[a].errors
          /\ Decide(a) => frame'[a].current \in frame[a].todo
          /\ Apply(a) => pc[a] = "apply" /\ frame'[a].current = frame[a].current
      <4>1. ASSUME Decide(a)
            PROVE  /\ pc[a] = "next" /\ on[a] = s
                   /\ frame'[a].todo = frame[a].todo /\ frame'[a].phase = frame[a].phase
                   /\ frame'[a].errors = frame[a].errors
                   /\ frame'[a].current \in frame[a].todo
        BY <4>1, DecideStep DEF Decide
      <4>2. ASSUME Apply(a)
            PROVE  /\ pc[a] = "apply" /\ on[a] = s
                   /\ frame'[a].todo = frame[a].todo /\ frame'[a].phase = frame[a].phase
                   /\ frame'[a].errors = frame[a].errors
                   /\ frame'[a].current = frame[a].current
        BY <4>2, ApplyStep DEF Apply
      <4>. QED BY <2>3, <4>1, <4>2 DEF Decide, Apply
    <3>2. ~StartRunning(a) /\ ~Records(a) /\ ~Mark(a)
      BY <3>1 DEF Mark, StartRunning, Records, StartRecordProcess, StartRecordReverse, StartRecordProxy, StartRecord
    <3>3. StopIds(s)' = StopIds(s) /\ Unsettled(s)' \subseteq Unsettled(s)
      BY <3>1, <3>2, OthersAway
    <3>4. /\ frame[a].todo \subseteq StopIds(s)
          /\ pc[a] = "apply" => frame[a].current \in frame[a].todo
          /\ frame[a].errors \/ Unsettled(s) \cap StopIds(s) \subseteq frame[a].todo
      BY <1>0, <1>1, <3>1 DEF Progress, ExecutingLabels
    <3>5. frame'[a].current \in frame'[a].todo
      BY <2>3, <3>1, <3>4
    <3>. QED BY <3>1, <3>3, <3>4, <3>5
  <2>4. ~BeginRollback(a) /\ ~BeginCleanup(a)
    BY <1>1, BeginFrame
  <2>. QED BY <1>0, <1>1, <2>1, <2>2, <2>3, <2>4 DEF Arrival, ExecutingLabels
<1>2. ASSUME pc'[a] = "evidence" PROVE frame'[a].errors \/ Unsettled(s)' \cap StopIds(s)' = {}
  <2>1. Mark(a)
    BY <1>0, <1>2 DEF Arrival
  <2>2. frame[a].phase = "stop" /\ on[a] = s /\ frame'[a].todo = {}
    BY <1>2, <2>1, MarkFrame DEF AfterActions
  <2>. QED BY <2>1, <2>2, MarkProgress
<1>3. ASSUME pc'[a] \in {"stopped", "activate"}
      PROVE  /\ frame'[a].errors \/ Unsettled(s)' \cap StopIds(s)' = {}
             /\ pc'[a] = "activate" => ~frame'[a].errors
  <2>1. StopEvidence(a) \/ StopPersist(a)
    BY <1>0, <1>3 DEF Arrival
  <2>2. /\ pc[a] \in {"evidence", "stopped"} /\ on[a] = s
        /\ frame[a].errors => frame'[a].errors
        /\ pc'[a] = "activate" => ~frame'[a].errors
    <3>1. CASE StopEvidence(a)
      BY <3>1, StopFrame
    <3>2. CASE StopPersist(a)
      <4>1. pc'[a] # "stopped"
        BY <1>0, <3>2 DEF Arrival, StopPersist, StopEvidence
      <4>. QED BY <1>3, <3>2, <4>1, StopFrame
    <3>. QED BY <2>1, <3>1, <3>2
  <2>3. ~StartRunning(a) /\ ~Records(a) /\ ~Mark(a)
    BY <2>2 DEF Mark, StartRunning, Records, StartRecordProcess, StartRecordReverse, StartRecordProxy, StartRecord
  <2>4. StopIds(s)' = StopIds(s) /\ Unsettled(s)' \subseteq Unsettled(s)
    BY <2>2, <2>3, OthersAway
  <2>5. frame[a].errors \/ Unsettled(s) \cap StopIds(s) = {}
    BY <1>0, <2>2 DEF Progress
  <2>. QED BY <2>2, <2>4, <2>5
<1>. QED BY <1>1, <1>2, <1>3

\* What a cleaned session still owes; when sessions are captured.
LEMMA SessionFitsStep ==
  ASSUME DeviceAssumption, Shape, Reopening, [Next]_vars, NEW s \in Sessions
  PROVE  SessionFits(s)'
<1>0. /\ SessionFits(s) /\ LedgersGrow /\ StatusChange
      /\ captured \subseteq captured'
      /\ \A t \in captured' : t \in captured \/ (t \in creating /\ t \notin creating' /\ status'[t] = "active")
      /\ \A t \in creating' : t \in creating \/ status[t] = "absent"
  BY SessionStep DEF Reopening
<1>1. s \in captured' => s \notin creating' /\ status'[s] # "absent"
  <2>1. status'[s] # status[s] => status'[s] # "absent"
    BY <1>0 DEF StatusChange
  <2>. QED BY <1>0, <2>1 DEF SessionFits
<1>2. s \notin captured' => Indices(s)' = {}
  <2>1. ASSUME NEW a \in Actors, Records(a), on[a] = s PROVE s \in captured
    <3>1. pc[a] \in StartLabels
      BY <2>1 DEF StartLabels, Records, StartRecordProcess, StartRecordReverse, StartRecordProxy, StartRecord
    <3>. QED BY <2>1, <3>1 DEF Reopening, Progress
  <2>. QED BY <1>0, <2>1 DEF SessionFits, LedgersGrow
<1>3. ASSUME status'[s] = "cleaned" PROVE Unsettled(s)' \subseteq StopIds(s)'
  <2>1. CASE status[s] = "cleaned"
    <3>1. StopIds(s)' = StopIds(s)
      <4>1. ASSUME NEW a \in Actors, StartRunning(a), on[a] = s PROVE FALSE
        BY <2>1, <4>1 DEF StartRunning, Reopening, Progress, Open, StartLabels
      <4>. QED BY <4>1, StopIdsStep
    <3>2. ASSUME NEW i \in Unsettled(s)' PROVE i \in StopIds(s)
      <4>1. ASSUME NEW a \in Actors, Records(a), on[a] = s PROVE FALSE
        BY <2>1, <4>1, RecordGrow
      <4>2. ASSUME NEW a \in Actors, Mark(a), on[a] = s, i = frame[a].current PROVE i \in StopIds(s)
        <5>1. Progress(a, s) /\ pc[a] = "mark"
          BY <4>2 DEF Reopening, Mark
        <5>. QED BY <2>1, <4>2, <5>1 DEF Progress, Open, ExecutingLabels
      <4>. QED BY <1>0, <2>1, <4>1, <4>2 DEF LedgersGrow, SessionFits
    <3>. QED BY <3>1, <3>2
  <2>2. CASE status[s] # "cleaned"
    <3>1. PICK a \in Actors : EndCleanup(a) /\ on[a] = s /\ Unsettled(s) = {}
      BY <1>0, <1>3, <2>2 DEF StatusChange
    <3>2. Unsettled(s)' = {}
      BY <3>1 DEF EndCleanup, SetStatus, Unsettled, Indices
    <3>. QED BY <3>2
  <2>. QED BY <2>1, <2>2
<1>. QED BY <1>1, <1>2, <1>3 DEF SessionFits

LEMMA ReopeningStep ==
  ASSUME DeviceAssumption, ActorAssumption, Shape, Reopening, [Next]_vars
  PROVE  Reopening'
<1>1. ASSUME NEW a \in Actors, NEW s \in Sessions, on'[a] = s PROVE Progress(a, s)'
  <2>1. CASE Still(a)
    BY <1>1, <2>1, StillProgress DEF Still
  <2>2. CASE Acts(a)
    BY <1>1, <2>2, StartProgress, StopProgress DEF Progress
  <2>. QED BY <2>1, <2>2, StepCases
<1>2. \A s \in Sessions : SessionFits(s)'
  BY SessionFitsStep
<1>. QED BY <1>1, <1>2 DEF Reopening

LEMMA ReactivatedStep ==
  ASSUME DeviceAssumption, Shape, Reopening, [Next]_vars, NEW s \in Sessions,
         status[s] = "cleaned", status'[s] = "active"
  PROVE  Unsettled(s) = {}
<1>1. StatusChange /\ SessionFits(s)
  BY SessionStep DEF Reopening
<1>2. CASE s \in creating
  BY <1>1, <1>2 DEF SessionFits, Unsettled
<1>3. ASSUME NEW a \in Actors, EndRollback(a), on[a] = s PROVE FALSE
  BY <1>3 DEF EndRollback, Reopening, Progress, Open
<1>4. ASSUME NEW a \in Actors, StopActivate(a), on[a] = s PROVE Unsettled(s) = {}
  <2>1. Progress(a, s) /\ pc[a] = "activate"
    BY <1>4 DEF StopActivate, Reopening
  <2>. QED BY <1>1, <2>1 DEF Progress, SessionFits
<1>. QED BY <1>1, <1>2, <1>3, <1>4 DEF StatusChange

\* A session that becomes active again after it was cleaned owes nothing: a stop
\* that ends late sets the session active only after every action that
\* state.json names was settled, and a cleaned session owes no other.
THEOREM ReactivationIsClean == Spec => ReactivatedOwesNothing
<1>1. Init => Shape /\ Reopening
  <2>1. Init => Reopening
    <3>1. ASSUME Init
          PROVE  /\ captured = {} /\ \A s \in Sessions : Indices(s) = {} /\ status[s] = "absent"
                 /\ \A a \in Actors : pc[a] = "idle"
      BY <3>1 DEF Init, SessionInit, Indices
    <3>. QED BY <3>1 DEF Reopening, SessionFits, Progress, Open, StartLabels, ExecutingLabels
  <2>. QED BY <2>1, DeviceAssumption, ActorAssumption, InitShape
<1>2. Shape /\ Reopening /\ [Next]_vars => Shape' /\ Reopening'
  BY DeviceAssumption, ActorAssumption, NextShape, ReopeningStep
<1>3. Shape /\ Reopening /\ [Next]_vars =>
        [\A s \in Sessions : status[s] = "cleaned" /\ status'[s] = "active" => Unsettled(s) = {}]_vars
  BY DeviceAssumption, ReactivatedStep
<1>. QED BY <1>1, <1>2, <1>3, PTL DEF Spec, ReactivatedOwesNothing

(***************************************************************************)
(* The settings of others.  What an operation decided on is still so when  *)
(* it writes, if nobody acts in between (Gaps).                            *)
(***************************************************************************)
\* Between reading the proxy, or the mappings, and writing it, an operation still
\* has what it read.
Unraced(a) ==
  /\ pc[a] \in {"recordProxy", "putProxy"} => frame[a].prev = proxy
  /\ pc[a] \in {"spawn", "recordProcess", "recordReverse", "addReverse"} => reverse[frame[a].port] # "other"
  /\ pc[a] = "apply" /\ Action(a).kind = "proxy" => proxy = Action(a).port
  /\ pc[a] = "apply" /\ Action(a).kind = "reverse" => reverse[Action(a).port] = "own"
Gaps == \A a \in Actors : Unraced(a)

\* The device stands still in the gaps of an operation that does.
LEMMA StillUnraced ==
  ASSUME DeviceAssumption, Shape, Gaps, [Next]_vars, ~Racing, NEW a \in Actors, Still(a)
  PROVE  Unraced(a)'
<1>1. ProxyChange /\ ReverseChange /\ LedgersKept /\ Unraced(a)
  BY DeviceStep, LedgerStep DEF Gaps
<1>2. pc'[a] = pc[a] /\ on'[a] = on[a] /\ frame'[a] = frame[a]
  BY DEF Still
<1>3. ASSUME pc[a] = "apply" PROVE Action(a)' = Action(a)
  BY <1>1, <1>2, <1>3, InHand DEF Action, LedgersKept
<1>4. ASSUME NEW b \in Actors, StartPutProxy(b) \/ Apply(b) \/ StartAddReverse(b),
             pc[a] \notin {"idle", "startLock", "stopLock"}
      PROVE  FALSE
  <2>1. pc[b] \in {"putProxy", "apply", "addReverse"} /\ pc'[b] # pc[b]
    BY <1>4 DEF StartPutProxy, Apply, StartAddReverse, StartChanged, Goto, Shape, TypeOK
  <2>2. a = b
    BY <1>4, <2>1, LockHolder
  <2>. QED BY <1>2, <2>1, <2>2
<1>5. ASSUME InProxyGap(a) PROVE proxy' = proxy
  <2>1. pc[a] \notin {"idle", "startLock", "stopLock"}
    BY <1>5 DEF InProxyGap
  <2>2. Interference => proxy' = proxy
    BY <1>5 DEF Interference
  <2>. QED BY <1>1, <1>4, <2>1, <2>2 DEF ProxyChange
<1>6. ASSUME InReverseGap(a), NEW p \in Ports PROVE reverse'[p] = reverse[p]
  <2>1. pc[a] \notin {"idle", "startLock", "stopLock"}
    BY <1>6 DEF InReverseGap
  <2>2. Interference => reverse' = reverse
    BY <1>6 DEF Interference
  <2>. QED BY <1>1, <1>4, <2>1, <2>2 DEF ReverseChange
<1>7. pc[a] = "apply" => Action(a).port \in Ports
  BY InHand
<1>8. pc[a] \in {"spawn", "recordProcess", "recordReverse", "addReverse"} => frame[a].port \in Ports
  BY DEF Shape, ActorFits, StartLabels
<1>. QED BY <1>1, <1>2, <1>3, <1>5, <1>6, <1>7, <1>8 DEF Unraced, InProxyGap, InReverseGap

\* What an operation reads is what it goes on with.
LEMMA ActsUnraced ==
  ASSUME DeviceAssumption, Shape, Gaps, [Next]_vars, NEW a \in Actors, Acts(a)
  PROVE  Unraced(a)'
<1>0. Arrival(a) /\ Unraced(a) /\ frame[a] \in Frames
  BY Arrivals, UnderWay DEF Gaps
<1>1. ASSUME pc'[a] \in {"recordProxy", "putProxy"} PROVE frame'[a].prev = proxy'
  <2>1. CASE StartReadProxy(a)
    <3>1. proxy' = proxy /\ frame' = [frame EXCEPT ![a].prev = proxy]
      BY <2>1 DEF StartReadProxy, deviceVars
    <3>. QED BY <1>0, <3>1 DEF Shape, TypeOK, Frames
  <2>2. CASE StartRecordProxy(a)
    <3>1. pc[a] = "recordProxy" /\ frame'[a].prev = frame[a].prev
      BY <2>2, RecordCases, RecordStep
    <3>2. proxy' = proxy
      BY <2>2 DEF StartRecordProxy, StartRecord, deviceVars
    <3>. QED BY <1>0, <3>1, <3>2 DEF Unraced
  <2>. QED BY <1>0, <1>1, <2>1, <2>2 DEF Arrival
<1>2. ASSUME pc'[a] \in {"spawn", "recordProcess", "recordReverse", "addReverse"}
      PROVE  reverse'[frame'[a].port] # "other"
  <2>1. CASE StartLock(a)
    <3>1. /\ reverse' = reverse /\ reverse[frame[a].port] # "other"
          /\ \E r : frame' = [frame EXCEPT ![a] = [frame[a] EXCEPT !.adopt = r]]
      BY <2>1 DEF StartLock, deviceVars, Shape, TypeOK
    <3>. QED BY <1>0, <3>1 DEF Shape, TypeOK, Frames
  <2>2. CASE StartSpawn(a)
    <3>1. /\ reverse' = reverse /\ pc[a] = "spawn"
          /\ frame' = [frame EXCEPT ![a] = [frame[a] EXCEPT !.proc = spawned + 1]]
      BY <2>2 DEF StartSpawn, Spawn, Shape, TypeOK
    <3>2. frame'[a].port = frame[a].port
      BY <1>0, <3>1 DEF Shape, TypeOK, Frames
    <3>. QED BY <1>0, <3>1, <3>2 DEF Unraced
  <2>3. CASE StartRecordProcess(a) \/ StartRecordReverse(a)
    <3>1. pc[a] \in {"recordProcess", "recordReverse"} /\ frame'[a].port = frame[a].port
      BY <2>3, RecordCases, RecordStep
    <3>2. reverse' = reverse
      BY <2>3 DEF StartRecordProcess, StartRecordReverse, StartRecord, deviceVars
    <3>. QED BY <1>0, <3>1, <3>2 DEF Unraced
  <2>. QED BY <1>0, <1>2, <2>1, <2>2, <2>3 DEF Arrival
<1>3. ASSUME pc'[a] = "apply"
      PROVE  /\ Action(a)'.kind = "proxy" => proxy' = Action(a)'.port
             /\ Action(a)'.kind = "reverse" => reverse'[Action(a)'.port] = "own"
  <2>1. Decide(a)
    BY <1>0, <1>3 DEF Arrival
  <2>2. PICK i \in frame[a].todo :
          /\ i \in Indices(on[a]) /\ on[a] \in Sessions
          /\ frame'[a].current = i /\ on'[a] = on[a] /\ UNCHANGED <<sessionVars, deviceVars>>
          /\ DeviceVerdict(on[a], ledger[on[a]][i].action) = "apply"
    BY <1>3, <2>1, DecideStep
  <2>. DEFINE e == ledger[on[a]][i].action
  <2>3. Action(a)' = e /\ proxy' = proxy /\ reverse' = reverse
    BY <2>2 DEF Action, sessionVars, deviceVars
  <2>4. e.port \in Ports
    BY <2>2, UnderWay, ActionFacts DEF Points
  <2>5. reverse[e.port] \in {"none", "own", "other"}
    BY <2>4, UnderWay DEF DeviceTypeOK
  <2>. HIDE DEF e
  <2>6. DeviceVerdict(on[a], e) = "apply"
    BY <2>2 DEF e
  <2>7. ASSUME e.kind = "proxy" PROVE proxy = e.port
    <3>1. ProxyVerdict(on[a], e, proxy) = "apply"
      BY <2>6, <2>7 DEF DeviceVerdict
    <3>. QED BY <3>1 DEF ProxyVerdict
  <2>8. ASSUME e.kind = "reverse" PROVE reverse[e.port] = "own"
    <3>1. ReverseVerdict(reverse[e.port]) = "apply"
      BY <2>6, <2>8 DEF DeviceVerdict
    <3>. QED BY <2>5, <3>1 DEF ReverseVerdict
  <2>. QED BY <2>3, <2>7, <2>8
<1>. QED BY <1>1, <1>2, <1>3 DEF Unraced

LEMMA ForeignKeptStep ==
  ASSUME DeviceAssumption, Shape, Gaps, [Next]_vars
  PROVE  ForeignKept
<1>1. SUFFICES ASSUME externals' = externals
               PROVE  /\ proxy \in External /\ proxy' # proxy => Remembered(proxy)
                      /\ \A p \in Ports : reverse[p] = "other" => reverse'[p] = "other"
  BY DEF ForeignKept
<1>2. ~Interference
  <2>1. DeviceTypeOK /\ externals \in Nat
    BY UnderWay DEF Shape, TypeOK, DeviceTypeOK, DeviceAssumption
  <2>. QED BY <1>1, <2>1, EnvironmentStep DEF Interference
<1>3. ProxyChange /\ ReverseChange
  BY DeviceStep
<1>4. ASSUME proxy \in External, proxy' # proxy PROVE Remembered(proxy)
  <2>1. ASSUME NEW a \in Actors, pc[a] = "apply", Action(a).kind = "proxy" PROVE FALSE
    BY <1>4, <2>1, InHand DEF Gaps, Unraced, DeviceAssumption
  <2>. QED BY <1>2, <1>3, <1>4, <2>1 DEF ProxyChange, Gaps, Unraced, Remembered
<1>5. ASSUME NEW p \in Ports, reverse[p] = "other" PROVE reverse'[p] = "other"
  BY <1>2, <1>3, <1>5 DEF ReverseChange, Gaps, Unraced
<1>. QED BY <1>4, <1>5

\* When nobody acts between an operation's read and its write, the framework
\* changes no mapping that somebody else made, and no proxy that somebody else set
\* without remembering it: StartLock looks at the mappings, the handlers of
\* cleanup compare before they restore.
THEOREM ForeignSettingsKept == ASSUME ~Racing PROVE Spec => NoExternalOverwrite
<1>1. Init => Shape /\ Gaps
  <2>1. Init => Gaps
    BY DEF Init, Gaps, Unraced
  <2>. QED BY <2>1, DeviceAssumption, ActorAssumption, InitShape
<1>2. Shape /\ Gaps /\ [Next]_vars => Shape' /\ Gaps'
  <2>1. Shape /\ Gaps /\ [Next]_vars => Gaps'
    <3>1. ASSUME Shape, Gaps, [Next]_vars, NEW a \in Actors PROVE Unraced(a)'
      BY <3>1, DeviceAssumption, StepCases, StillUnraced, ActsUnraced
    <3>. QED BY <3>1 DEF Gaps
  <2>. QED BY <2>1, DeviceAssumption, ActorAssumption, NextShape
<1>3. Shape /\ Gaps /\ [Next]_vars => [ForeignKept]_vars
  BY DeviceAssumption, ForeignKeptStep
<1>. QED BY <1>1, <1>2, <1>3, PTL DEF Spec, NoExternalOverwrite

(***************************************************************************)
(* The way back.  Whatever a capture does to the proxy, some ledger owes   *)
(* an action that puts back what others set last, until that is done.      *)
(***************************************************************************)
\* Action e of a ledger leads back to the proxy value v.
LeadsTo(e, v) == e.kind = "proxy" /\ e.prev = v

ReturnOwed ==
  proxy = foreign \/ \E s \in Sessions : \E i \in Unsettled(s) : LeadsTo(ledger[s][i].action, foreign)

\* What an actor is about to overwrite is in its ledger, and what it is about to
\* mark as settled has been put back, unless others changed the proxy since.
ActorReturns(a) ==
  /\ pc[a] = "putProxy" => \E i \in Unsettled(on[a]) : LeadsTo(ledger[on[a]][i].action, frame[a].prev)
  /\ pc[a] = "mark" /\ frame[a].verdict \in Settled /\ Action(a).kind = "proxy" =>
       proxy \in {foreign, Action(a).prev}

WayBack == ReturnOwed /\ \A a \in Actors : ActorReturns(a)

\* What only others change.
LEMMA OthersVars ==
  ASSUME Shape, NEW a \in Actors, Acts(a)
  PROVE  UNCHANGED <<foreign, reused, externals>>
<1>1. CASE Apply(a)
  <2>1. UNCHANGED deviceVars \/ \E took \in BOOLEAN : Effect(Action(a), took)
    BY <1>1 DEF Apply
  <2>. QED BY <2>1 DEF deviceVars, Effect, PutSetting, SetReverse, Terminate
<1>2. CASE StartSpawn(a) \/ StartDropProcess(a)
  BY <1>2 DEF StartSpawn, StartDropProcess, Spawn, Terminate, deviceVars
<1>3. CASE StartAddReverse(a) \/ StartPutProxy(a)
  BY <1>3 DEF StartAddReverse, StartPutProxy, SetReverse, PutSetting
<1>4. CASE UNCHANGED deviceVars
  BY <1>4 DEF deviceVars
<1>. QED BY <1>1, <1>2, <1>3, <1>4, DeviceLeft

\* Only others change what others set last, and then the proxy is that.
LEMMA ForeignStep ==
  ASSUME Shape, [Next]_vars
  PROVE  foreign' = foreign \/ (proxy' = foreign' /\ Interference)
<1>1. ASSUME NEW a \in Actors, Acts(a)
      PROVE  foreign' = foreign
  BY <1>1, OthersVars
<1>2. CASE Interference
  <2>1. Environment
    BY <1>2 DEF Interference
  <2>2. foreign' = foreign \/ proxy' = foreign'
    BY <2>1 DEF Environment, ProxyChanged, ReversesLost, ReverseTaken, ProcessExits, PidReused
  <2>. QED BY <1>2, <2>2
<1>3. UNCHANGED deviceVars => foreign' = foreign
  BY DEF deviceVars
<1>. QED BY <1>1, <1>2, <1>3, StepCases

\* Who is past the first steps of an operation moves the proxy, or others do.
LEMMA ProxyMoves ==
  ASSUME DeviceAssumption, Shape, Gaps, [Next]_vars, proxy' # proxy, ~Interference
  PROVE  \/ \E a \in Actors : pc[a] = "putProxy" /\ frame[a].prev = proxy /\ on[a] \in Sessions
         \/ \E a \in Actors : /\ pc[a] = "apply" /\ Action(a).kind = "proxy"
                              /\ proxy \in Ports
<1>1. ASSUME NEW a \in Actors, pc[a] = "putProxy" PROVE frame[a].prev = proxy /\ on[a] \in Sessions
  BY <1>1, UnderWay DEF Gaps, Unraced
<1>2. ASSUME NEW a \in Actors, pc[a] = "apply", Action(a).kind = "proxy" PROVE proxy \in Ports
  BY <1>2, InHand DEF Gaps, Unraced
<1>. QED BY <1>1, <1>2, DeviceStep DEF ProxyChange

\* When others change the proxy, it is what they set.
LEMMA InterferenceMoves ==
  ASSUME Interference, proxy' # proxy
  PROVE  proxy' = foreign'
BY DEF Interference, Environment, ProxyChanged, ReversesLost, ReverseTaken, ProcessExits, PidReused

\* The way back is not lost.
LEMMA ReturnOwedStep ==
  ASSUME DeviceAssumption, Shape, Gaps, WayBack, [Next]_vars
  PROVE  ReturnOwed'
<1>0. LedgersKept /\ foreign \notin Ports
  BY LedgerStep, UnderWay DEF Shape, TypeOK, DeviceTypeOK, DeviceAssumption
<1>1. CASE proxy' = foreign'
  BY <1>1 DEF ReturnOwed
<1>2. CASE proxy' # foreign'
  <2>1. foreign' = foreign
    BY <1>2, ForeignStep
  <2>2. ~Interference \/ proxy' = proxy
    BY <1>2, <2>1, InterferenceMoves
  <2>3. \E s \in Sessions : \E i \in Unsettled(s) :
          LeadsTo(ledger[s][i].action, foreign) /\ ~\E a \in Actors : Settles(a, s, i)
    <3>1. ASSUME NEW s \in Sessions, NEW i \in Unsettled(s), LeadsTo(ledger[s][i].action, foreign),
                 NEW a \in Actors, Settles(a, s, i)
          PROVE  FALSE
      <4>1. Action(a) = ledger[s][i].action /\ pc[a] = "mark" /\ frame[a].verdict \in Settled
        BY <3>1 DEF Settles, Action
      <4>2. proxy = foreign
        BY <3>1, <4>1 DEF WayBack, ActorReturns, LeadsTo
      <4>3. proxy' # proxy /\ ~Interference
        BY <1>2, <2>1, <2>2, <4>2
      <4>4. PICK b \in Actors : pc[b] \in {"putProxy", "apply"}
        BY <4>3, ProxyMoves
      <4>. QED BY <4>1, <4>4, LockHolder
    <3>2. CASE proxy # foreign
      BY <3>1, <3>2 DEF WayBack, ReturnOwed
    <3>3. CASE proxy = foreign
      <4>1. proxy' # proxy /\ ~Interference /\ proxy \notin Ports
        BY <1>0, <1>2, <2>1, <2>2, <3>3
      <4>2. PICK a \in Actors : pc[a] = "putProxy" /\ frame[a].prev = foreign /\ on[a] \in Sessions
        BY <3>3, <4>1, ProxyMoves
      <4>. QED BY <3>1, <4>2 DEF WayBack, ActorReturns
    <3>. QED BY <3>2, <3>3
  <2>. PICK s \in Sessions : \E i \in Unsettled(s) :
         LeadsTo(ledger[s][i].action, foreign) /\ ~\E a \in Actors : Settles(a, s, i)
    BY <2>3
  <2>4. PICK i \in Unsettled(s) :
          LeadsTo(ledger[s][i].action, foreign) /\ ~\E a \in Actors : Settles(a, s, i)
    OBVIOUS
  <2>5. i \in Unsettled(s)' /\ ledger'[s][i].action = ledger[s][i].action
    BY <1>0, <2>4 DEF LedgersKept, Unsettled
  <2>. QED BY <2>1, <2>4, <2>5 DEF ReturnOwed
<1>. QED BY <1>1, <1>2

\* What an actor is about to overwrite, and what it is about to mark.
LEMMA ActorReturnsStep ==
  ASSUME DeviceAssumption, Shape, Gaps, WayBack, [Next]_vars, NEW a \in Actors
  PROVE  ActorReturns(a)'
<1>0. LedgersKept /\ ActorReturns(a)
  BY LedgerStep DEF WayBack
<1>1. CASE Still(a)
  <2>1. pc'[a] = pc[a] /\ on'[a] = on[a] /\ frame'[a] = frame[a]
    BY <1>1 DEF Still
  <2>2. ASSUME pc[a] = "putProxy"
        PROVE  \E i \in Unsettled(on[a])' : LeadsTo(ledger'[on[a]][i].action, frame[a].prev)
    <3>1. on[a] \in Sessions
      BY <2>2, UnderWay
    <3>2. PICK i \in Unsettled(on[a]) : LeadsTo(ledger[on[a]][i].action, frame[a].prev)
      BY <1>0, <2>2 DEF ActorReturns
    <3>3. ~\E b \in Actors : Settles(b, on[a], i)
      BY <2>2, LockHolder DEF Settles
    <3>4. i \in Unsettled(on[a])' /\ ledger'[on[a]][i].action = ledger[on[a]][i].action
      BY <1>0, <2>1, <3>1, <3>2, <3>3 DEF LedgersKept, Unsettled, Indices
    <3>. QED BY <3>2, <3>4
  <2>3. ASSUME pc[a] = "mark", frame[a].verdict \in Settled, Action(a)'.kind = "proxy"
        PROVE  proxy' \in {foreign', Action(a)'.prev}
    <3>1. Action(a)' = Action(a)
      BY <1>0, <2>1, <2>3, InHand DEF Action, LedgersKept
    <3>2. proxy \in {foreign, Action(a).prev}
      BY <1>0, <2>3, <3>1 DEF ActorReturns
    <3>3. proxy' # proxy => Interference
      <4>1. ASSUME NEW b \in Actors, pc[b] \in {"putProxy", "apply"} PROVE FALSE
        BY <2>3, <4>1, LockHolder
      <4>. QED BY <4>1, ProxyMoves
    <3>. QED BY <3>1, <3>2, <3>3, InterferenceMoves, ForeignStep
  <2>. QED BY <2>1, <2>2, <2>3 DEF ActorReturns, Unsettled, Indices
<1>2. CASE Acts(a)
  <2>0. Arrival(a)
    BY <1>2, Arrivals
  <2>1. ASSUME pc'[a] = "putProxy"
        PROVE  \E i \in Unsettled(on[a])' : LeadsTo(ledger'[on'[a]][i].action, frame'[a].prev)
    <3>1. StartRecordProxy(a)
      BY <2>0, <2>1 DEF Arrival
    <3>2. /\ on'[a] = on[a] /\ on[a] \in Sessions /\ frame'[a].prev = frame[a].prev
          /\ NewlyOwed(a, "proxy", frame[a].prev)
      BY <3>1, RecordCases, RecordStep
    <3>. PICK s \in Sessions : s = on[a]
      BY <3>2
    <3>3. \E i \in Unsettled(s)' : LeadsTo(ledger'[s][i].action, frame[a].prev)
      BY <3>2 DEF NewlyOwed, LeadsTo
    <3>. QED BY <3>2, <3>3 DEF Unsettled, Indices
  <2>2. ASSUME pc'[a] = "mark", frame'[a].verdict \in Settled, Action(a)'.kind = "proxy"
        PROVE  proxy' = Action(a)'.prev
    <3>1. CASE Decide(a)
      <4>1. PICK i \in frame[a].todo :
              /\ i \in Indices(on[a]) /\ on[a] \in Sessions
              /\ frame'[a].current = i /\ on'[a] = on[a] /\ UNCHANGED <<sessionVars, deviceVars>>
              /\ \/ DeviceVerdict(on[a], ledger[on[a]][i].action) = "skipped"
                 \/ ledger[on[a]][i].action.kind = "process"
        BY <2>2, <3>1, DecideStep
      <4>. DEFINE e == ledger[on[a]][i].action
      <4>2. Action(a)' = e /\ proxy' = proxy
        BY <4>1 DEF Action, sessionVars, deviceVars
      <4>3. e.kind = "proxy" => proxy = e.prev
        BY <4>1 DEF DeviceVerdict, ProxyVerdict
      <4>. HIDE DEF e
      <4>. QED BY <2>2, <4>2, <4>3
    <3>2. CASE Apply(a)
      <4>1. Action(a)' = Action(a)
        BY <3>2, ApplyStep DEF Action, sessionVars
      <4>. QED BY <2>2, <3>2, <4>1, ApplyStep
    <3>. QED BY <2>0, <2>2, <3>1, <3>2 DEF Arrival
  <2>3. (proxy \in {foreign, Action(a).prev})' <=> proxy' \in {foreign', Action(a)'.prev}
    OBVIOUS
  <2>. QED BY <2>1, <2>2, <2>3 DEF ActorReturns
<1>. QED BY <1>1, <1>2, StepCases

\* When nobody acts between an operation's read and its write, the proxy is what
\* others made it last as soon as every ledger is settled: an action is recorded
\* with the value it will overwrite, and is settled only once that value is back
\* or somebody else has chosen another.  Neither failing calls, nor actors that
\* die, nor an operation on the actions of another session change that.
THEOREM SettledIsRestored == ASSUME ~Racing PROVE Spec => []SettledMeansRestored
<1>. DEFINE I == Shape /\ Gaps /\ WayBack
<1>1. Init => I
  <2>1. Init => Gaps
    BY DEF Init, Gaps, Unraced
  <2>2. Init => WayBack
    BY DEF Init, DeviceInit, WayBack, ReturnOwed, ActorReturns
  <2>. QED BY <2>1, <2>2, DeviceAssumption, ActorAssumption, InitShape
<1>2. I /\ [Next]_vars => I'
  <2>1. ASSUME Shape, Gaps, WayBack, [Next]_vars PROVE Gaps'
    <3>1. ASSUME NEW a \in Actors PROVE Unraced(a)'
      BY <2>1, <3>1, DeviceAssumption, StepCases, StillUnraced, ActsUnraced
    <3>. QED BY <3>1 DEF Gaps
  <2>2. ASSUME Shape, Gaps, WayBack, [Next]_vars PROVE WayBack'
    BY <2>2, DeviceAssumption, ReturnOwedStep, ActorReturnsStep DEF WayBack
  <2>. QED BY <2>1, <2>2, DeviceAssumption, ActorAssumption, NextShape
<1>3. I => SettledMeansRestored
  BY DEF WayBack, ReturnOwed, SettledMeansRestored, AllSettled
<1>. QED BY <1>1, <1>2, <1>3, PTL DEF Spec

(***************************************************************************)
(* While nothing fails, dies or interferes: a start or a stop is the only  *)
(* operation that has anything to do, one session is captured at a time,   *)
(* and what stop gives back is what the start of that capture applied.     *)
(***************************************************************************)
Calm == faults = 0 /\ crashes = 0 /\ externals = 0
IsRunning(s) == cap[s].status = "running"

\* Past the first steps of an operation, where the device lock is held.
Deep(a) == pc[a] \notin {"idle", "startLock", "stopLock"}
StoppingLabels == ExecutingLabels \cup {"evidence", "stopped"}

NoneMeddled == reused = {} /\ \A p \in Ports : reverse[p] # "other"
NoneFailed == \A s \in Sessions : \A i \in Unsettled(s) : ledger[s][i].status = "pending"

\* No operation fails, and the next action of a stop finds the device as applied.
GoesWell(a) ==
  /\ pc[a] \notin {"rollback", "endRollback"}
  /\ ~frame[a].errors
  /\ pc[a] \in {"stopLock", "stop"} \cup ExecutingLabels => frame[a].ready
  /\ pc[a] \in ExecutingLabels => frame[a].phase = "stop"
  /\ pc[a] \in {"apply", "mark"} => frame[a].verdict \in Settled
  /\ pc[a] = "apply" /\ Action(a).kind = "process" => Alive(Action(a).proc)
  /\ pc[a] \in {"stop"} \cup StoppingLabels => IsRunning(on[a])
  /\ pc[a] \in {"cleanup", "endCleanup", "activate"} => ~IsRunning(on[a])
  /\ pc[a] \in ExecutingLabels =>
       \A i \in frame[a].todo :
         /\ ledger[on[a]][i].action.kind = "proxy"
         /\ i # frame[a].current \/ pc[a] = "next"
         => ledger[on[a]][i].action.port = proxy

\* A capture that works, and the ids by which state.json names its actions.
Works(s) ==
  \E x \in alive :
    /\ proxy = x.port /\ reverse[x.port] = "own"
    /\ cap[s].ids["process"] \in Unsettled(s)
    /\ ledger[s][cap[s].ids["process"]].action.proc = x.id
    /\ "proxy" \in cap[s].made => ledger[s][cap[s].ids["proxy"]].action.port = x.port
KindsFit(s) ==
  \A k \in {"process"} \cup cap[s].made : ledger[s][cap[s].ids[k]].action.kind = k

\* A session that is captured, and one that is not.
Captured(s) ==
  /\ status[s] # "cleaned" /\ Unsettled(s) \subseteq StopIds(s) /\ KindsFit(s)
  /\ \A t \in Sessions : IsRunning(t) => t = s
  /\ Works(s) \/ \E a \in Actors : on[a] = s /\ pc[a] \in StoppingLabels
RunsWell(s) ==
  /\ cap[s].status # "stop_failed"
  /\ IsRunning(s) => Captured(s)
  /\ ~IsRunning(s) => Unsettled(s) = {} \/ \E a \in Actors : on[a] = s /\ pc[a] \in StartLabels

\* How far a start with the locals f has come at step l.
Begun(l, f, s) ==
  /\ \A t \in Sessions : ~IsRunning(t)
  /\ \A i \in Unsettled(s) : \E k \in Kinds : i = f.ids[k]
  /\ \A k \in Kinds : f.ids[k] # 0 =>
       /\ \/ k \in f.made \cup {"process"}
          \/ k = "reverse" /\ l = "addReverse"
          \/ k = "proxy" /\ l = "putProxy"
       /\ ledger[s][f.ids[k]].action.kind = k
       /\ ledger[s][f.ids[k]].action.port = f.port
       /\ ledger[s][f.ids[k]].action.proc = f.proc
  /\ l # "spawn" => [id |-> f.proc, port |-> f.port] \in alive
  /\ l \notin {"spawn", "recordProcess"} => f.ids["process"] \in Unsettled(s)
  /\ l \in {"spawn", "recordProcess", "recordReverse"} => f.ids["reverse"] = 0
  /\ l \notin {"putProxy", "running"} => f.ids["proxy"] = 0
  /\ l \in {"readProxy", "recordProxy", "putProxy", "running"} \/ f.adopt => reverse[f.port] = "own"
  /\ l = "running" => proxy = f.port
StartsWell(a) == pc[a] \in StartLabels => Begun(pc[a], frame[a], on[a])

Working ==
  /\ NoneMeddled /\ NoneFailed
  /\ \A a \in Actors : GoesWell(a) /\ StartsWell(a)
  /\ \A s \in Sessions : RunsWell(s)

\* A step in such a state, to another.
CalmStep ==
  /\ Shape /\ Shape' /\ Reopening /\ Announced /\ Working
  /\ Calm /\ Calm' /\ [Next]_vars

\* Failures and the doings of others are counted.
LEMMA FaultsCounted ==
  ASSUME ActorAssumption, Shape, [Next]_vars
  PROVE  faults \in Nat /\ faults' \in {faults, faults + 1}
<1>0. faults \in Nat
  BY DEF Shape, TypeOK, ActorAssumption
<1>. USE DEF NoFault, Fault, Spare
<1>1. ASSUME NEW a \in Actors, Acts(a) PROVE faults' \in {faults, faults + 1}
  <2>1. CASE Call(a) \/ Crash(a)
    BY <2>1 DEF Call, Crash, StartRequest, StopRequest, CleanupLock
  <2>2. CASE ExecutorStep(a)
    BY <2>2 DEF ExecutorStep, Decide, Apply, Mark, BeginRollback, EndRollback, ReturnCleaned,
                BeginCleanup, EndCleanup, Begin
  <2>3. CASE StartStep(a)
    BY <2>3 DEF StartStep, StartLock, StartRefused, StartSpawn, StartSpawnFails, StartReadProxy,
                StartRunning, StartRaises, StartDropProcess, StartAddReverse, StartPutProxy, StartChanged,
                StartRecordProcess, StartRecordReverse, StartRecordProxy, StartRecord
  <2>4. CASE StopStep(a)
    BY <2>4 DEF StopStep, StopRefused, StopLock, StopBegin, StopEvidence, StopPersist, StopRaises,
                StopActivate
  <2>. QED BY <1>1, <2>1, <2>2, <2>3, <2>4 DEF Acts, ActorStep
<1>2. UNCHANGED actorVars => faults' = faults
  BY DEF actorVars
<1>. QED BY <1>0, <1>1, <1>2, StepCases

LEMMA StaysCalm ==
  ASSUME DeviceAssumption, ActorAssumption, Shape, [Next]_vars, Calm'
  PROVE  /\ Calm /\ ~Interference /\ ~Fault /\ (\A n : ~Spare(n))
         /\ \A a \in Actors : ~Crash(a)
<1>1. /\ faults \in Nat /\ faults' \in {faults, faults + 1}
      /\ crashes \in Nat /\ crashes' \in {crashes, crashes + 1}
      /\ \A a \in Actors : Crash(a) => crashes' = crashes + 1
  BY FaultsCounted, CrashesCounted
<1>2. externals \in Nat /\ (Interference => externals' = externals + 1)
  <2>1. DeviceTypeOK /\ externals \in Nat
    BY DEF Shape, TypeOK, DeviceTypeOK, DeviceAssumption
  <2>. QED BY <2>1, EnvironmentStep DEF Interference
<1>3. Interference \/ externals' = externals
  <2>1. UNCHANGED deviceVars => externals' = externals
    BY DEF deviceVars
  <2>. QED BY <2>1, OthersVars, StepCases
<1>. QED BY <1>1, <1>2, <1>3 DEF Calm, Fault, Spare

\* What every step of a calm operation leaves as it is.
LEMMA CalmFacts ==
  ASSUME DeviceAssumption, ActorAssumption, CalmStep, NEW a \in Actors, Acts(a)
  PROVE  /\ ~Fault /\ (\A n : ~Spare(n)) /\ ~Crash(a)
         /\ LedgersKept /\ LedgersGrow /\ StatusChange /\ captured \subseteq captured'
         /\ \A b \in Actors \ {a} : Still(b)
         /\ pc \in [Actors -> Labels] /\ frame \in [Actors -> Frames] /\ frame[a] \in Frames
         /\ on \in [Actors -> Sessions \cup {NoSession}]
         /\ cap \in [Sessions -> Captures]
         /\ Deep(a) => on[a] \in Sessions
         /\ GoesWell(a) /\ StartsWell(a)
         /\ NoneMeddled'
<1>1. /\ ~Fault /\ (\A n : ~Spare(n)) /\ ~Crash(a) /\ ~Interference
      /\ LedgersKept /\ LedgersGrow /\ StatusChange /\ captured \subseteq captured'
      /\ \A b \in Actors \ {a} : Still(b)
  BY StaysCalm, LedgerStep, SessionStep, ActsAlone DEF CalmStep
<1>2. NoneMeddled'
  <2>1. reused' = reused /\ ReverseChange
    BY OthersVars, DeviceStep DEF CalmStep
  <2>. QED BY <1>1, <2>1 DEF NoneMeddled, ReverseChange, CalmStep, Working
<1>3. /\ pc \in [Actors -> Labels] /\ frame \in [Actors -> Frames] /\ frame[a] \in Frames
      /\ on \in [Actors -> Sessions \cup {NoSession}]
      /\ cap \in [Sessions -> Captures]
      /\ Deep(a) => on[a] \in Sessions
      /\ GoesWell(a) /\ StartsWell(a)
  BY UnderWay DEF CalmStep, Shape, TypeOK, CaptureTypeOK, Deep, Working
<1>. QED BY <1>1, <1>2, <1>3

\* Who holds the lock is the only one past its first steps.
LEMMA OnlyDeep ==
  ASSUME Shape, NEW a \in Actors, NEW b \in Actors \ {a}, Deep(a)
  PROVE  ~Deep(b)
  BY LockHolder DEF Deep

\* How far a start has come, said of the values.
LEMMA StartsWellAt ==
  ASSUME NEW a \in Actors, NEW l, NEW f, NEW s, l = pc'[a], f = frame'[a], s = on'[a],
         Begun(l, f, s)'
  PROVE  StartsWell(a)'
<1>1. Unsettled(on[a])' = Unsettled(s)'
  BY DEF Unsettled, Indices
<1>2. pc'[a] = l /\ frame'[a] = f /\ on'[a] = s
  OBVIOUS
<1>. QED BY <1>1, <1>2 DEF StartsWell, Begun

\* Who stands by has come as far as before.
LEMMA StandsBy ==
  ASSUME NEW a \in Actors, StartsWell(a), Still(a), UNCHANGED <<cap, ledger, deviceVars>>
  PROVE  StartsWell(a)'
<1>. PICK l, f, s : l = pc[a] /\ f = frame[a] /\ s = on[a]
  OBVIOUS
<1>1. l = pc'[a] /\ f = frame'[a] /\ s = on'[a]
  BY DEF Still
<1>2. CASE l \in StartLabels
  <2>1. Begun(l, f, s)
    BY <1>2 DEF StartsWell
  <2>2. Unsettled(s)' = Unsettled(s) /\ \A t \in Sessions : IsRunning(t)' = IsRunning(t)
    BY DEF Unsettled, Indices, IsRunning
  <2>3. UNCHANGED <<ledger, alive, reverse, proxy>>
    BY DEF deviceVars
  <2>4. Begun(l, f, s)'
    BY <2>1, <2>2, <2>3 DEF Begun
  <2>. QED BY <1>1, <2>4, StartsWellAt
<1>3. CASE l \notin StartLabels
  BY <1>1, <1>3 DEF StartsWell
<1>. QED BY <1>2, <1>3

\* The others stand by.
LEMMA OthersGoWell ==
  ASSUME DeviceAssumption, ActorAssumption, CalmStep, NEW a \in Actors, Acts(a),
         NEW b \in Actors \ {a}
  PROVE  Deep(a) \/ (UNCHANGED <<cap, ledger, deviceVars>>) => GoesWell(b)' /\ StartsWell(b)'
<1>1. Still(b) /\ GoesWell(b) /\ StartsWell(b)
  BY CalmFacts DEF CalmStep, Working
<1>2. CASE Deep(a)
  <2>1. pc'[b] \in {"idle", "startLock", "stopLock"}
    BY <1>1, <1>2, OnlyDeep DEF CalmStep, Still, Deep
  <2>. QED BY <1>1, <2>1 DEF GoesWell, StartsWell, Still, StartLabels, StoppingLabels, ExecutingLabels
<1>3. CASE UNCHANGED <<cap, ledger, deviceVars>>
  <2>1. GoesWell(b)'
    BY <1>1, <1>3 DEF GoesWell, Still, IsRunning, Action, Alive, deviceVars
  <2>2. StartsWell(b)'
    BY <1>1, <1>3, StandsBy
  <2>. QED BY <2>1, <2>2
<1>. QED BY <1>2, <1>3

\* When nobody holds the lock, every capture that runs works.
LEMMA NobodyDeep ==
  ASSUME ActorAssumption, Shape, Working, lock = NoActor, NEW s \in Sessions
  PROVE  /\ IsRunning(s) => Works(s) /\ PendingCleanup(s) /\ status[s] # "cleaned"
         /\ ~IsRunning(s) => Unsettled(s) = {}
         /\ \A a \in Actors : ~Deep(a)
<1>1. \A a \in Actors : ~Deep(a)
  BY UnderWay DEF Deep, ActorAssumption
<1>2. IsRunning(s) => Works(s) /\ status[s] # "cleaned"
  BY <1>1 DEF Working, RunsWell, Captured, Deep, StoppingLabels, ExecutingLabels
<1>3. Works(s) => PendingCleanup(s)
  BY DEF Works, Working, NoneFailed, PendingCleanup, Unsettled
<1>4. ~IsRunning(s) => Unsettled(s) = {}
  BY <1>1 DEF Working, RunsWell, Deep, StartLabels
<1>. QED BY <1>1, <1>2, <1>3, <1>4

\* A start that gets the lock finds nothing captured and nothing owed.
LEMMA StartAlone ==
  ASSUME ActorAssumption, DeviceAssumption, CalmStep, NEW a \in Actors, StartLock(a)
  PROVE  /\ on[a] \in Sessions /\ \A t \in Sessions : ~IsRunning(t)
         /\ \A s \in Sessions : s = on[a] => Unsettled(s) = {}
         /\ \A k \in Kinds : frame[a].ids[k] = 0
<1>1. pc[a] = "startLock" /\ lock = NoActor /\ MayStart(on[a]) /\ on[a] \in Sessions
  BY UnderWay DEF StartLock, CalmStep
<1>2. \A t \in Sessions : ~IsRunning(t)
  BY <1>1, NobodyDeep DEF MayStart, SlotFree, CalmStep, IsRunning
<1>3. \A k \in Kinds : frame[a].ids[k] = 0
  BY <1>1 DEF CalmStep, Announced, ActorAnnounces, Recorded
<1>. QED BY <1>1, <1>2, <1>3, NobodyDeep DEF CalmStep

\* The first steps of the operations.
LEMMA EarlyGoesWell ==
  ASSUME DeviceAssumption, ActorAssumption, CalmStep, NEW a \in Actors, Acts(a), ~Deep(a)
  PROVE  /\ UNCHANGED <<cap, sessionVars, deviceVars>>
         /\ GoesWell(a)' /\ StartsWell(a)'
<1>0. /\ pc \in [Actors -> Labels] /\ frame \in [Actors -> Frames] /\ frame[a] \in Frames
      /\ on \in [Actors -> Sessions \cup {NoSession}]
      /\ GoesWell(a) /\ ~Crash(a)
  BY CalmFacts
<1>1. \/ Call(a)
      \/ StartLock(a) \/ StartRefused(a) \/ StopRefused(a) \/ StopLock(a)
  BY <1>0 DEF Acts, ActorStep, Deep, ExecutorStep, StartStep, StopStep, Decide, Apply, Mark,
     BeginRollback, EndRollback, ReturnCleaned, BeginCleanup, EndCleanup, StartSpawn, StartSpawnFails,
     StartRecordProcess, StartRecordReverse, StartRecordProxy, StartRecord, StartAddReverse,
     StartReadProxy, StartPutProxy, StartRunning, StartRaises, StartDropProcess,
     StopBegin, StopEvidence, StopPersist, StopRaises, StopActivate
<1>2. UNCHANGED <<cap, sessionVars, deviceVars>>
  BY <1>1 DEF Call, StartRequest, StopRequest, CleanupLock, StartLock, StartRefused, StopRefused, StopLock
<1>3. CASE StartRefused(a) \/ StopRefused(a)
  <2>1. pc'[a] = "idle" /\ frame'[a] = IdleFrame
    BY <1>0, <1>3 DEF StartRefused, StopRefused, Return
  <2>. QED BY <1>2, <2>1 DEF GoesWell, StartsWell, IdleFrame, StartLabels, StoppingLabels, ExecutingLabels
<1>4. CASE Call(a)
  <2>1. PICK s \in Sessions : StartRequest(a, s) \/ StopRequest(a, s) \/ CleanupLock(a, s)
    BY <1>4 DEF Call
  <2>2. /\ pc'[a] \in {"startLock", "stopLock", "stop", "cleanup"}
        /\ on'[a] = s
        /\ pc'[a] = "stop" => IsRunning(s)
        /\ pc'[a] = "cleanup" => ~IsRunning(s)
    BY <1>0, <2>1 DEF StartRequest, StopRequest, CleanupLock, Goto, IsRunning
  <2>3. ~frame'[a].errors /\ frame'[a].ready
    <3>1. CASE StartRequest(a, s)
      <4>1. PICK p \in Ports : frame' = [frame EXCEPT ![a] = [[IdleFrame EXCEPT !.job = "start"] EXCEPT !.port = p]]
        BY <3>1 DEF StartRequest, FreePorts
      <4>2. frame'[a] = [[IdleFrame EXCEPT !.job = "start"] EXCEPT !.port = p]
        BY <1>0, <4>1
      <4>. QED BY <4>2 DEF IdleFrame
    <3>2. CASE StopRequest(a, s) \/ CleanupLock(a, s)
      <4>1. \E j : frame'[a] = [IdleFrame EXCEPT !.job = j]
        BY <1>0, <3>2 DEF StopRequest, CleanupLock
      <4>. QED BY <4>1 DEF IdleFrame
    <3>. QED BY <2>1, <3>1, <3>2
  <2>4. IsRunning(s)' = IsRunning(s)
    BY <1>2 DEF IsRunning
  <2>. QED BY <1>2, <2>2, <2>3, <2>4 DEF GoesWell, StartsWell, IsRunning, StartLabels, StoppingLabels, ExecutingLabels
<1>5. CASE StartLock(a)
  <2>1. /\ on[a] \in Sessions /\ \A t \in Sessions : ~IsRunning(t)
        /\ \A s \in Sessions : s = on[a] => Unsettled(s) = {}
        /\ \A k \in Kinds : frame[a].ids[k] = 0
    BY <1>5, StartAlone
  <2>. DEFINE r == reverse[frame[a].port] = "own"
              g == [frame[a] EXCEPT !.adopt = r]
  <2>2. pc'[a] = "spawn" /\ on'[a] = on[a] /\ frame'[a] = g
    BY <1>0, <1>5 DEF StartLock, Goto
  <2>3. ~g.errors /\ g.ids = frame[a].ids /\ g.port = frame[a].port /\ (g.adopt => reverse[g.port] = "own")
    BY <1>0 DEF GoesWell, Frames
  <2>. HIDE DEF g
  <2>4. GoesWell(a)'
    BY <2>2, <2>3 DEF GoesWell, StoppingLabels, ExecutingLabels
  <2>5. PICK s \in Sessions : s = on[a] /\ s = on'[a]
    BY <2>1, <2>2
  <2>6. /\ \A t \in Sessions : ~IsRunning(t)'
        /\ Unsettled(s)' = {} /\ reverse' = reverse
    BY <1>2, <2>1, <2>5 DEF IsRunning, Unsettled, Indices, sessionVars, deviceVars
  <2>7. /\ \A k \in Kinds : frame'[a].ids[k] = 0
        /\ frame'[a].adopt => reverse'[frame'[a].port] = "own"
    BY <2>1, <2>2, <2>3, <2>6
  <2>. PICK f : f = frame'[a]
    OBVIOUS
  <2>8. Begun("spawn", f, s)'
    BY <2>6, <2>7 DEF Begun, Kinds
  <2>. QED BY <1>2, <2>2, <2>4, <2>5, <2>8, StartsWellAt
<1>6. CASE StopLock(a)
  <2>1. pc'[a] = "stop" /\ frame' = frame /\ on' = on /\ pc[a] = "stopLock"
    BY <1>0, <1>6 DEF StopLock, Goto
  <2>2. on[a] \in Sessions /\ cap[on[a]].status \notin {"none", "stopped", "stop_failed"}
    BY <1>6, UnderWay DEF StopLock, CalmStep, Shape, ActorFits, Stopping, Working, RunsWell
  <2>3. IsRunning(on[a])
    BY <2>2, CalmFacts DEF IsRunning, Captures
  <2>4. IsRunning(on[a])'
    BY <1>2, <2>1, <2>3 DEF IsRunning
  <2>. QED BY <1>0, <1>2, <2>1, <2>4 DEF GoesWell, StartsWell, IsRunning, StartLabels, StoppingLabels, ExecutingLabels
<1>. QED BY <1>1, <1>2, <1>3, <1>4, <1>5, <1>6

\* What does not touch device, ledgers and captures leaves every capture as it is.
LEMMA RunsWellKept ==
  ASSUME Shape, Working, UNCHANGED <<cap, ledger, deviceVars>>, NEW s \in Sessions,
         status'[s] = "cleaned" => status[s] = "cleaned",
         \A a \in Actors : on[a] = s /\ Deep(a) => Still(a)
  PROVE  RunsWell(s)'
<1>1. /\ \A t : IsRunning(t)' = IsRunning(t)
      /\ Unsettled(s)' = Unsettled(s) /\ StopIds(s)' = StopIds(s) /\ KindsFit(s)' = KindsFit(s)
      /\ Works(s)' = Works(s)
  BY DEF IsRunning, Unsettled, Indices, StopIds, KindsFit, Works, deviceVars
<1>2. \A a \in Actors : on[a] = s /\ pc[a] \in StartLabels \cup StoppingLabels =>
        on'[a] = s /\ pc'[a] = pc[a]
  BY DEF Deep, Still, StartLabels, StoppingLabels, ExecutingLabels
<1>3. RunsWell(s)
  BY DEF Working
<1>4. IsRunning(s) => Captured(s)'
  <2>. HIDE DEF Works, IsRunning
  <2>. QED BY <1>1, <1>2, <1>3 DEF RunsWell, Captured
<1>. QED BY <1>1, <1>2, <1>3, <1>4 DEF RunsWell

LEMMA NoneFailedKept ==
  ASSUME Working, UNCHANGED ledger
  PROVE  NoneFailed'
  BY DEF Working, NoneFailed, Unsettled, Indices

\* The ledger of a session on which nobody works.
LEMMA LedgerAway ==
  ASSUME DeviceAssumption, ActorAssumption, CalmStep, NEW a \in Actors, Acts(a), Deep(a),
         NEW t \in Sessions, t # on[a]
  PROVE  /\ Unsettled(t)' = Unsettled(t)
         /\ status'[t] = "cleaned" => status[t] = "cleaned"
<1>1. LedgersKept /\ LedgersGrow /\ StatusChange
  BY CalmFacts
<1>2. \A b \in Actors : on[b] = t => ~Deep(b)
  BY OnlyDeep DEF CalmStep
<1>3. \A b \in Actors : on[b] = t => ~Records(b) /\ ~Mark(b) /\ ~EndCleanup(b) /\ pc[b] # "mark"
  BY <1>2 DEF Deep, Records, StartRecordProcess, StartRecordReverse, StartRecordProxy, StartRecord,
              Mark, EndCleanup
<1>4. Unsettled(t)' \subseteq Unsettled(t)
  BY <1>1, <1>3 DEF LedgersGrow
<1>5. ASSUME NEW i \in Unsettled(t) PROVE i \in Unsettled(t)'
  BY <1>1, <1>3 DEF LedgersKept, Settles, Unsettled
<1>6. status'[t] = "cleaned" => status[t] = "cleaned"
  BY <1>1, <1>3 DEF StatusChange, CreateSession
<1>. QED BY <1>4, <1>5, <1>6

\* What changes state.json.
LEMMA CaptureChange ==
  ASSUME Shape, NEW a \in Actors, Acts(a), ~StartRunning(a), ~StopPersist(a)
  PROVE  UNCHANGED cap
<1>1. CASE Call(a) \/ Crash(a)
  BY <1>1 DEF Call, Crash, StartRequest, StopRequest, CleanupLock
<1>2. CASE StartStep(a)
  BY <1>2 DEF StartStep, StartLock, StartRefused, StartSpawn, StartSpawnFails, StartReadProxy,
              StartRaises, StartDropProcess, StartAddReverse, StartPutProxy,
              StartRecordProcess, StartRecordReverse, StartRecordProxy, StartRecord
<1>3. CASE StopStep(a)
  BY <1>3 DEF StopStep, StopRefused, StopLock, StopBegin, StopEvidence, StopRaises, StopActivate
<1>. QED BY <1>1, <1>2, <1>3 DEF Acts, ActorStep

LEMMA CaptureAway ==
  ASSUME DeviceAssumption, ActorAssumption, CalmStep, NEW a \in Actors, Acts(a), Deep(a),
         NEW t \in Sessions, t # on[a]
  PROVE  cap'[t] = cap[t]
<1>1. cap \in [Sessions -> Captures]
  BY CalmFacts
<1>. QED BY <1>1, CaptureChange DEF CalmStep, StartRunning, StopPersist

\* The ids in state.json name actions, which keep what they say.
LEMMA KindsKept ==
  ASSUME DeviceAssumption, Shape, LedgersKept, NEW s \in Sessions, IsRunning(s), cap'[s] = cap[s]
  PROVE  /\ KindsFit(s) => KindsFit(s)'
         /\ StopIds(s)' = StopIds(s) /\ IsRunning(s)'
         /\ \A k \in {"process"} \cup cap[s].made :
              /\ cap[s].ids[k] \in Indices(s)
              /\ ledger'[s][cap[s].ids[k]].action = ledger[s][cap[s].ids[k]].action
<1>1. \A k \in {"process"} \cup cap[s].made : cap[s].ids[k] \in Indices(s)
  BY DEF Shape, CaptureFits, Points, IsRunning
<1>2. \A i \in Indices(s) : ledger'[s][i].action = ledger[s][i].action
  BY DEF LedgersKept
<1>. QED BY <1>1, <1>2 DEF KindsFit, StopIds, IsRunning

\* The captures of the other sessions stay as they are.
LEMMA ElseRunsWell ==
  ASSUME DeviceAssumption, ActorAssumption, CalmStep, NEW a \in Actors, Acts(a), Deep(a),
         NEW t \in Sessions, t # on[a]
  PROVE  RunsWell(t)'
<1>1. /\ Unsettled(t)' = Unsettled(t) /\ cap'[t] = cap[t]
      /\ status'[t] = "cleaned" => status[t] = "cleaned"
      /\ LedgersKept /\ RunsWell(t) /\ GoesWell(a) /\ StartsWell(a) /\ on[a] \in Sessions
  BY LedgerAway, CaptureAway, CalmFacts DEF CalmStep, Working
<1>2. \A b \in Actors : on[b] = t => pc[b] \notin StartLabels \cup StoppingLabels
  BY OnlyDeep DEF CalmStep, Deep, StartLabels, StoppingLabels, ExecutingLabels
<1>3. ASSUME IsRunning(t) PROVE Captured(t)'
  <2>1. Captured(t) /\ Works(t)
    BY <1>1, <1>2, <1>3 DEF RunsWell, Captured
  <2>2. pc[a] \notin StartLabels
    BY <1>1, <1>3 DEF StartsWell, Begun
  <2>3. pc[a] \notin {"stop"} \cup StoppingLabels
    BY <1>1, <2>1 DEF GoesWell, Captured
  <2>4. UNCHANGED deviceVars /\ ~StartRunning(a)
    <3>1. pc[a] \notin {"apply", "spawn", "addReverse", "putProxy", "rollback", "running"}
      BY <1>1, <2>2, <2>3 DEF GoesWell, StartLabels, StoppingLabels, ExecutingLabels
    <3>. QED BY <3>1, DeviceLeft DEF Apply, StartSpawn, StartAddReverse, StartPutProxy, StartDropProcess,
             StartRunning, CalmStep
  <2>5. \A u \in Sessions : IsRunning(u)' => IsRunning(u)
    <3>1. CASE StopPersist(a)
      BY <2>3, <3>1 DEF StopPersist, StoppingLabels
    <3>2. CASE ~StopPersist(a)
      BY <2>4, <3>2, CaptureChange DEF IsRunning, CalmStep
    <3>. QED BY <3>1, <3>2
  <2>6. KindsFit(t)' /\ StopIds(t)' = StopIds(t)
    BY <1>1, <1>3, <2>1, KindsKept DEF Captured, CalmStep
  <2>7. Works(t)'
    <3>1. PICK x \in alive :
            /\ proxy = x.port /\ reverse[x.port] = "own"
            /\ cap[t].ids["process"] \in Unsettled(t)
            /\ ledger[t][cap[t].ids["process"]].action.proc = x.id
            /\ "proxy" \in cap[t].made => ledger[t][cap[t].ids["proxy"]].action.port = x.port
      BY <2>1 DEF Works
    <3>2. UNCHANGED <<alive, proxy, reverse>>
      BY <2>4 DEF deviceVars
    <3>3. \A k \in {"process"} \cup cap[t].made :
            ledger'[t][cap[t].ids[k]].action = ledger[t][cap[t].ids[k]].action
      BY <1>1, <1>3, KindsKept DEF CalmStep
    <3>. QED BY <1>1, <3>1, <3>2, <3>3 DEF Works
  <2>. QED BY <1>1, <2>1, <2>5, <2>6, <2>7 DEF Captured
<1>4. ~IsRunning(t) => Unsettled(t) = {}
  BY <1>1, <1>2 DEF RunsWell
<1>5. IsRunning(t)' = IsRunning(t)
  BY <1>1 DEF IsRunning
<1>. QED BY <1>1, <1>3, <1>4, <1>5 DEF RunsWell

\* Recording adds one entry, which is pending.
LEMMA RecordLast ==
  ASSUME SessionTypeOK, NEW s \in Sessions, NEW e \in Actions, RecordAction(s, e), NEW n, n = Len(ledger[s]) + 1
  PROVE  /\ Indices(s)' = Indices(s) \cup {n} /\ n \notin Indices(s) /\ n \in Nat \ {0}
         /\ ledger'[s][n].status = "pending" /\ ledger'[s][n].action = e
         /\ \A j \in Indices(s) : ledger'[s][j] = ledger[s][j]
         /\ \A t \in Sessions \ {s} : ledger'[t] = ledger[t]
<1>. DEFINE x == [action |-> e, status |-> "pending"]
            L == Append(ledger[s], x)
<1>1. ledger' = [ledger EXCEPT ![s] = L]
  BY DEF RecordAction
<1>2. x \in Entries /\ x.action = e /\ x.status = "pending"
  BY DEF Entries, EntryStatuses
<1>3. ledger[s] \in Seq(Entries) /\ Len(ledger[s]) \in Nat
  BY LedgerFacts
<1>4. /\ Len(L) = n /\ L[n] = x
      /\ \A j \in 1..Len(ledger[s]) : L[j] = ledger[s][j]
  <2>. HIDE DEF x
  <2>. QED BY <1>2, <1>3, AppendProperties
<1>. HIDE DEF x, L
<1>5. \A t \in Sessions : ledger'[t] = IF t = s THEN L ELSE ledger[t]
  BY <1>1 DEF SessionTypeOK
<1>. QED BY <1>2, <1>3, <1>4, <1>5 DEF Indices

\* Other steps leave the ledgers alone.
LEMMA LedgerSame ==
  ASSUME NEW a \in Actors, Acts(a), ~Mark(a), ~Records(a)
  PROVE  UNCHANGED ledger
<1>1. CASE Call(a) \/ Crash(a)
  BY <1>1 DEF Call, Crash, StartRequest, StopRequest, CleanupLock, sessionVars
<1>2. CASE ExecutorStep(a)
  BY <1>2 DEF ExecutorStep, Decide, Apply, BeginRollback, EndRollback, ReturnCleaned,
              BeginCleanup, EndCleanup, SetStatus, sessionVars
<1>3. CASE StartStep(a)
  BY <1>3 DEF StartStep, Records, StartLock, StartRefused, StartSpawn, StartSpawnFails, StartAddReverse,
              StartReadProxy, StartPutProxy, StartRunning, StartRaises, StartDropProcess, sessionVars
<1>4. CASE StopStep(a)
  BY <1>4 DEF StopStep, StopRefused, StopLock, StopBegin, StopEvidence, StopPersist, StopRaises,
              StopActivate, SetStatus, sessionVars
<1>. QED BY <1>1, <1>2, <1>3, <1>4 DEF Acts, ActorStep

\* Ledgers never hold what could not be given back.
LEMMA NoneFailedStep ==
  ASSUME DeviceAssumption, ActorAssumption, CalmStep, NEW a \in Actors, Acts(a)
  PROVE  NoneFailed'
<1>0. GoesWell(a) /\ LedgersGrow /\ LedgersKept /\ NoneFailed /\ SessionTypeOK
  BY CalmFacts, UnderWay DEF CalmStep, Working
<1>1. CASE Mark(a)
  <2>1. /\ frame[a].current \in Indices(on[a]) /\ on[a] \in Sessions /\ pc[a] = "mark"
        /\ \A t \in Sessions : \A j \in Indices(t) :
              ledger'[t][j].status = IF t = on[a] /\ j = frame[a].current
                                     THEN frame[a].verdict ELSE ledger[t][j].status
    BY <1>1, MarkStep DEF CalmStep, Mark
  <2>2. \A b \in Actors : ~Records(b)
    <3>1. \A b \in Actors : Records(b) => Deep(b) /\ pc[b] # "mark"
      BY DEF Deep, Records, StartRecordProcess, StartRecordReverse, StartRecordProxy, StartRecord
    <3>. QED BY <2>1, <3>1, OnlyDeep DEF Deep, CalmStep
  <2>3. frame[a].verdict \in Settled
    BY <1>0, <2>1 DEF GoesWell
  <2>. QED BY <1>0, <2>1, <2>2, <2>3 DEF NoneFailed, Unsettled, LedgersGrow
<1>2. CASE Records(a)
  <2>1. PICK e : RecordAction(on[a], e) /\ e \in Actions /\ on[a] \in Sessions
    <3>1. \A k \in Kinds, v \in ProxyValues : pc[a] \in StartLabels =>
            [kind |-> k, port |-> frame[a].port, prev |-> v, proc |-> frame[a].proc] \in Actions
      BY StartHere DEF CalmStep, StartFits, Frames, Actions
    <3>2. pc[a] \in StartLabels /\ on[a] \in Sessions
      BY <1>2, UnderWay DEF CalmStep, StartLabels, Records, StartRecordProcess, StartRecordReverse,
                            StartRecordProxy, StartRecord
    <3>. QED BY <1>2, <3>1, <3>2, RecordCases DEF CalmStep, Records, StartRecord
  <2>2. PICK s \in Sessions, n \in {Len(ledger[on[a]]) + 1} : s = on[a]
    BY <2>1
  <2>. QED BY <1>0, <2>1, <2>2, RecordLast DEF NoneFailed, Unsettled, Indices
<1>3. CASE ~Mark(a) /\ ~Records(a)
  <2>1. UNCHANGED ledger
    BY <1>3, LedgerSame DEF CalmStep
  <2>. QED BY <1>0, <2>1 DEF NoneFailed, Unsettled, Indices
<1>. QED BY <1>1, <1>2, <1>3

\* The session an operation works on, its locals, and what is left to show of a step.
LEMMA DeepFacts ==
  ASSUME DeviceAssumption, ActorAssumption, CalmStep, NEW a \in Actors, Acts(a), Deep(a),
         NEW s, s = on[a], NEW f, f = frame[a]
  PROVE  /\ s \in Sessions /\ f \in Frames /\ RunsWell(s) /\ ~Fault
         /\ pc \in [Actors -> Labels] /\ frame \in [Actors -> Frames] /\ cap \in [Sessions -> Captures]
         /\ on \in [Actors -> Sessions \cup {NoSession}] /\ SessionTypeOK
         /\ LedgersKept /\ NoneMeddled
         /\ ~f.errors
         /\ pc[a] \in StartLabels => /\ Begun(pc[a], f, s) /\ StartFits(a, f, pc[a]) /\ s \in captured
                                     /\ status[s] # "cleaned"
         /\ pc[a] \in {"spawn", "recordProcess"} => \A k \in Kinds : f.ids[k] = 0
<1>1. pc[a] \in StartLabels => Begun(pc[a], f, s)
  BY CalmFacts DEF StartsWell
<1>2. pc[a] \in StartLabels => StartFits(a, f, pc[a]) /\ s \in captured /\ status[s] # "cleaned"
  BY StartHere, CalmFacts DEF CalmStep, Reopening, Progress, Open
<1>3. pc[a] \in {"spawn", "recordProcess"} => \A k \in Kinds : f.ids[k] = 0
  BY DEF CalmStep, Announced, ActorAnnounces, Recorded
<1>. QED BY <1>1, <1>2, <1>3, CalmFacts, UnderWay DEF CalmStep, Working, GoesWell

\* Going on with a start leaves the session uncaptured.
LEMMA StillStarting ==
  ASSUME NEW a \in Actors, NEW s \in Sessions, RunsWell(s), on'[a] = s, pc'[a] \in StartLabels, cap'[s] = cap[s],
         ~IsRunning(s), ~frame'[a].errors
  PROVE  RunsWell(s)' /\ GoesWell(a)'
<1>1. RunsWell(s)'
  BY DEF RunsWell, IsRunning
<1>2. GoesWell(a)'
  BY DEF GoesWell, StartLabels, StoppingLabels, ExecutingLabels
<1>. QED BY <1>1, <1>2

\* An operation that ends without errors.
LEMMA Ended ==
  ASSUME NEW a \in Actors, Return(a), pc \in [Actors -> Labels], frame \in [Actors -> Frames]
  PROVE  GoesWell(a)' /\ StartsWell(a)' /\ pc'[a] = "idle"
<1>1. pc'[a] = "idle" /\ frame'[a] = IdleFrame
  BY DEF Return
<1>. QED BY <1>1 DEF GoesWell, StartsWell, IdleFrame, StartLabels, StoppingLabels, ExecutingLabels

LEMMA SpawnGoesWell ==
  ASSUME DeviceAssumption, ActorAssumption, CalmStep, NEW a \in Actors, NEW s, s = on[a],
         StartSpawn(a) \/ StartSpawnFails(a)
  PROVE  GoesWell(a)' /\ StartsWell(a)' /\ RunsWell(s)'
<1>. PICK f : f = frame[a]
  OBVIOUS
<1>0. Acts(a) /\ Deep(a) /\ pc[a] = "spawn" /\ pc[a] \in StartLabels
  BY DEF Acts, ActorStep, StartStep, StartSpawn, StartSpawnFails, Deep, StartLabels
<1>1. /\ s \in Sessions /\ f \in Frames /\ RunsWell(s) /\ ~Fault
      /\ pc \in [Actors -> Labels] /\ frame \in [Actors -> Frames] /\ cap \in [Sessions -> Captures]
      /\ on \in [Actors -> Sessions \cup {NoSession}]
      /\ ~f.errors /\ Begun("spawn", f, s) /\ f.port \in Ports
      /\ \A k \in Kinds : f.ids[k] = 0
  BY <1>0, DeepFacts DEF StartFits
<1>2. UNCHANGED <<cap, ledger, status, reverse>>
  BY DEF StartSpawn, StartSpawnFails, Spawn, sessionVars, deviceVars
<1>3. Unsettled(s) = {} /\ Unsettled(s)' = {}
  BY <1>1, <1>2, LedgerFacts, UnderWay DEF Begun, Unsettled, Indices, CalmStep
<1>4. CASE StartSpawn(a)
  <2>. DEFINE g == [f EXCEPT !.proc = spawned + 1]
  <2>1. /\ frame'[a] = g /\ pc'[a] = "recordProcess" /\ on'[a] = s
        /\ [id |-> spawned + 1, port |-> f.port] \in alive'
    BY <1>1, <1>4 DEF StartSpawn, Spawn, Goto, Keep
  <2>2. g.errors = f.errors /\ g.ids = f.ids /\ g.port = f.port /\ g.proc = spawned + 1 /\ g.adopt = f.adopt
    BY <1>1 DEF Frames
  <2>. HIDE DEF g
  <2>3. PICK h : h = g /\ h = frame'[a]
    BY <2>1
  <2>4. Begun("recordProcess", h, s)'
    BY <1>1, <1>2, <1>3, <2>1, <2>2, <2>3 DEF Begun, IsRunning
  <2>5. StartsWell(a)'
    BY <2>1, <2>3, <2>4, StartsWellAt
  <2>6. RunsWell(s)' /\ GoesWell(a)'
    BY <1>1, <1>2, <2>1, <2>2, StillStarting DEF StartLabels, Begun
  <2>. QED BY <2>5, <2>6
<1>5. CASE StartSpawnFails(a)
  <2>1. Return(a)
    BY <1>5 DEF StartSpawnFails
  <2>2. RunsWell(s)'
    BY <1>1, <1>2, <1>3 DEF RunsWell, Begun, IsRunning
  <2>. QED BY <1>1, <2>1, <2>2, Ended
<1>. QED BY <1>4, <1>5

\* What a start records is what stop will give back.
LEMMA RecordGoesWell ==
  ASSUME DeviceAssumption, ActorAssumption, CalmStep, NEW a \in Actors, NEW s, s = on[a], Records(a)
  PROVE  GoesWell(a)' /\ StartsWell(a)' /\ RunsWell(s)'
<1>. PICK f : f = frame[a]
  OBVIOUS
<1>0. Acts(a) /\ Deep(a) /\ pc[a] \in StartLabels
  BY DEF Acts, ActorStep, StartStep, Records, Deep, StartLabels, StartRecordProcess, StartRecordReverse,
         StartRecordProxy, StartRecord
<1>1. /\ s \in Sessions /\ f \in Frames /\ RunsWell(s) /\ ~Fault /\ SessionTypeOK
      /\ pc \in [Actors -> Labels] /\ frame \in [Actors -> Frames] /\ cap \in [Sessions -> Captures]
      /\ on \in [Actors -> Sessions \cup {NoSession}]
      /\ ~f.errors /\ Begun(pc[a], f, s) /\ StartFits(a, f, pc[a])
      /\ pc[a] = "recordProcess" => \A k \in Kinds : f.ids[k] = 0
  BY <1>0, DeepFacts
<1>2. PICK k, v, from, to :
        /\ StartRecord(a, k, v, from, to)
        /\ k \in Kinds /\ v \in ProxyValues /\ from \in {"recordProcess", "recordReverse", "recordProxy"}
        /\ from = "recordProcess" => k = "process" /\ to = IF f.adopt THEN "readProxy" ELSE "recordReverse"
        /\ from = "recordReverse" => k = "reverse" /\ to = "addReverse"
        /\ from = "recordProxy" => k = "proxy" /\ to = "putProxy"
  <2>1. Kinds = {"process", "reverse", "proxy"} /\ NoProxy \in ProxyValues /\ f.prev \in ProxyValues
    BY <1>1 DEF Kinds, Frames, ProxyValues
  <2>2. CASE StartRecordProcess(a)
    BY <2>1, <2>2 DEF StartRecordProcess
  <2>3. CASE StartRecordReverse(a)
    BY <2>1, <2>3 DEF StartRecordReverse
  <2>4. CASE StartRecordProxy(a)
    BY <2>1, <2>4 DEF StartRecordProxy
  <2>. QED BY <2>2, <2>3, <2>4 DEF Records
<1>. k \in Kinds /\ v \in ProxyValues
  BY <1>2
<1>. DEFINE e == [kind |-> k, port |-> f.port, prev |-> v, proc |-> f.proc]
<1>. PICK n : n = Len(ledger[s]) + 1
  OBVIOUS
<1>. DEFINE ids == [f.ids EXCEPT ![k] = n]
            g == [f EXCEPT !.ids = ids]
<1>3. /\ pc[a] = from /\ pc'[a] = to /\ on'[a] = s /\ frame'[a] = g /\ RecordAction(s, e)
      /\ UNCHANGED <<cap, deviceVars>>
  BY <1>1, <1>2 DEF StartRecord, Goto, Keep
<1>4. e \in Actions /\ e.kind = k /\ e.port = f.port /\ e.proc = f.proc
  BY <1>1 DEF StartFits, Frames, Actions
<1>. HIDE DEF e
<1>5. /\ Indices(s)' = Indices(s) \cup {n} /\ n \notin Indices(s) /\ n \in Nat \ {0}
      /\ ledger'[s][n].status = "pending" /\ ledger'[s][n].action = e
      /\ \A j \in Indices(s) : ledger'[s][j] = ledger[s][j]
  BY <1>1, <1>3, <1>4, RecordLast
<1>6. /\ g.errors = f.errors /\ g.ids = ids /\ g.port = f.port /\ g.proc = f.proc /\ g.adopt = f.adopt
      /\ g.made = f.made
      /\ \A j \in Kinds : ids[j] = IF j = k THEN n ELSE f.ids[j]
  BY <1>1, <1>5 DEF Frames
<1>. HIDE DEF g, ids
<1>7. PICK h : h = g /\ h = frame'[a]
  BY <1>3
<1>8. Unsettled(s)' = Unsettled(s) \cup {n}
  BY <1>5 DEF Unsettled, Settled
<1>9. \A j \in Kinds : f.ids[j] # 0 => f.ids[j] \in Indices(s)
  BY <1>1 DEF StartFits, Points
<1>10. to \in {"recordReverse", "readProxy", "addReverse", "putProxy"} /\ to \in StartLabels
  BY <1>2 DEF StartLabels
<1>11. /\ \A t \in Sessions : ~IsRunning(t)'
       /\ \A t \in Sessions : ~IsRunning(t)
       /\ UNCHANGED <<alive, reverse, proxy>>
  BY <1>1, <1>3 DEF Begun, IsRunning, deviceVars
<1>12. Begun(to, h, s)'
  <2>1. \A i \in Unsettled(s)' : \E j \in Kinds : i = h.ids[j]
    <3>1. ASSUME NEW i \in Unsettled(s), NEW j \in Kinds, i = f.ids[j] PROVE i = h.ids[j] \/ i = n
      <4>1. from = "recordProcess" => f.ids[j] = 0
        BY <1>1, <1>3
      <4>2. i \in Nat \ {0}
        BY <1>1, LedgerFacts DEF Unsettled
      <4>3. CASE j = k
        <5>1. f.ids[k] = 0
          BY <1>1, <1>2, <1>3, <4>1, <4>3 DEF Begun
        <5>. QED BY <3>1, <4>2, <4>3, <5>1
      <4>4. CASE j # k
        BY <1>6, <1>7, <3>1, <4>4
      <4>. QED BY <4>3, <4>4
    <3>. QED BY <1>1, <1>6, <1>7, <1>8, <3>1 DEF Begun
  <2>2. \A j \in Kinds : h.ids[j] # 0 =>
       /\ \/ j \in h.made \cup {"process"}
          \/ j = "reverse" /\ to = "addReverse"
          \/ j = "proxy" /\ to = "putProxy"
       /\ ledger'[s][h.ids[j]].action.kind = j
       /\ ledger'[s][h.ids[j]].action.port = h.port
       /\ ledger'[s][h.ids[j]].action.proc = h.proc
    <3>1. ASSUME NEW j \in Kinds, j # k, f.ids[j] # 0
          PROVE  /\ j \in f.made \cup {"process"}
                 /\ ledger[s][f.ids[j]].action.kind = j
                 /\ ledger[s][f.ids[j]].action.port = f.port
                 /\ ledger[s][f.ids[j]].action.proc = f.proc
                 /\ ledger'[s][f.ids[j]] = ledger[s][f.ids[j]]
      <4>1. pc[a] \notin {"addReverse", "putProxy"}
        BY <1>2, <1>3
      <4>2. ledger'[s][f.ids[j]] = ledger[s][f.ids[j]]
        BY <1>5, <1>9, <3>1
      <4>. QED BY <1>1, <3>1, <4>1, <4>2 DEF Begun
    <3>2. k = "process" \/ (k = "reverse" /\ to = "addReverse") \/ (k = "proxy" /\ to = "putProxy")
      BY <1>2
    <3>. TAKE j \in Kinds
    <3>. HAVE h.ids[j] # 0
    <3>3. h.made = f.made /\ h.port = f.port /\ h.proc = f.proc
      BY <1>6, <1>7
    <3>4. CASE j = k
      <4>1. h.ids[j] = n
        BY <1>6, <1>7, <3>4
      <4>. QED BY <1>4, <1>5, <3>2, <3>3, <3>4, <4>1
    <3>5. CASE j # k
      <4>1. h.ids[j] = f.ids[j]
        BY <1>6, <1>7, <3>5
      <4>2. f.ids[j] # 0
        BY <4>1
      <4>3. /\ j \in f.made \cup {"process"}
            /\ ledger[s][f.ids[j]].action.kind = j
            /\ ledger[s][f.ids[j]].action.port = f.port
            /\ ledger[s][f.ids[j]].action.proc = f.proc
            /\ ledger'[s][f.ids[j]] = ledger[s][f.ids[j]]
        BY <3>1, <3>5, <4>2, Zenon
      <4>. QED BY <3>3, <4>1, <4>3
    <3>. QED BY <3>4, <3>5
  <2>3. [id |-> h.proc, port |-> h.port] \in alive'
    BY <1>1, <1>2, <1>3, <1>6, <1>7, <1>11 DEF Begun
  <2>4. h.ids["process"] \in Unsettled(s)'
    BY <1>1, <1>2, <1>3, <1>6, <1>7, <1>8 DEF Begun, Kinds
  <2>5. to \in {"readProxy", "recordProxy", "putProxy", "running"} \/ h.adopt => reverse'[h.port] = "own"
    BY <1>1, <1>2, <1>3, <1>6, <1>7, <1>11 DEF Begun
  <2>6. /\ to = "recordReverse" => h.ids["reverse"] = 0
        /\ to # "putProxy" => h.ids["proxy"] = 0
    BY <1>1, <1>2, <1>3, <1>6, <1>7, <1>10 DEF Begun, Kinds
  <2>. QED BY <1>10, <1>11, <2>1, <2>2, <2>3, <2>4, <2>5, <2>6 DEF Begun
<1>13. StartsWell(a)'
  BY <1>3, <1>7, <1>12, StartsWellAt
<1>. QED BY <1>1, <1>3, <1>6, <1>7, <1>10, <1>11, <1>13, StillStarting

\* A change that a start has recorded.
LEMMA ChangeGoesWell ==
  ASSUME DeviceAssumption, ActorAssumption, CalmStep, NEW a \in Actors, NEW s, s = on[a],
         StartAddReverse(a) \/ StartPutProxy(a)
  PROVE  GoesWell(a)' /\ StartsWell(a)' /\ RunsWell(s)'
<1>. PICK f : f = frame[a]
  OBVIOUS
<1>0. Acts(a) /\ Deep(a) /\ pc[a] \in StartLabels
  BY DEF Acts, ActorStep, StartStep, Deep, StartLabels, StartAddReverse, StartPutProxy
<1>1. /\ s \in Sessions /\ f \in Frames /\ RunsWell(s) /\ ~Fault
      /\ pc \in [Actors -> Labels] /\ frame \in [Actors -> Frames] /\ cap \in [Sessions -> Captures]
      /\ reverse \in [Ports -> {"none", "own", "other"}]
      /\ ~f.errors /\ Begun(pc[a], f, s) /\ StartFits(a, f, pc[a])
  BY <1>0, DeepFacts, UnderWay DEF CalmStep, DeviceTypeOK
<1>2. PICK k, to :
        /\ k \in {"reverse", "proxy"}
        /\ to = IF k = "reverse" THEN "readProxy" ELSE "running"
        /\ pc[a] = IF k = "reverse" THEN "addReverse" ELSE "putProxy"
        /\ pc' = [pc EXCEPT ![a] = to] /\ on' = on
        /\ frame' = [frame EXCEPT ![a].made = @ \cup {k}]
        /\ UNCHANGED <<cap, ledger, status, alive>>
        /\ k = "reverse" => reverse' = [reverse EXCEPT ![f.port] = "own"] /\ proxy' = proxy
        /\ k = "proxy" => reverse' = reverse /\ proxy' = f.port
  <2>1. CASE StartAddReverse(a)
    BY <1>1, <2>1 DEF StartAddReverse, StartChanged, SetReverse, Goto, Keep, sessionVars
  <2>2. CASE StartPutProxy(a)
    BY <1>1, <2>2 DEF StartPutProxy, StartChanged, PutSetting, Goto, Keep, sessionVars
  <2>. QED BY <2>1, <2>2
<1>. k \in Kinds
  BY <1>2 DEF Kinds
<1>. DEFINE g == [f EXCEPT !.made = f.made \cup {k}]
<1>3. frame'[a] = g /\ pc'[a] = to /\ on'[a] = s
  BY <1>1, <1>2
<1>4. /\ g.errors = f.errors /\ g.ids = f.ids /\ g.port = f.port /\ g.proc = f.proc /\ g.adopt = f.adopt
      /\ g.made = f.made \cup {k}
  BY <1>1 DEF Frames
<1>. HIDE DEF g
<1>5. PICK h : h = g /\ h = frame'[a]
  BY <1>3
<1>6. /\ Unsettled(s)' = Unsettled(s) /\ f.port \in Ports
      /\ \A t \in Sessions : ~IsRunning(t)'
      /\ \A t \in Sessions : ~IsRunning(t)
  <2>1. f.port \in Ports
    BY <1>1, <1>2 DEF StartFits
  <2>2. Unsettled(s)' = Unsettled(s)
    BY <1>2 DEF Unsettled, Indices
  <2>3. \A t \in Sessions : ~IsRunning(t)
    BY <1>1 DEF Begun
  <2>4. \A t \in Sessions : ~IsRunning(t)'
    BY <1>2, <2>3 DEF IsRunning
  <2>. QED BY <2>1, <2>2, <2>3, <2>4
<1>7. Begun(to, h, s)'
  <2>1. \A j \in Kinds : h.ids[j] # 0 => j \in h.made \cup {"process"}
    <3>1. \A j \in Kinds : f.ids[j] # 0 => j \in f.made \cup {"process"} \/ j = k
      BY <1>1, <1>2 DEF Begun
    <3>2. h.ids = f.ids /\ h.made = f.made \cup {k}
      BY <1>4, <1>5
    <3>. QED BY <3>1, <3>2
  <2>2. \A j \in Kinds : h.ids[j] # 0 =>
       /\ ledger'[s][h.ids[j]].action.kind = j
       /\ ledger'[s][h.ids[j]].action.port = h.port
       /\ ledger'[s][h.ids[j]].action.proc = h.proc
    <3>1. \A j \in Kinds : f.ids[j] # 0 =>
            /\ ledger[s][f.ids[j]].action.kind = j
            /\ ledger[s][f.ids[j]].action.port = f.port
            /\ ledger[s][f.ids[j]].action.proc = f.proc
      BY <1>1 DEF Begun
    <3>2. h.ids = f.ids /\ h.port = f.port /\ h.proc = f.proc /\ ledger' = ledger
      BY <1>2, <1>4, <1>5
    <3>. QED BY <3>1, <3>2
  <2>3. \A i \in Unsettled(s)' : \E j \in Kinds : i = h.ids[j]
    BY <1>1, <1>4, <1>5, <1>6 DEF Begun
  <2>4. /\ [id |-> h.proc, port |-> h.port] \in alive'
        /\ h.ids["process"] \in Unsettled(s)'
        /\ to # "running" => h.ids["proxy"] = 0
    BY <1>1, <1>2, <1>4, <1>5, <1>6 DEF Begun
  <2>5. reverse'[h.port] = "own" /\ (to = "running" => proxy' = h.port)
    BY <1>1, <1>2, <1>4, <1>5, <1>6 DEF Begun
  <2>. QED BY <1>2, <1>6, <2>1, <2>2, <2>3, <2>4, <2>5 DEF Begun
<1>8. StartsWell(a)'
  BY <1>3, <1>5, <1>7, StartsWellAt
<1>. QED BY <1>1, <1>2, <1>3, <1>4, <1>6, <1>8, StillStarting DEF StartLabels

\* Reading the proxy shows whether it is there already.
LEMMA ReadGoesWell ==
  ASSUME DeviceAssumption, ActorAssumption, CalmStep, NEW a \in Actors, NEW s, s = on[a],
         StartReadProxy(a)
  PROVE  GoesWell(a)' /\ StartsWell(a)' /\ RunsWell(s)'
<1>. PICK f : f = frame[a]
  OBVIOUS
<1>0. Acts(a) /\ Deep(a) /\ pc[a] \in StartLabels /\ pc[a] = "readProxy"
  BY DEF Acts, ActorStep, StartStep, Deep, StartLabels, StartReadProxy
<1>1. /\ s \in Sessions /\ f \in Frames /\ RunsWell(s)
      /\ pc \in [Actors -> Labels] /\ frame \in [Actors -> Frames] /\ cap \in [Sessions -> Captures]
      /\ ~f.errors /\ Begun("readProxy", f, s)
  BY <1>0, DeepFacts
<1>2. PICK to \in {"running", "recordProxy"} :
        /\ to = "running" => proxy = f.port
        /\ pc' = [pc EXCEPT ![a] = to] /\ on' = on
        /\ frame' = [frame EXCEPT ![a].prev = proxy]
        /\ UNCHANGED <<cap, ledger, status, alive, reverse, proxy>>
  BY DEF StartReadProxy, Goto, Keep, sessionVars, deviceVars
<1>. DEFINE g == [f EXCEPT !.prev = proxy]
<1>3. frame'[a] = g /\ pc'[a] = to /\ on'[a] = s
  BY <1>1, <1>2
<1>4. /\ g.errors = f.errors /\ g.ids = f.ids /\ g.port = f.port /\ g.proc = f.proc /\ g.adopt = f.adopt
      /\ g.made = f.made
  BY <1>1 DEF Frames
<1>. HIDE DEF g
<1>5. PICK h : h = g /\ h = frame'[a]
  BY <1>3
<1>6. /\ Unsettled(s)' = Unsettled(s)
      /\ \A t \in Sessions : ~IsRunning(t)'
      /\ \A t \in Sessions : ~IsRunning(t)
  <2>1. Unsettled(s)' = Unsettled(s)
    BY <1>2 DEF Unsettled, Indices
  <2>2. \A t \in Sessions : ~IsRunning(t)
    BY <1>1 DEF Begun
  <2>3. \A t \in Sessions : ~IsRunning(t)'
    BY <1>2, <2>2 DEF IsRunning
  <2>. QED BY <2>1, <2>2, <2>3
<1>7. Begun(to, h, s)'
  <2>1. h.ids = f.ids /\ h.port = f.port /\ h.proc = f.proc /\ h.adopt = f.adopt /\ h.made = f.made
    BY <1>4, <1>5
  <2>2. \A j \in Kinds : f.ids[j] # 0 =>
          /\ j \in f.made \cup {"process"}
          /\ ledger[s][f.ids[j]].action.kind = j
          /\ ledger[s][f.ids[j]].action.port = f.port
          /\ ledger[s][f.ids[j]].action.proc = f.proc
    BY <1>1 DEF Begun
  <2>3. /\ \A i \in Unsettled(s) : \E k \in Kinds : i = f.ids[k]
        /\ [id |-> f.proc, port |-> f.port] \in alive
        /\ f.ids["process"] \in Unsettled(s) /\ f.ids["proxy"] = 0
        /\ reverse[f.port] = "own"
    BY <1>1 DEF Begun
  <2>4. \A j \in Kinds : h.ids[j] # 0 =>
          /\ j \in h.made \cup {"process"}
          /\ ledger'[s][h.ids[j]].action.kind = j
          /\ ledger'[s][h.ids[j]].action.port = h.port
          /\ ledger'[s][h.ids[j]].action.proc = h.proc
    <3>1. ledger' = ledger
      BY <1>2
    <3>. QED BY <2>1, <2>2, <3>1
  <2>5. /\ \A i \in Unsettled(s)' : \E k \in Kinds : i = h.ids[k]
        /\ [id |-> h.proc, port |-> h.port] \in alive'
        /\ h.ids["process"] \in Unsettled(s)' /\ h.ids["proxy"] = 0
        /\ reverse'[h.port] = "own" /\ (to = "running" => proxy' = h.port)
    BY <1>2, <1>6, <2>1, <2>3
  <2>. QED BY <1>2, <1>6, <2>4, <2>5 DEF Begun
<1>8. StartsWell(a)'
  BY <1>3, <1>5, <1>7, StartsWellAt
<1>. QED BY <1>1, <1>2, <1>3, <1>4, <1>6, <1>8, StillStarting DEF StartLabels

\* The capture that is written down works.
LEMMA RunningGoesWell ==
  ASSUME DeviceAssumption, ActorAssumption, CalmStep, NEW a \in Actors, NEW s, s = on[a],
         StartRunning(a)
  PROVE  GoesWell(a)' /\ StartsWell(a)' /\ RunsWell(s)'
<1>. PICK f : f = frame[a]
  OBVIOUS
<1>0. Acts(a) /\ Deep(a) /\ pc[a] \in StartLabels /\ pc[a] = "running"
  BY DEF Acts, ActorStep, StartStep, Deep, StartLabels, StartRunning
<1>1. /\ s \in Sessions /\ f \in Frames /\ ~Fault
      /\ pc \in [Actors -> Labels] /\ frame \in [Actors -> Frames] /\ cap \in [Sessions -> Captures]
      /\ Begun("running", f, s) /\ StartFits(a, f, "running") /\ status[s] # "cleaned" /\ SessionTypeOK
  BY <1>0, DeepFacts
<1>2. PICK c : /\ c = [status |-> "running", ids |-> f.ids, made |-> f.made, evidence |-> FALSE]
               /\ cap' = [cap EXCEPT ![s] = c]
  BY DEF StartRunning
<1>3. Return(a) /\ UNCHANGED <<ledger, status, alive, reverse, proxy>>
  BY <1>1 DEF StartRunning, sessionVars, deviceVars
<1>4. cap'[s] = c /\ c.status = "running" /\ c.ids = f.ids /\ c.made = f.made
  BY <1>1, <1>2
<1>5. \A t \in Sessions : IsRunning(t)' <=> t = s
  BY <1>1, <1>2, <1>4 DEF IsRunning, Begun
<1>6. Unsettled(s)' = Unsettled(s) /\ Unsettled(s) \subseteq Indices(s)
  BY <1>3 DEF Unsettled, Indices
<1>7. \A k \in Kinds : f.ids[k] # 0 <=> k \in {"process"} \cup f.made
  <2>1. f.made \subseteq Kinds /\ f.ids["process"] # 0
    BY <1>1 DEF StartFits, Frames
  <2>. QED BY <1>1, <2>1 DEF StartFits, Begun
<1>8. Unsettled(s)' \subseteq StopIds(s)'
  <2>1. \A i \in Unsettled(s) : i # 0 /\ \E k \in Kinds : i = f.ids[k]
    BY <1>1, LedgerFacts DEF Begun, Unsettled
  <2>. QED BY <1>4, <1>6, <1>7, <2>1 DEF StopIds
<1>9. KindsFit(s)'
  <2>1. \A k \in {"process"} \cup f.made : k \in Kinds
    BY <1>1 DEF Frames, Kinds
  <2>2. \A k \in {"process"} \cup f.made : ledger[s][f.ids[k]].action.kind = k
    <3>1. \A k \in Kinds : f.ids[k] # 0 => ledger[s][f.ids[k]].action.kind = k
      BY <1>1 DEF Begun
    <3>. QED BY <1>7, <2>1, <3>1
  <2>. QED BY <1>3, <1>4, <2>2 DEF KindsFit
<1>10. Works(s)'
  <2>1. PICK x \in alive : x = [id |-> f.proc, port |-> f.port]
    BY <1>1 DEF Begun
  <2>2. proxy = x.port /\ reverse[x.port] = "own" /\ f.ids["process"] \in Unsettled(s)
    BY <1>1, <2>1 DEF Begun
  <2>3. \A k \in Kinds : f.ids[k] # 0 =>
          ledger[s][f.ids[k]].action.port = x.port /\ ledger[s][f.ids[k]].action.proc = x.id
    BY <1>1, <2>1 DEF Begun
  <2>4. "process" \in Kinds /\ "proxy" \in Kinds
    BY DEF Kinds
  <2>5. cap'[s].ids = f.ids /\ cap'[s].made = f.made
    BY <1>4
  <2>6. /\ ledger[s][f.ids["process"]].action.proc = x.id
        /\ "proxy" \in f.made => ledger[s][f.ids["proxy"]].action.port = x.port
    BY <1>7, <2>3, <2>4
  <2>7. /\ x \in alive' /\ proxy' = x.port /\ reverse'[x.port] = "own"
        /\ f.ids["process"] \in Unsettled(s)' /\ ledger' = ledger
    BY <1>3, <1>6, <2>2
  <2>. QED BY <2>5, <2>6, <2>7 DEF Works
<1>11. RunsWell(s)'
  BY <1>1, <1>3, <1>4, <1>5, <1>8, <1>9, <1>10 DEF RunsWell, Captured
<1>. QED BY <1>1, <1>3, <1>11, Ended

\* What a stop goes by.
LEMMA StopFacts ==
  ASSUME DeviceAssumption, ActorAssumption, CalmStep, NEW a \in Actors, Acts(a),
         pc[a] \in {"stop"} \cup StoppingLabels, NEW s, s = on[a], NEW f, f = frame[a]
  PROVE  /\ s \in Sessions /\ f \in Frames /\ ~Fault
         /\ pc \in [Actors -> Labels] /\ frame \in [Actors -> Frames] /\ cap \in [Sessions -> Captures]
         /\ on \in [Actors -> Sessions \cup {NoSession}] /\ SessionTypeOK /\ DeviceTypeOK
         /\ LedgersKept /\ NoneMeddled
         /\ ~f.errors /\ IsRunning(s) /\ Captured(s) /\ s \in captured /\ cap[s] \in Captures
         /\ pc[a] # "evidence" /\ pc[a] # "stopped" => f.ready
         /\ pc[a] \in ExecutingLabels => f.phase = "stop" /\ f.todo \subseteq StopIds(s)
         /\ Progress(a, s)
<1>1. Deep(a) /\ GoesWell(a)
  BY CalmFacts DEF Deep, StoppingLabels, ExecutingLabels
<1>2. /\ s \in Sessions /\ f \in Frames /\ RunsWell(s) /\ ~Fault
      /\ pc \in [Actors -> Labels] /\ frame \in [Actors -> Frames] /\ cap \in [Sessions -> Captures]
      /\ on \in [Actors -> Sessions \cup {NoSession}] /\ SessionTypeOK /\ DeviceTypeOK
      /\ LedgersKept /\ NoneMeddled /\ ~f.errors
  BY <1>1, DeepFacts, UnderWay DEF CalmStep
<1>3. IsRunning(s) /\ Captured(s) /\ cap[s] \in Captures
  BY <1>1, <1>2 DEF GoesWell, RunsWell
<1>4. /\ pc[a] # "evidence" /\ pc[a] # "stopped" => f.ready
      /\ pc[a] \in ExecutingLabels => f.phase = "stop"
  BY <1>1 DEF GoesWell, StoppingLabels
<1>5. Progress(a, s) /\ SessionFits(s)
  BY <1>2 DEF CalmStep, Reopening
<1>6. s \in captured
  <2>1. Points(s, cap[s].ids["process"])
    BY <1>2, <1>3 DEF CalmStep, Shape, CaptureFits, IsRunning
  <2>. QED BY <1>5, <2>1 DEF SessionFits, Points
<1>7. pc[a] \in ExecutingLabels => f.todo \subseteq StopIds(s)
  BY <1>4, <1>5 DEF Progress
<1>. QED BY <1>2, <1>3, <1>4, <1>5, <1>6, <1>7

\* A stop that goes on.
LEMMA StillStopping ==
  ASSUME DeviceAssumption, ActorAssumption, CalmStep, NEW a \in Actors, Acts(a),
         pc[a] \in {"stop"} \cup StoppingLabels, NEW s, s = on[a],
         pc'[a] \in StoppingLabels, on'[a] = s, UNCHANGED <<cap, status>>,
         Unsettled(s)' \subseteq Unsettled(s)
  PROVE  RunsWell(s)' /\ StartsWell(a)' /\ (IsRunning(on[a]))'
<1>. PICK f : f = frame[a]
  OBVIOUS
<1>1. s \in Sessions /\ IsRunning(s) /\ Captured(s) /\ LedgersKept
  BY StopFacts
<1>2. KindsFit(s)' /\ StopIds(s)' = StopIds(s) /\ IsRunning(s)'
  BY <1>1, KindsKept DEF Captured, CalmStep
<1>3. \A t \in Sessions : IsRunning(t)' => t = s
  BY <1>1 DEF Captured, IsRunning
<1>4. Captured(s)'
  BY <1>1, <1>2, <1>3 DEF Captured
<1>5. cap'[s].status # "stop_failed"
  BY <1>2 DEF IsRunning
<1>6. RunsWell(s)'
  BY <1>2, <1>4, <1>5 DEF RunsWell
<1>7. StartsWell(a)'
  BY DEF StartsWell, StartLabels, StoppingLabels, ExecutingLabels
<1>. QED BY <1>1, <1>2, <1>6, <1>7 DEF IsRunning

\* Only one of the actions that stop gives back is about the proxy.
LEMMA OneProxy ==
  ASSUME NEW s \in Sessions, KindsFit(s), NEW i \in StopIds(s), ledger[s][i].action.kind = "proxy"
  PROVE  i = cap[s].ids["proxy"] /\ "proxy" \in cap[s].made
<1>1. PICK k \in {"process"} \cup cap[s].made : i = cap[s].ids[k]
  BY DEF StopIds
<1>2. ledger[s][i].action.kind = k
  BY <1>1 DEF KindsFit
<1>. QED BY <1>1, <1>2

\* What stop sets out to give back is as it was applied.
LEMMA StopBeginGoesWell ==
  ASSUME DeviceAssumption, ActorAssumption, CalmStep, NEW a \in Actors, NEW s, s = on[a], StopBegin(a)
  PROVE  GoesWell(a)' /\ StartsWell(a)' /\ RunsWell(s)'
<1>. PICK f : f = frame[a]
  OBVIOUS
<1>0. Acts(a) /\ pc[a] = "stop"
  BY DEF Acts, ActorStep, StopStep, StopBegin
<1>1. /\ s \in Sessions /\ f \in Frames /\ IsRunning(s) /\ Captured(s) /\ ~f.errors /\ f.ready
      /\ pc \in [Actors -> Labels] /\ frame \in [Actors -> Frames] /\ SessionTypeOK
  BY <1>0, StopFacts
<1>2. UNCHANGED <<cap, ledger, status, proxy, on>>
  BY DEF StopBegin, sessionVars, deviceVars, Keep
<1>. DEFINE g == [f EXCEPT !.phase = "stop", !.registered = cap[s].evidence, !.todo = StopIds(s)]
<1>3. frame'[a] = g /\ pc'[a] = "next" /\ on'[a] = s
  BY <1>1, <1>2 DEF StopBegin, Goto, StopIds
<1>4. ~g.errors /\ g.ready /\ g.phase = "stop" /\ g.todo = StopIds(s)
  BY <1>1 DEF Frames
<1>. HIDE DEF g
<1>5. Works(s)
  BY <1>0, <1>1, OnlyDeep DEF Captured, CalmStep, Deep, StoppingLabels, ExecutingLabels
<1>6. \A i \in StopIds(s) : ledger[s][i].action.kind = "proxy" => ledger[s][i].action.port = proxy
  <2>1. KindsFit(s)
    BY <1>1 DEF Captured
  <2>2. "proxy" \in cap[s].made => ledger[s][cap[s].ids["proxy"]].action.port = proxy
    BY <1>5 DEF Works
  <2>. QED BY <1>1, <2>1, <2>2, OneProxy
<1>7. Unsettled(s)' = Unsettled(s)
  BY <1>2 DEF Unsettled, Indices
<1>8. RunsWell(s)' /\ StartsWell(a)' /\ (IsRunning(on[a]))'
  BY <1>0, <1>2, <1>3, <1>7, StillStopping DEF StoppingLabels, ExecutingLabels
<1>9. GoesWell(a)'
  BY <1>2, <1>3, <1>4, <1>6, <1>8 DEF GoesWell, IsRunning, ExecutingLabels, StoppingLabels
<1>. QED BY <1>8, <1>9

\* What stop finds is as it was applied, or is given back already.
LEMMA DecideGoesWell ==
  ASSUME DeviceAssumption, ActorAssumption, CalmStep, NEW a \in Actors, Acts(a), NEW s, s = on[a], Decide(a)
  PROVE  GoesWell(a)' /\ StartsWell(a)' /\ RunsWell(s)'
<1>. PICK f : f = frame[a]
  OBVIOUS
<1>0. Acts(a) /\ pc[a] = "next" /\ pc[a] \in ExecutingLabels /\ pc[a] \in StoppingLabels
  <2>1. Acts(a) /\ pc[a] = "next"
    BY DEF Decide
  <2>. QED BY <2>1 DEF StoppingLabels, ExecutingLabels
<1>1. /\ s \in Sessions /\ f \in Frames /\ ~Fault /\ SessionTypeOK /\ NoneMeddled
      /\ pc \in [Actors -> Labels] /\ frame \in [Actors -> Frames]
      /\ ~f.errors /\ f.ready /\ f.phase = "stop" /\ f.todo \subseteq StopIds(s)
      /\ IsRunning(s) /\ s \in captured
  BY <1>0, StopFacts
<1>2. \A i \in f.todo : ledger[s][i].action.kind = "proxy" => ledger[s][i].action.port = proxy
  <2>1. GoesWell(a)
    BY <1>0, CalmFacts
  <2>. QED BY <1>0, <2>1 DEF GoesWell
<1>3. \A i \in f.todo : i \in Indices(s)
  BY <1>0 DEF CalmStep, Shape, ActorFits, ExecutingLabels, Points
<1>4. \A i \in f.todo : DeviceVerdict(s, ledger[s][i].action) \in {"apply", "skipped"}
  <2>. TAKE i \in f.todo
  <2>. DEFINE e == ledger[s][i].action
  <2>1. e \in Actions /\ e.port \in Ports
    BY <1>1, <1>3, ActionFacts DEF Points
  <2>2. e.kind = "proxy" => e.port = proxy
    BY <1>2
  <2>. HIDE DEF e
  <2>3. DeviceVerdict(s, e) \in {"apply", "skipped"}
    BY <1>1, <2>1, <2>2 DEF DeviceVerdict, ProxyVerdict, ReverseVerdict, ProcessVerdict, NoneMeddled
  <2>. QED BY <2>3 DEF e
<1>5. PICK i \in f.todo, v \in {"completed", "skipped"}, to \in {"apply", "mark"} :
        frame' = [frame EXCEPT ![a].current = i, ![a].verdict = v] /\ pc' = [pc EXCEPT ![a] = to]
  BY <1>1, <1>4 DEF Decide, Goto
<1>6. UNCHANGED <<cap, ledger, status, proxy, on>>
  BY <1>0, CaptureChange DEF Decide, sessionVars, deviceVars, Keep, CalmStep, StartRunning, StopPersist
<1>. DEFINE g == [f EXCEPT !.current = i, !.verdict = v]
<1>7. frame'[a] = g /\ pc'[a] = to /\ on'[a] = s
  BY <1>1, <1>5, <1>6
<1>8. ~g.errors /\ g.ready /\ g.phase = "stop" /\ g.todo = f.todo /\ g.verdict \in Settled
  BY <1>1 DEF Frames, Settled
<1>. HIDE DEF g
<1>12. to = "apply" /\ Action(a)'.kind = "process" => Alive(Action(a).proc)'
  <2>1. g.current = i /\ alive' = alive
    BY <1>1, <1>7, DecideStep DEF g, Frames, Decide, deviceVars
  <2>. DEFINE e == ledger[s][i].action
  <2>2. Action(a)' = e
    BY <1>6, <1>7, <2>1 DEF Action
  <2>3. to = "apply" => DeviceVerdict(s, e) = "apply"
    BY <1>7, <2>1, DecideStep DEF CalmStep
  <2>. HIDE DEF e
  <2>. QED BY <2>1, <2>2, <2>3 DEF DeviceVerdict, ProcessVerdict, Alive
<1>9. Unsettled(s)' = Unsettled(s)
  BY <1>6 DEF Unsettled, Indices
<1>10. RunsWell(s)' /\ StartsWell(a)' /\ (IsRunning(on[a]))'
  BY <1>0, <1>6, <1>7, <1>9, StillStopping DEF StoppingLabels, ExecutingLabels
<1>11. GoesWell(a)'
  BY <1>2, <1>6, <1>7, <1>8, <1>10, <1>12 DEF GoesWell, IsRunning, ExecutingLabels, StoppingLabels
<1>. QED BY <1>10, <1>11

LEMMA ApplyGoesWell ==
  ASSUME DeviceAssumption, ActorAssumption, CalmStep, NEW a \in Actors, Acts(a), NEW s, s = on[a], Apply(a)
  PROVE  GoesWell(a)' /\ StartsWell(a)' /\ RunsWell(s)'
<1>. PICK f : f = frame[a]
  OBVIOUS
<1>0. Acts(a) /\ pc[a] = "apply" /\ pc[a] \in ExecutingLabels /\ pc[a] \in StoppingLabels
  <2>1. Acts(a) /\ pc[a] = "apply"
    BY DEF Apply
  <2>. QED BY <2>1 DEF StoppingLabels, ExecutingLabels
<1>1. /\ s \in Sessions /\ f \in Frames /\ ~Fault
      /\ pc \in [Actors -> Labels] /\ frame \in [Actors -> Frames]
      /\ ~f.errors /\ f.ready /\ f.phase = "stop" /\ f.todo \subseteq StopIds(s)
      /\ IsRunning(s) /\ Captured(s) /\ Progress(a, s)
  BY <1>0, StopFacts
<1>2. /\ \A i \in f.todo : ledger[s][i].action.kind = "proxy" /\ i # f.current => ledger[s][i].action.port = proxy
      /\ f.verdict \in Settled
      /\ Action(a).kind = "process" => Alive(Action(a).proc)
  <2>1. GoesWell(a)
    BY <1>0, CalmFacts
  <2>. QED BY <1>0, <2>1 DEF GoesWell
<1>3. frame' = frame /\ Effect(Action(a), TRUE)
  <2>1. \A n : ~Spare(n)
    BY <1>0, CalmFacts
  <2>. QED BY <1>1, <1>2, <2>1 DEF Apply
<1>4. UNCHANGED <<cap, ledger, status, on>> /\ pc'[a] = "mark"
  BY <1>0, <1>1, CaptureChange DEF Apply, sessionVars, Keep, CalmStep, StartRunning, StopPersist, Goto
<1>5. f.current \in StopIds(s)
  BY <1>0, <1>1 DEF Progress
<1>6. \A i \in f.todo : ledger[s][i].action.kind = "proxy" /\ i # f.current => proxy' = proxy
  <2>. TAKE i \in f.todo
  <2>. HAVE ledger[s][i].action.kind = "proxy" /\ i # f.current
  <2>1. i \in StopIds(s)
    BY <1>1
  <2>2. ledger[s][f.current].action.kind # "proxy"
    BY <1>1, <1>5, <2>1, OneProxy DEF Captured
  <2>. QED BY <1>3, <2>2 DEF Action, Effect, SetReverse, Terminate
<1>9. Unsettled(s)' = Unsettled(s)
  BY <1>4 DEF Unsettled, Indices
<1>10. RunsWell(s)' /\ StartsWell(a)' /\ (IsRunning(on[a]))'
  BY <1>0, <1>4, <1>9, StillStopping DEF StoppingLabels, ExecutingLabels
<1>11. GoesWell(a)'
  BY <1>1, <1>2, <1>3, <1>4, <1>6, <1>10 DEF GoesWell, IsRunning, ExecutingLabels, StoppingLabels
<1>. QED BY <1>10, <1>11

LEMMA MarkGoesWell ==
  ASSUME DeviceAssumption, ActorAssumption, CalmStep, NEW a \in Actors, Acts(a), NEW s, s = on[a], Mark(a)
  PROVE  GoesWell(a)' /\ StartsWell(a)' /\ RunsWell(s)'
<1>. PICK f : f = frame[a]
  OBVIOUS
<1>0. Acts(a) /\ pc[a] = "mark" /\ pc[a] \in ExecutingLabels /\ pc[a] \in StoppingLabels
  <2>1. Acts(a) /\ pc[a] = "mark"
    BY DEF Mark
  <2>. QED BY <2>1 DEF StoppingLabels, ExecutingLabels
<1>1. /\ s \in Sessions /\ f \in Frames /\ LedgersKept /\ SessionTypeOK
      /\ pc \in [Actors -> Labels] /\ frame \in [Actors -> Frames]
      /\ ~f.errors /\ f.ready /\ f.phase = "stop" /\ f.todo \subseteq StopIds(s)
      /\ IsRunning(s) /\ Captured(s)
  BY <1>0, StopFacts
<1>2. /\ \A i \in f.todo : ledger[s][i].action.kind = "proxy" /\ i # f.current => ledger[s][i].action.port = proxy
      /\ f.verdict \in Settled
  <2>1. GoesWell(a)
    BY <1>0, CalmFacts
  <2>. QED BY <1>0, <2>1 DEF GoesWell
<1>. DEFINE rest == f.todo \ {f.current}
            g == [f EXCEPT !.todo = rest, !.errors = f.errors \/ f.verdict \notin Settled]
<1>3. frame'[a] = g /\ pc'[a] = (IF rest = {} THEN AfterActions(a) ELSE "next") /\ on'[a] = s
  BY <1>1 DEF Mark, Goto, Keep
<1>4. ~g.errors /\ g.ready /\ g.phase = "stop" /\ g.todo = rest
  BY <1>1, <1>2 DEF Frames
<1>. HIDE DEF g
<1>5. pc'[a] \in {"evidence", "next"}
  BY <1>1, <1>3 DEF AfterActions
<1>6. UNCHANGED <<cap, status, on, proxy>>
  BY <1>0, CaptureChange DEF Mark, UpdateAction, deviceVars, Keep, CalmStep, StartRunning, StopPersist
<1>7. Unsettled(s)' \subseteq Unsettled(s)
  <2>1. \A j \in Indices(s) : ledger'[s][j].status = IF j = f.current THEN f.verdict ELSE ledger[s][j].status
    BY <1>1, MarkStep DEF CalmStep
  <2>2. Indices(s)' = Indices(s)
    BY <1>0, <1>1, UpdateFacts DEF Mark, CalmStep, Shape, ActorFits, Points, Frames, Verdicts
  <2>. QED BY <1>2, <2>1, <2>2 DEF Unsettled
<1>8. \A i \in rest : i \in Indices(s) /\ ledger'[s][i].action = ledger[s][i].action
  BY <1>0, <1>1 DEF CalmStep, Shape, ActorFits, ExecutingLabels, Points, LedgersKept
<1>9. RunsWell(s)' /\ StartsWell(a)' /\ (IsRunning(on[a]))'
  BY <1>0, <1>3, <1>5, <1>6, <1>7, StillStopping DEF StoppingLabels, ExecutingLabels
<1>10. \A i \in rest : ledger'[s][i].action.kind = "proxy" => ledger'[s][i].action.port = proxy'
  BY <1>2, <1>6, <1>8
<1>11. GoesWell(a)'
  <2>. HIDE DEF rest
  <2>. QED BY <1>3, <1>4, <1>5, <1>9, <1>10 DEF GoesWell, IsRunning, ExecutingLabels, StoppingLabels
<1>. QED BY <1>9, <1>11

LEMMA EvidenceGoesWell ==
  ASSUME DeviceAssumption, ActorAssumption, CalmStep, NEW a \in Actors, NEW s, s = on[a], StopEvidence(a)
  PROVE  GoesWell(a)' /\ StartsWell(a)' /\ RunsWell(s)'
<1>. PICK f : f = frame[a]
  OBVIOUS
<1>0. Acts(a) /\ pc[a] = "evidence" /\ pc[a] \in StoppingLabels
  BY DEF Acts, ActorStep, StopStep, StopEvidence, StoppingLabels
<1>1. /\ s \in Sessions /\ f \in Frames /\ ~f.errors /\ ~Fault
      /\ pc \in [Actors -> Labels] /\ frame \in [Actors -> Frames]
  BY <1>0, StopFacts
<1>2. UNCHANGED <<cap, ledger, status, on>>
  BY DEF StopEvidence, sessionVars, Keep
<1>. DEFINE g == [f EXCEPT !.registered = TRUE]
<1>3. frame'[a] = g /\ pc'[a] = "stopped" /\ on'[a] = s
  BY <1>1, <1>2 DEF StopEvidence, Goto
<1>4. ~g.errors
  BY <1>1 DEF Frames
<1>. HIDE DEF g
<1>5. Unsettled(s)' = Unsettled(s)
  BY <1>2 DEF Unsettled, Indices
<1>6. RunsWell(s)' /\ StartsWell(a)' /\ (IsRunning(on[a]))'
  BY <1>0, <1>2, <1>3, <1>5, StillStopping DEF StoppingLabels, ExecutingLabels
<1>7. GoesWell(a)'
  BY <1>2, <1>3, <1>4, <1>6 DEF GoesWell, IsRunning, ExecutingLabels, StoppingLabels
<1>. QED BY <1>6, <1>7

\* A stop that had no error has given back all that the session owed.
LEMMA PersistGoesWell ==
  ASSUME DeviceAssumption, ActorAssumption, CalmStep, NEW a \in Actors, NEW s, s = on[a], StopPersist(a)
  PROVE  GoesWell(a)' /\ StartsWell(a)' /\ RunsWell(s)'
<1>. PICK f : f = frame[a]
  OBVIOUS
<1>0. Acts(a) /\ pc[a] = "stopped" /\ pc[a] \in StoppingLabels
  BY DEF Acts, ActorStep, StopStep, StopPersist, StoppingLabels
<1>1. /\ s \in Sessions /\ f \in Frames /\ ~f.errors /\ Captured(s) /\ Progress(a, s)
      /\ pc \in [Actors -> Labels] /\ frame \in [Actors -> Frames] /\ cap \in [Sessions -> Captures]
      /\ cap[s] \in Captures
  BY <1>0, StopFacts
<1>. DEFINE c == [cap[s] EXCEPT !.status = "stopped", !.evidence = f.registered]
<1>2. /\ cap' = [cap EXCEPT ![s] = c] /\ frame' = frame /\ pc'[a] = "activate" /\ on'[a] = s
      /\ UNCHANGED <<ledger, status>>
  BY <1>1 DEF StopPersist, Goto, Keep, sessionVars
<1>3. c.status = "stopped"
  BY <1>1 DEF Captures
<1>4. cap'[s] = c
  BY <1>1, <1>2
<1>. HIDE DEF c
<1>5. ~IsRunning(s)' /\ cap'[s].status # "stop_failed"
  BY <1>3, <1>4 DEF IsRunning
<1>6. Unsettled(s)' = {}
  <2>1. Unsettled(s) \cap StopIds(s) = {} /\ Unsettled(s) \subseteq StopIds(s)
    BY <1>0, <1>1 DEF Progress, Captured
  <2>. QED BY <1>2, <2>1 DEF Unsettled, Indices
<1>7. RunsWell(s)'
  BY <1>5, <1>6 DEF RunsWell
<1>8. GoesWell(a)' /\ StartsWell(a)'
  BY <1>1, <1>2, <1>5 DEF GoesWell, StartsWell, IsRunning, StartLabels, ExecutingLabels, StoppingLabels
<1>. QED BY <1>7, <1>8

\* Who is at none of the steps of a start or a stop works on a session that owes nothing.
LEMMA NothingLeft ==
  ASSUME DeviceAssumption, ActorAssumption, CalmStep, NEW a \in Actors, Acts(a),
         pc[a] \in {"activate", "cleanup", "endCleanup"}, NEW s, s = on[a]
  PROVE  /\ s \in Sessions /\ Deep(a) /\ ~IsRunning(s) /\ cap[s].status # "stop_failed" /\ Unsettled(s) = {}
         /\ ~frame[a].errors /\ frame[a] \in Frames
         /\ pc \in [Actors -> Labels] /\ frame \in [Actors -> Frames] /\ status \in [Sessions -> Statuses]
<1>1. Deep(a) /\ GoesWell(a)
  BY CalmFacts DEF Deep
<1>2. /\ s \in Sessions /\ RunsWell(s) /\ ~frame[a].errors /\ frame[a] \in Frames
      /\ pc \in [Actors -> Labels] /\ frame \in [Actors -> Frames] /\ SessionTypeOK
  BY <1>1, DeepFacts
<1>3. ~IsRunning(s)
  BY <1>1 DEF GoesWell
<1>4. Unsettled(s) = {}
  <2>1. ASSUME NEW b \in Actors, pc[b] \in StartLabels PROVE FALSE
    BY <1>1, <2>1, OnlyDeep DEF CalmStep, Deep, StartLabels
  <2>. QED BY <1>2, <1>3, <2>1 DEF RunsWell
<1>. QED BY <1>1, <1>2, <1>3, <1>4 DEF RunsWell, SessionTypeOK

\* Such an operation leaves it like that.
LEMMA LeavesNothing ==
  ASSUME DeviceAssumption, ActorAssumption, CalmStep, NEW a \in Actors, Acts(a),
         pc[a] \in {"activate", "cleanup", "endCleanup"}, NEW s, s = on[a],
         UNCHANGED <<cap, ledger>>
  PROVE  RunsWell(s)' /\ ~IsRunning(s)'
<1>1. ~IsRunning(s) /\ cap[s].status # "stop_failed" /\ Unsettled(s) = {}
  BY NothingLeft
<1>. QED BY <1>1 DEF RunsWell, IsRunning, Unsettled, Indices

LEMMA EndsGoWell ==
  ASSUME DeviceAssumption, ActorAssumption, CalmStep, NEW a \in Actors, Acts(a), NEW s, s = on[a],
         StopActivate(a) \/ ReturnCleaned(a) \/ EndCleanup(a), UNCHANGED cap
  PROVE  GoesWell(a)' /\ StartsWell(a)' /\ RunsWell(s)'
<1>1. pc[a] \in {"activate", "cleanup", "endCleanup"} /\ UNCHANGED ledger
  BY DEF StopActivate, ReturnCleaned, EndCleanup, SetStatus, sessionVars
<1>2. RunsWell(s)' /\ ~IsRunning(s)'
  BY <1>1, LeavesNothing
<1>3. pc \in [Actors -> Labels] /\ frame \in [Actors -> Frames]
  BY <1>1, NothingLeft
<1>4. CASE Return(a)
  BY <1>2, <1>3, <1>4, Ended
<1>5. CASE ~Return(a)
  <2>1. /\ frame'[a] = [IdleFrame EXCEPT !.job = "cleanup"] /\ pc'[a] = "cleanup" /\ on' = on
    BY <1>3, <1>5 DEF StopActivate, ReturnCleaned, EndCleanup, StopReturns, Goto, Keep
  <2>2. ~frame'[a].errors /\ frame'[a].ready
    BY <2>1 DEF IdleFrame
  <2>. QED BY <1>2, <2>1, <2>2 DEF GoesWell, StartsWell, IsRunning, StartLabels, ExecutingLabels, StoppingLabels
<1>. QED BY <1>4, <1>5

\* A cleanup finds nothing to give back.
LEMMA CleanupGoesWell ==
  ASSUME DeviceAssumption, ActorAssumption, CalmStep, NEW a \in Actors, Acts(a), NEW s, s = on[a],
         BeginCleanup(a), UNCHANGED cap
  PROVE  GoesWell(a)' /\ StartsWell(a)' /\ RunsWell(s)'
<1>. PICK f : f = frame[a]
  OBVIOUS
<1>1. pc[a] = "cleanup" /\ UNCHANGED <<ledger, on>>
  BY DEF BeginCleanup, SetStatus, Keep
<1>2. RunsWell(s)' /\ ~IsRunning(s)'
  BY <1>1, LeavesNothing
<1>3. /\ pc \in [Actors -> Labels] /\ frame \in [Actors -> Frames] /\ f \in Frames /\ ~f.errors
      /\ Unsettled(s) = {}
  BY <1>1, NothingLeft
<1>4. pc'[a] = "endCleanup"
  BY <1>3 DEF BeginCleanup, Goto
<1>5. PICK ready \in BOOLEAN :
        frame' = [frame EXCEPT ![a].phase = "cleanup", ![a].todo = Unsettled(s), ![a].ready = ready]
  BY DEF BeginCleanup, Begin
<1>. DEFINE g == [f EXCEPT !.phase = "cleanup", !.todo = Unsettled(s), !.ready = ready]
<1>6. frame'[a] = g
  BY <1>3, <1>5
<1>7. ~g.errors
  BY <1>3 DEF Frames
<1>. HIDE DEF g
<1>8. ~frame'[a].errors
  BY <1>6, <1>7
<1>. QED BY <1>1, <1>2, <1>4, <1>8 DEF GoesWell, StartsWell, IsRunning, StartLabels, ExecutingLabels, StoppingLabels

\* The step of an operation.
LEMMA DeepGoesWell ==
  ASSUME DeviceAssumption, ActorAssumption, CalmStep, NEW a \in Actors, Acts(a), Deep(a), NEW s, s = on[a]
  PROVE  GoesWell(a)' /\ StartsWell(a)' /\ RunsWell(s)'
<1>1. ~Fault /\ ~Crash(a) /\ GoesWell(a) /\ pc[a] \notin {"rollback", "endRollback"}
  BY CalmFacts DEF GoesWell
<1>2. ~Call(a)
  BY DEF Deep, Call, StartRequest, StopRequest, CleanupLock
<1>3. CASE ExecutorStep(a) /\ UNCHANGED cap
  <2>1. ~BeginRollback(a) /\ ~EndRollback(a)
    BY <1>1 DEF BeginRollback, EndRollback
  <2>. QED BY <1>3, <2>1, DecideGoesWell, ApplyGoesWell, MarkGoesWell, EndsGoWell, CleanupGoesWell
           DEF ExecutorStep
<1>4. CASE StartStep(a)
  <2>1. ~StartRaises(a) /\ ~StartDropProcess(a) /\ ~StartLock(a) /\ ~StartRefused(a)
    BY <1>1 DEF StartRaises, StartDropProcess, StartLock, StartRefused, Deep
  <2>. QED BY <1>4, <2>1, SpawnGoesWell, RecordGoesWell, ChangeGoesWell, ReadGoesWell, RunningGoesWell
           DEF StartStep, Records
<1>5. CASE StopStep(a)
  <2>1. ~StopRaises(a) /\ ~StopRefused(a) /\ ~StopLock(a)
    BY <1>1 DEF StopRaises, StopRefused, StopLock, Deep
  <2>2. StopActivate(a) => UNCHANGED cap
    BY DEF StopActivate
  <2>. QED BY <1>5, <2>1, <2>2, StopBeginGoesWell, EvidenceGoesWell, PersistGoesWell, EndsGoWell
           DEF StopStep
<1>. QED BY <1>1, <1>2, <1>3, <1>4, <1>5 DEF Acts, ActorStep

\* The invariant of calm states.
LEMMA WorkingStep ==
  ASSUME DeviceAssumption, ActorAssumption, CalmStep
  PROVE  Working'
<1>0. Shape /\ Working
  BY DEF CalmStep
<1>1. ASSUME NEW a \in Actors, Acts(a)
      PROVE  Working'
  <2>1. NoneMeddled' /\ NoneFailed'
    BY <1>1, CalmFacts, NoneFailedStep
  <2>2. CASE Deep(a)
    <3>1. ASSUME NEW b \in Actors PROVE GoesWell(b)' /\ StartsWell(b)'
      BY <1>1, <2>2, DeepGoesWell, OthersGoWell
    <3>2. ASSUME NEW s \in Sessions PROVE RunsWell(s)'
      BY <1>1, <2>2, DeepGoesWell, ElseRunsWell
    <3>. QED BY <2>1, <3>1, <3>2 DEF Working
  <2>3. CASE ~Deep(a)
    <3>1. UNCHANGED <<cap, ledger, deviceVars>> /\ UNCHANGED status /\ GoesWell(a)' /\ StartsWell(a)'
      BY <1>1, <2>3, EarlyGoesWell DEF sessionVars
    <3>2. ASSUME NEW b \in Actors PROVE GoesWell(b)' /\ StartsWell(b)'
      BY <1>1, <3>1, OthersGoWell
    <3>3. ASSUME NEW s \in Sessions PROVE RunsWell(s)'
      <4>1. \A b \in Actors : Deep(b) => Still(b)
        BY <1>1, <2>3, CalmFacts
      <4>. QED BY <1>0, <3>1, <4>1, RunsWellKept
    <3>. QED BY <2>1, <3>2, <3>3 DEF Working
  <2>. QED BY <2>2, <2>3
<1>2. ASSUME UNCHANGED <<actorVars, cap>>, \A b \in Actors : Still(b), UNCHANGED deviceVars,
             UNCHANGED sessionVars \/ \E s \in Sessions : CreateSession(s)
      PROVE  Working'
  <2>1. UNCHANGED ledger /\ \A s \in Sessions : status'[s] = "cleaned" => status[s] = "cleaned"
    <3>1. SessionTypeOK
      BY <1>0, UnderWay DEF Shape, TypeOK
    <3>. QED BY <1>2, <3>1 DEF sessionVars, CreateSession, Initialize, Activate, CreateFails, SessionTypeOK
  <2>2. NoneMeddled' /\ NoneFailed'
    BY <1>0, <1>2, <2>1, NoneFailedKept DEF Working, NoneMeddled, deviceVars
  <2>3. ASSUME NEW b \in Actors PROVE GoesWell(b)' /\ StartsWell(b)'
    <3>1. GoesWell(b) /\ StartsWell(b) /\ Still(b)
      BY <1>0, <1>2 DEF Working
    <3>2. GoesWell(b)'
      BY <1>2, <2>1, <3>1 DEF GoesWell, Still, IsRunning, Action, Alive, deviceVars
    <3>3. StartsWell(b)'
      BY <1>2, <2>1, <3>1, StandsBy
    <3>. QED BY <3>2, <3>3
  <2>4. ASSUME NEW s \in Sessions PROVE RunsWell(s)'
    BY <1>0, <1>2, <2>1, RunsWellKept
  <2>. QED BY <2>2, <2>3, <2>4 DEF Working
<1>3. ~Interference
  BY StaysCalm DEF CalmStep
<1>. QED BY <1>0, <1>1, <1>2, <1>3, StepCases DEF CalmStep

\* While nothing fails, dies or interferes, a capture that state.json calls running
\* works whenever nobody holds the device lock: traffic.start writes it down only when
\* all is in place, one session is captured at a time, and a stop, on its own or in a
\* cleanup, changes what it says before it releases the lock.
THEOREM RunningIsCaptured == Spec => []RunningIsLive
<1>. DEFINE I == Shape /\ Debts /\ Reopening /\ (Calm => Working)
<1>1. Init => I
  <2>1. Init => Debts /\ Shape
    BY DeviceAssumption, ActorAssumption, InitShape, InitDebts
  <2>2. ASSUME Init
        PROVE  /\ captured = {} /\ \A s \in Sessions : Indices(s) = {} /\ status[s] = "absent"
               /\ \A a \in Actors : pc[a] = "idle"
    BY <2>2 DEF Init, SessionInit, Indices
  <2>3. Init => Reopening
    BY <2>2 DEF Reopening, SessionFits, Progress, Open, StartLabels, ExecutingLabels
  <2>4. ASSUME Init PROVE Working
    <3>1. /\ reused = {} /\ \A p \in Ports : reverse[p] = "none"
          /\ \A s \in Sessions : cap[s].status = "none"
          /\ \A a \in Actors : ~frame[a].errors
      BY <2>4 DEF Init, DeviceInit, CaptureInit, NoCapture, IdleFrame
    <3>2. NoneMeddled /\ NoneFailed
      BY <2>2, <2>4, <3>1 DEF NoneMeddled, NoneFailed, Unsettled
    <3>3. \A a \in Actors : GoesWell(a) /\ StartsWell(a)
      BY <2>2, <2>4, <3>1 DEF GoesWell, StartsWell, StartLabels, StoppingLabels, ExecutingLabels
    <3>4. \A s \in Sessions : RunsWell(s)
      BY <2>2, <2>4, <3>1 DEF RunsWell, IsRunning, Unsettled
    <3>. QED BY <3>2, <3>3, <3>4 DEF Working
  <2>. QED BY <2>1, <2>3, <2>4
<1>2. I /\ [Next]_vars => I'
  <2>1. ASSUME Shape, Debts, Reopening, [Next]_vars PROVE Shape' /\ Debts' /\ Reopening'
    BY <2>1, DeviceAssumption, ActorAssumption, NextShape, DebtsStep, ReopeningStep
  <2>2. ASSUME Shape, Debts, Reopening, Calm => Working, [Next]_vars, Calm' PROVE Working'
    <3>1. Calm
      BY <2>2, DeviceAssumption, ActorAssumption, StaysCalm
    <3>2. CalmStep
      BY <2>1, <2>2, <3>1 DEF CalmStep, Debts
    <3>. QED BY <3>2, DeviceAssumption, ActorAssumption, WorkingStep
  <2>. QED BY <2>1, <2>2
<1>3. I => RunningIsLive
  <2>1. ASSUME Shape, Working, lock = NoActor, NEW s \in Sessions, cap[s].status = "running"
        PROVE  \E x \in alive : /\ proxy = x.port /\ reverse[x.port] = "own"
                                /\ \E i \in Unsettled(s) : ledger[s][i].action.proc = x.id
    <3>1. Works(s)
      BY <2>1, ActorAssumption, NobodyDeep DEF IsRunning
    <3>. QED BY <3>1 DEF Works
  <2>. QED BY <2>1 DEF RunningIsLive, Calm
<1>. QED BY <1>1, <1>2, <1>3, PTL DEF Spec

(***************************************************************************)
(* Conflicts.  While nobody interferes or dies, and no session's actions   *)
(* are executed while another one has some, all actions on the proxy have  *)
(* the same previous value, and the one that is in effect is the last of   *)
(* its session and keeps the next start from going over it (Stacked).      *)
(***************************************************************************)
Quiet == externals = 0 /\ crashes = 0 /\ ~trespass

IsProxy(s, i) == i \in Indices(s) /\ ledger[s][i].action.kind = "proxy"
LastProxy(s, j) == IsProxy(s, j) /\ \A i \in Indices(s) : IsProxy(s, i) => i <= j
Tried(s, j) == ledger[s][j].status \in {"failed", "conflict"}

\* What keeps a start from going over the proxy action j of s: a capture that is
\* to be stopped, an attempt that failed, or a start that is not through with it,
\* at step l with the locals f.
RollingBack(l, f) == l \in ExecutingLabels /\ f.phase = "rollback"
CaptureHolds(s, j) == cap[s].status \in {"running", "stop_failed"} /\ j \in StopIds(s)
StartHolds(l, f, j) ==
  \/ l \in {"running", "rollback"} /\ f.ids["proxy"] = j
  \/ RollingBack(l, f) /\ j \in f.todo
Held(s, j) ==
  \/ CaptureHolds(s, j) \/ Tried(s, j)
  \/ \E a \in Actors : on[a] = s /\ StartHolds(pc[a], frame[a], j)
InEffect(s, j) ==
  /\ LastProxy(s, j) /\ j \in Unsettled(s) /\ ledger[s][j].action.port = proxy
  /\ status[s] # "cleaned" /\ Held(s, j)

\* The ids a start keeps name its actions, and the last one on the proxy.
IdsFit(f, s) ==
  /\ \A k \in Kinds : f.ids[k] # 0 => f.ids[k] \in Indices(s) /\ ledger[s][f.ids[k]].action.kind = k
  /\ f.ids["proxy"] # 0 => LastProxy(s, f.ids["proxy"])

\* The proxy as a start finds it and leaves it.
Staged(l, f, s) ==
  /\ l \in StartLabels \ {"running"} => proxy = foreign
  /\ l \in {"recordProxy", "putProxy"} => f.prev = foreign
  /\ l \in StartLabels \ {"putProxy", "running"} => f.ids["proxy"] = 0
  /\ l \in {"putProxy", "running"} =>
       f.ids["proxy"] \in Unsettled(s) /\ ledger[s][f.ids["proxy"]].action.port = f.port
  /\ l = "running" => proxy = f.port /\ "proxy" \in f.made
  /\ l \in StartLabels \cup {"rollback"} \/ RollingBack(l, f) => IdsFit(f, s)

\* An operation that executes actions meets only those of its session, and what a
\* cleanup has left unsettled was tried.
Cause(s, i) ==
  \E j \in Indices(s) : /\ j > i /\ Tried(s, j)
                        /\ ledger[s][j].action.kind = "proxy" /\ ledger[s][j].action.port = proxy
Executes(l, f, s) ==
  l \in ExecutingLabels =>
    /\ f.phase # "none"
    /\ \A t \in Sessions \ {s} : ~PendingCleanup(t)
    /\ f.phase = "cleanup" => \A j \in Unsettled(s) \ f.todo : Tried(s, j)
    /\ f.phase = "rollback" => f.todo \subseteq {f.ids[k] : k \in Kinds}
    /\ l \in {"apply", "mark"} => f.current \in f.todo
    /\ l = "apply" => f.verdict # "conflict"
    /\ l = "mark" /\ f.verdict \in Settled /\ ledger[s][f.current].action.kind = "proxy" => proxy = foreign
    /\ l = "mark" /\ f.verdict = "conflict" => Cause(s, f.current)

Placed(a) == Staged(pc[a], frame[a], on[a]) /\ Executes(pc[a], frame[a], on[a])

NoneTaken == \A p \in Ports : reverse[p] # "other"
SamePrevs == \A s \in Sessions : \A i \in Indices(s) : IsProxy(s, i) => ledger[s][i].action.prev = foreign
CapturesFit == \A s \in Sessions : cap[s].status # "none" => KindsFit(s)
ProxyHeld == proxy # foreign => \E s \in Sessions : \E j \in Indices(s) : InEffect(s, j)

Stacked ==
  /\ NoneTaken /\ SamePrevs /\ CapturesFit /\ ProxyHeld
  /\ \A a \in Actors : Placed(a)

\* A step in such a state, to another.
QuietChange ==
  /\ Shape /\ Shape' /\ Reopening /\ Reopening' /\ Announced /\ Announced' /\ Stacked
  /\ Quiet /\ Quiet' /\ [Next]_vars

\* What was executed out of turn is remembered.
LEMMA TrespassKept ==
  ASSUME Shape, [Next]_vars, ~trespass'
  PROVE  ~trespass
<1>. USE DEF NoFault, Fault, Spare
<1>1. ASSUME NEW a \in Actors, Acts(a) PROVE ~trespass
  <2>1. CASE Call(a) \/ Crash(a)
    BY <2>1 DEF Call, Crash, StartRequest, StopRequest, CleanupLock
  <2>2. CASE ExecutorStep(a)
    BY <2>2 DEF ExecutorStep, Decide, Apply, Mark, BeginRollback, EndRollback, ReturnCleaned,
                BeginCleanup, EndCleanup, Begin, Trespassing
  <2>3. CASE StartStep(a)
    BY <2>3 DEF StartStep, StartLock, StartRefused, StartSpawn, StartSpawnFails, StartReadProxy,
                StartRunning, StartRaises, StartDropProcess, StartAddReverse, StartPutProxy, StartChanged,
                StartRecordProcess, StartRecordReverse, StartRecordProxy, StartRecord
  <2>4. CASE StopStep(a)
    BY <2>4 DEF StopStep, StopRefused, StopLock, StopBegin, StopEvidence, StopPersist, StopRaises,
                StopActivate, Trespassing
  <2>. QED BY <1>1, <2>1, <2>2, <2>3, <2>4 DEF Acts, ActorStep
<1>2. UNCHANGED actorVars => trespass' = trespass
  BY DEF actorVars
<1>. QED BY <1>1, <1>2, StepCases

LEMMA StaysQuiet ==
  ASSUME DeviceAssumption, ActorAssumption, Shape, [Next]_vars, Quiet'
  PROVE  /\ Quiet /\ ~Interference
         /\ \A a \in Actors : ~Crash(a)
<1>1. /\ crashes \in Nat /\ crashes' \in {crashes, crashes + 1}
      /\ \A a \in Actors : Crash(a) => crashes' = crashes + 1
  BY CrashesCounted
<1>2. externals \in Nat /\ (Interference => externals' = externals + 1)
  <2>1. DeviceTypeOK /\ externals \in Nat
    BY DEF Shape, TypeOK, DeviceTypeOK, DeviceAssumption
  <2>. QED BY <2>1, EnvironmentStep DEF Interference
<1>3. Interference \/ externals' = externals
  <2>1. UNCHANGED deviceVars => externals' = externals
    BY DEF deviceVars
  <2>. QED BY <2>1, OthersVars, StepCases
<1>4. ~trespass
  BY TrespassKept DEF Quiet
<1>. QED BY <1>1, <1>2, <1>3, <1>4 DEF Quiet

\* The first steps of an operation leave everything but the actor as it is.
LEMMA EarlyVars ==
  ASSUME NEW a \in Actors, Acts(a), ~Crash(a), ~Deep(a)
  PROVE  UNCHANGED <<cap, sessionVars, deviceVars>>
<1>1. \/ Call(a)
      \/ StartLock(a) \/ StartRefused(a) \/ StopRefused(a) \/ StopLock(a)
  BY DEF Acts, ActorStep, Deep, ExecutorStep, StartStep, StopStep, Decide, Apply, Mark,
     BeginRollback, EndRollback, ReturnCleaned, BeginCleanup, EndCleanup, StartSpawn, StartSpawnFails,
     StartRecordProcess, StartRecordReverse, StartRecordProxy, StartRecord, StartAddReverse,
     StartReadProxy, StartPutProxy, StartRunning, StartRaises, StartDropProcess,
     StopBegin, StopEvidence, StopPersist, StopRaises, StopActivate
<1>. QED BY <1>1 DEF Call, StartRequest, StopRequest, CleanupLock, StartLock, StartRefused, StopRefused, StopLock

\* Where an actor is, said of the values.
LEMMA PlacedAt ==
  ASSUME NEW a \in Actors, NEW l, NEW f, NEW s, l = pc'[a], f = frame'[a], s = on'[a],
         Staged(l, f, s)', Executes(l, f, s)'
  PROVE  Placed(a)'
<1>1. Staged(pc[a], frame[a], on[a])'
  BY DEF Staged, RollingBack, IdsFit, LastProxy, IsProxy, Unsettled, Indices
<1>2. Executes(pc[a], frame[a], on[a])'
  BY DEF Executes, Cause, Tried, PendingCleanup, Unsettled, Indices
<1>. QED BY <1>1, <1>2 DEF Placed

\* Who stands by stays in place.
LEMMA PlacedKept ==
  ASSUME NEW a \in Actors, Placed(a), Still(a), UNCHANGED <<ledger, proxy, foreign>>
  PROVE  Placed(a)'
<1>. PICK l, f, s : l = pc[a] /\ f = frame[a] /\ s = on[a]
  OBVIOUS
<1>1. l = pc'[a] /\ f = frame'[a] /\ s = on'[a]
  BY DEF Still
<1>2. Staged(l, f, s) /\ Executes(l, f, s)
  BY DEF Placed
<1>3. /\ Unsettled(s)' = Unsettled(s) /\ Indices(s)' = Indices(s)
      /\ \A t : PendingCleanup(t)' = PendingCleanup(t)
      /\ \A j : LastProxy(s, j)' = LastProxy(s, j)
      /\ \A j : Tried(s, j)' = Tried(s, j)
      /\ \A j : Cause(s, j)' = Cause(s, j)
  BY DEF Unsettled, Indices, PendingCleanup, LastProxy, IsProxy, Tried, Cause
<1>4. Staged(l, f, s)'
  BY <1>2, <1>3 DEF Staged, IdsFit
<1>5. Executes(l, f, s)'
  BY <1>2, <1>3 DEF Executes
<1>. QED BY <1>1, <1>4, <1>5, PlacedAt

\* Who is at none of these steps is in place.
LEMMA PlacedElse ==
  ASSUME NEW a \in Actors, pc'[a] \notin StartLabels \cup ExecutingLabels \cup {"rollback"}
  PROVE  Placed(a)'
BY DEF Placed, Staged, Executes, RollingBack, StartLabels

\* What is known of the actor of a step.
LEMMA QuietFacts ==
  ASSUME DeviceAssumption, ActorAssumption, QuietChange, NEW a \in Actors, Acts(a),
         NEW l, l = pc[a], NEW f, f = frame[a], NEW s, s = on[a]
  PROVE  /\ ~Crash(a) /\ foreign' = foreign /\ foreign \notin Ports
         /\ LedgersKept /\ LedgersGrow /\ StatusChange
         /\ \A b \in Actors \ {a} : Still(b)
         /\ pc \in [Actors -> Labels] /\ frame \in [Actors -> Frames] /\ f \in Frames
         /\ on \in [Actors -> Sessions \cup {NoSession}] /\ cap \in [Sessions -> Captures]
         /\ SessionTypeOK /\ DeviceTypeOK
         /\ Deep(a) => s \in Sessions
         /\ Staged(l, f, s) /\ Executes(l, f, s)
<1>1. /\ ~Crash(a) /\ ~Interference
      /\ LedgersKept /\ LedgersGrow /\ StatusChange
      /\ \A b \in Actors \ {a} : Still(b)
  BY StaysQuiet, LedgerStep, SessionStep, ActsAlone DEF QuietChange
<1>2. foreign' = foreign
  BY OthersVars DEF QuietChange
<1>3. /\ pc \in [Actors -> Labels] /\ frame \in [Actors -> Frames] /\ f \in Frames
      /\ on \in [Actors -> Sessions \cup {NoSession}] /\ cap \in [Sessions -> Captures]
      /\ SessionTypeOK /\ DeviceTypeOK
      /\ Deep(a) => s \in Sessions
  BY UnderWay DEF QuietChange, Shape, TypeOK, CaptureTypeOK, Deep
<1>4. foreign \notin Ports
  BY <1>3 DEF DeviceTypeOK, DeviceAssumption
<1>5. Staged(l, f, s) /\ Executes(l, f, s)
  BY DEF QuietChange, Stacked, Placed
<1>. QED BY <1>1, <1>2, <1>3, <1>4, <1>5

\* An action of kind k, with previous value v, is recorded as number n of the
\* session s by a, whose locals are f, and a goes on with it or falls back.
Recording(a, s, f, k, v, n) ==
  /\ k \in Kinds /\ n \in Nat \ {0} /\ n \notin Indices(s) /\ \A i \in Indices(s) : i < n
  /\ Indices(s)' = Indices(s) \cup {n}
  /\ ledger'[s][n].status = "pending" /\ ledger'[s][n].action.kind = k
  /\ ledger'[s][n].action.port = f.port /\ ledger'[s][n].action.prev = v
  /\ \A j \in Indices(s) : ledger'[s][j] = ledger[s][j]
  /\ \A t \in Sessions \ {s} : ledger'[t] = ledger[t]
  /\ pc[a] \in StartLabels
  /\ k = "proxy" => v = f.prev /\ pc[a] = "recordProxy" /\ pc'[a] \in {"putProxy", "rollback"}
  /\ k # "proxy" => /\ pc[a] \in {"recordProcess", "recordReverse"}
                    /\ pc'[a] \in {"readProxy", "recordReverse", "addReverse", "rollback"}
  /\ on'[a] = s /\ UNCHANGED <<cap, deviceVars>>
  /\ \/ pc'[a] # "rollback" /\ frame'[a] = [f EXCEPT !.ids = [f.ids EXCEPT ![k] = n]]
     \/ pc'[a] = "rollback" /\ frame'[a] = f

LEMMA RecordNew ==
  ASSUME DeviceAssumption, Shape, NEW a \in Actors, Records(a), NEW s, s = on[a], NEW f, f = frame[a]
  PROVE  \E k, v, n : Recording(a, s, f, k, v, n)
<1>1. PICK k, v, from, to :
        /\ StartRecord(a, k, v, from, to)
        /\ k \in Kinds /\ v \in ProxyValues
        /\ from = "recordProcess" => k = "process" /\ to \in {"readProxy", "recordReverse"}
        /\ from = "recordReverse" => k = "reverse" /\ to = "addReverse"
        /\ from = "recordProxy" => k = "proxy" /\ to = "putProxy" /\ v = f.prev
        /\ from \in {"recordProcess", "recordReverse", "recordProxy"}
  <2>1. CASE StartRecordProcess(a)
    BY <2>1, RecordCases DEF StartRecordProcess
  <2>2. CASE StartRecordReverse(a)
    BY <2>2, RecordCases
  <2>3. CASE StartRecordProxy(a)
    BY <2>3, RecordCases
  <2>. QED BY <2>1, <2>2, <2>3 DEF Records
<1>2. /\ pc[a] = from /\ pc[a] \in StartLabels /\ f \in Frames /\ f.port \in Ports /\ s \in Sessions
      /\ SessionTypeOK /\ pc \in [Actors -> Labels] /\ frame \in [Actors -> Frames]
  BY <1>1, StartHere, UnderWay DEF StartRecord, StartLabels, StartFits, Shape, TypeOK
<1>. DEFINE e == [kind |-> k, port |-> f.port, prev |-> v, proc |-> f.proc]
<1>. PICK n : n = Len(ledger[s]) + 1
  OBVIOUS
<1>3. e \in Actions /\ e.kind = k /\ e.port = f.port /\ e.prev = v
  BY <1>1, <1>2 DEF Frames, Actions
<1>4. /\ RecordAction(s, e) /\ on'[a] = s /\ UNCHANGED <<cap, deviceVars>>
      /\ \/ pc'[a] = to /\ frame'[a] = [f EXCEPT !.ids = [f.ids EXCEPT ![k] = n]]
         \/ pc'[a] = "rollback" /\ frame'[a] = f
  BY <1>1, <1>2 DEF StartRecord, Goto, Keep
<1>. HIDE DEF e
<1>5. /\ Indices(s)' = Indices(s) \cup {n} /\ n \notin Indices(s) /\ n \in Nat \ {0}
      /\ ledger'[s][n].status = "pending" /\ ledger'[s][n].action = e
      /\ \A j \in Indices(s) : ledger'[s][j] = ledger[s][j]
      /\ \A t \in Sessions \ {s} : ledger'[t] = ledger[t]
  BY <1>2, <1>3, <1>4, RecordLast
<1>6. \A i \in Indices(s) : i < n
  BY <1>2, LedgerFacts DEF Indices
<1>7. /\ k = "proxy" => v = f.prev /\ pc[a] = "recordProxy" /\ to = "putProxy"
      /\ k # "proxy" => /\ pc[a] \in {"recordProcess", "recordReverse"}
                        /\ to \in {"readProxy", "recordReverse", "addReverse"}
      /\ to # "rollback"
  BY <1>1, <1>2
<1>8. \/ pc'[a] = to /\ pc'[a] # "rollback" /\ frame'[a] = [f EXCEPT !.ids = [f.ids EXCEPT ![k] = n]]
      \/ pc'[a] = "rollback" /\ frame'[a] = f
  BY <1>4, <1>7
<1>9. k \in Kinds
  BY <1>1
<1>10. Recording(a, s, f, k, v, n)
  <2>1. /\ k = "proxy" => pc'[a] \in {"putProxy", "rollback"}
        /\ k # "proxy" => pc'[a] \in {"readProxy", "recordReverse", "addReverse", "rollback"}
    BY <1>7, <1>8
  <2>. QED BY <1>2, <1>3, <1>4, <1>5, <1>6, <1>7, <1>8, <1>9, <2>1 DEF Recording
<1>. QED BY <1>10

\* The ledgers and captures of other sessions.
LEMMA AwayKept ==
  ASSUME DeviceAssumption, ActorAssumption, QuietChange, NEW a \in Actors, Acts(a), Deep(a),
         NEW t \in Sessions, t # on[a]
  PROVE  ledger'[t] = ledger[t] /\ cap'[t] = cap[t]
<1>1. SessionTypeOK /\ cap \in [Sessions -> Captures]
  BY QuietFacts
<1>2. ledger'[t] = ledger[t]
  <2>1. CASE Records(a)
    <3>. PICK s, f : s = on[a] /\ f = frame[a]
      OBVIOUS
    <3>1. PICK k, v, n : Recording(a, s, f, k, v, n)
      BY <2>1, RecordNew DEF QuietChange
    <3>. QED BY <3>1 DEF Recording
  <2>2. CASE Mark(a)
    <3>1. \E L : ledger' = [ledger EXCEPT ![on[a]] = L]
      BY <2>2 DEF Mark, UpdateAction
    <3>. QED BY <1>1, <3>1 DEF SessionTypeOK
  <2>. QED BY <2>1, <2>2, LedgerSame
<1>3. cap'[t] = cap[t]
  BY <1>1, CaptureChange DEF QuietChange, StartRunning, StopPersist
<1>. QED BY <1>2, <1>3

\* Mappings stay the framework's, actions on the proxy remember what others set.
LEMMA NoneTakenStep ==
  ASSUME DeviceAssumption, ActorAssumption, QuietChange
  PROVE  NoneTaken'
<1>1. ReverseChange /\ ~Interference
  BY DeviceStep, StaysQuiet DEF QuietChange
<1>. QED BY <1>1 DEF NoneTaken, ReverseChange, QuietChange, Stacked

LEMMA SamePrevsStep ==
  ASSUME DeviceAssumption, ActorAssumption, QuietChange
  PROVE  SamePrevs' /\ foreign' = foreign
<1>0. LedgersKept /\ LedgersGrow /\ ~Interference
  BY LedgerStep, SessionStep, StaysQuiet DEF QuietChange
<1>1. foreign' = foreign
  BY <1>0, ForeignStep DEF QuietChange
<1>2. ASSUME NEW s \in Sessions, NEW i \in Indices(s)', IsProxy(s, i)'
      PROVE  ledger'[s][i].action.prev = foreign
  <2>0. ledger'[s][i].action.kind = "proxy"
    BY <1>2 DEF IsProxy
  <2>1. CASE i \in Indices(s)
    <3>1. ledger'[s][i].action = ledger[s][i].action
      BY <1>0, <2>1 DEF LedgersKept
    <3>. QED BY <2>0, <2>1, <3>1 DEF QuietChange, Stacked, SamePrevs, IsProxy
  <2>2. CASE i \notin Indices(s)
    <3>1. PICK a \in Actors : Records(a) /\ on[a] = s
      BY <1>0, <1>2, <2>2 DEF LedgersGrow
    <3>. PICK f : f = frame[a]
      OBVIOUS
    <3>2. PICK k, v, n : Recording(a, s, f, k, v, n)
      BY <3>1, RecordNew DEF QuietChange
    <3>3. Staged(pc[a], f, s)
      BY <3>1 DEF QuietChange, Stacked, Placed
    <3>. QED BY <1>2, <2>0, <2>2, <3>2, <3>3 DEF Staged, Recording
  <2>. QED BY <2>1, <2>2
<1>. QED BY <1>1, <1>2 DEF SamePrevs

\* state.json names each action by its kind.
LEMMA CapturesFitStep ==
  ASSUME DeviceAssumption, ActorAssumption, QuietChange
  PROVE  CapturesFit'
<1>0. LedgersKept /\ CapturesFit /\ Shape
  BY LedgerStep DEF QuietChange, Stacked
<1>1. ASSUME NEW s \in Sessions, cap'[s].ids = cap[s].ids, cap'[s].made = cap[s].made, cap[s].status # "none"
      PROVE  KindsFit(s)'
  <2>1. \A k \in {"process"} \cup cap[s].made : cap[s].ids[k] \in Indices(s)
    BY <1>0, <1>1 DEF Shape, CaptureFits, Points
  <2>2. \A i \in Indices(s) : ledger'[s][i].action = ledger[s][i].action
    BY <1>0 DEF LedgersKept
  <2>. QED BY <1>0, <1>1, <2>1, <2>2 DEF CapturesFit, KindsFit
<1>2. CASE UNCHANGED cap
  BY <1>1, <1>2 DEF CapturesFit
<1>3. ASSUME NEW a \in Actors, Acts(a), StopPersist(a) PROVE CapturesFit'
  <2>1. pc[a] = "stopped" /\ on[a] \in Sessions /\ cap[on[a]].status # "none" /\ cap \in [Sessions -> Captures]
    BY <1>0, <1>3, UnderWay DEF StopPersist, Shape, ActorFits, Stopping, CaptureTypeOK
  <2>2. /\ \A s \in Sessions : cap'[s].ids = cap[s].ids /\ cap'[s].made = cap[s].made
        /\ \A s \in Sessions : cap'[s].status # "none" => cap[s].status # "none"
    BY <1>3, <2>1 DEF StopPersist, Captures
  <2>. QED BY <1>1, <2>2 DEF CapturesFit
<1>4. ASSUME NEW a \in Actors, Acts(a), StartRunning(a) PROVE CapturesFit'
  <2>. PICK f, s : f = frame[a] /\ s = on[a]
    OBVIOUS
  <2>1. pc[a] = "running" /\ s \in Sessions /\ f \in Frames /\ cap \in [Sessions -> Captures] /\ Deep(a)
        /\ Staged("running", f, s)
    BY <1>4, QuietFacts DEF StartRunning, Deep
  <2>2. IdsFit(f, s) /\ StartFits(a, f, "running") /\ f.made \subseteq Kinds
    BY <1>0, <2>1, StartHere DEF Staged, StartLabels, Frames
  <2>3. cap'[s].ids = f.ids /\ cap'[s].made = f.made
    BY <1>4, <2>1 DEF StartRunning
  <2>4. UNCHANGED ledger
    BY <1>4 DEF StartRunning, sessionVars
  <2>5. \A k \in {"process"} \cup f.made : ledger[s][f.ids[k]].action.kind = k
    <3>1. \A k \in {"process"} \cup f.made : k \in Kinds /\ f.ids[k] # 0
      BY <2>2 DEF StartFits, Kinds
    <3>. QED BY <2>2, <3>1 DEF IdsFit
  <2>6. KindsFit(s)'
    BY <2>3, <2>4, <2>5 DEF KindsFit
  <2>7. ASSUME NEW t \in Sessions, t # s PROVE cap'[t] = cap[t]
    BY <1>4, <2>1, <2>7, AwayKept
  <2>. QED BY <1>1, <2>6, <2>7 DEF CapturesFit
<1>. QED BY <1>0, <1>2, <1>3, <1>4, StepCases, CaptureChange DEF QuietChange

\* Where the steps that keep the proxy lead from.
LEMMA Departures ==
  ASSUME NEW a \in Actors, Acts(a), ~Crash(a)
  PROVE  /\ pc[a] = "running" => StartRunning(a) \/ StartRaises(a)
         /\ pc[a] = "rollback" => StartDropProcess(a) \/ BeginRollback(a)
         /\ pc[a] = "next" => Decide(a)
         /\ pc[a] = "apply" => Apply(a)
         /\ pc[a] = "mark" => Mark(a) \/ StopRaises(a)
<1>1. CASE Call(a)
  BY <1>1 DEF Call, StartRequest, StopRequest, CleanupLock
<1>2. CASE ExecutorStep(a)
  BY <1>2 DEF ExecutorStep, Decide, Apply, Mark, BeginRollback, EndRollback, ReturnCleaned,
              BeginCleanup, EndCleanup
<1>3. CASE StartStep(a)
  BY <1>3 DEF StartStep, StartLock, StartRefused, StartSpawn, StartSpawnFails, StartReadProxy,
              StartRunning, StartRaises, StartDropProcess, StartAddReverse, StartPutProxy,
              StartRecordProcess, StartRecordReverse, StartRecordProxy, StartRecord
<1>4. CASE StopStep(a)
  BY <1>4 DEF StopStep, StopRefused, StopLock, StopBegin, StopEvidence, StopPersist, StopRaises, StopActivate
<1>. QED BY <1>1, <1>2, <1>3, <1>4 DEF Acts, ActorStep

\* What was tried and is not settled stays tried, and so is what is marked.
LEMMA TriedKept ==
  ASSUME DeviceAssumption, ActorAssumption, QuietChange, NEW s \in Sessions, NEW j \in Indices(s)
  PROVE  /\ Tried(s, j) /\ j \in Unsettled(s)' => Tried(s, j)'
         /\ \A a \in Actors : /\ Mark(a) /\ on[a] = s /\ j = frame[a].current /\ j \in Unsettled(s)'
                              => Tried(s, j)'
<1>1. ASSUME NEW a \in Actors, Mark(a), j \in Unsettled(s)'
      PROVE  /\ Tried(s, j) => Tried(s, j)'
             /\ on[a] = s /\ j = frame[a].current => Tried(s, j)'
  <2>1. ledger'[s][j].status = IF s = on[a] /\ j = frame[a].current
                               THEN frame[a].verdict ELSE ledger[s][j].status
    BY <1>1, MarkStep DEF QuietChange
  <2>2. frame[a].verdict \in Verdicts
    BY UnderWay DEF QuietChange, Frames
  <2>3. ledger'[s][j].status \notin Settled
    BY <1>1 DEF Unsettled
  <2>. QED BY <2>1, <2>2, <2>3 DEF Tried, Verdicts, EntryStatuses, Settled
<1>2. ASSUME NEW a \in Actors, Acts(a), ~Mark(a), Tried(s, j) PROVE Tried(s, j)'
  <2>1. CASE Records(a)
    <3>. PICK t, f : t = on[a] /\ f = frame[a]
      OBVIOUS
    <3>1. PICK k, v, n : Recording(a, t, f, k, v, n)
      BY <2>1, RecordNew DEF QuietChange
    <3>2. ledger'[s][j] = ledger[s][j]
      BY <3>1 DEF Recording
    <3>. QED BY <1>2, <3>2 DEF Tried
  <2>2. CASE ~Records(a)
    BY <1>2, <2>2, LedgerSame DEF Tried
  <2>. QED BY <2>1, <2>2
<1>3. ASSUME UNCHANGED ledger, Tried(s, j) PROVE Tried(s, j)'
  BY <1>3 DEF Tried
<1>4. (\E s_1 \in Sessions : CreateSession(s_1)) => UNCHANGED ledger
  BY DEF CreateSession, Initialize, Activate, CreateFails
<1>5. \/ \E a \in Actors : Acts(a)
      \/ UNCHANGED ledger
  BY <1>4, StepCases DEF QuietChange, sessionVars
<1>6. ASSUME Tried(s, j), j \in Unsettled(s)' PROVE Tried(s, j)'
  <2>1. CASE UNCHANGED ledger
    BY <1>3, <1>6, <2>1
  <2>2. ASSUME NEW a \in Actors, Acts(a) PROVE Tried(s, j)'
    BY <1>1, <1>2, <1>6, <2>2
  <2>. QED BY <1>5, <2>1, <2>2
<1>7. ASSUME NEW a \in Actors, Mark(a), on[a] = s, j = frame[a].current, j \in Unsettled(s)'
      PROVE  Tried(s, j)'
  BY <1>1, <1>7
<1>. QED BY <1>6, <1>7

\* Two actions on the proxy cannot both be the last.
LEMMA OneLast ==
  ASSUME NEW s, NEW i, NEW j, LastProxy(s, i), LastProxy(s, j)
  PROVE  i = j
BY DEF LastProxy, IsProxy, Indices

\* What is in effect stays so until the proxy is changed: in the ledger,
LEMMA InEffectStays ==
  ASSUME DeviceAssumption, ActorAssumption, QuietChange,
         NEW s \in Sessions, NEW j \in Indices(s), InEffect(s, j), proxy # foreign
  PROVE  /\ LastProxy(s, j)' /\ j \in Unsettled(s)' /\ ledger'[s][j].action = ledger[s][j].action
         /\ status'[s] # "cleaned"
<1>0. /\ LedgersKept /\ LedgersGrow /\ StatusChange
      /\ LastProxy(s, j) /\ j \in Unsettled(s) /\ ledger[s][j].action.kind = "proxy" /\ status[s] # "cleaned"
  BY LedgerStep, SessionStep DEF QuietChange, InEffect, LastProxy, IsProxy
<1>1. ledger'[s][j].action = ledger[s][j].action /\ j \in Indices(s)'
  BY <1>0 DEF LedgersKept
<1>2. j \in Unsettled(s)'
  <2>1. ASSUME NEW a \in Actors, Settles(a, s, j) PROVE FALSE
    <3>1. Executes(pc[a], frame[a], on[a])
      BY DEF QuietChange, Stacked, Placed
    <3>. QED BY <1>0, <2>1, <3>1 DEF Settles, Executes, ExecutingLabels
  <2>. QED BY <1>0, <2>1 DEF LedgersKept
<1>3. status'[s] # "cleaned"
  BY <1>0 DEF StatusChange
<1>4. ASSUME NEW i, IsProxy(s, i)' PROVE i <= j
  <2>1. CASE i \in Indices(s)
    BY <1>0, <1>4, <2>1 DEF IsProxy, LastProxy, LedgersKept
  <2>2. CASE i \notin Indices(s)
    <3>1. PICK a \in Actors : Records(a) /\ on[a] = s
      BY <1>0, <1>4, <2>2 DEF LedgersGrow, IsProxy
    <3>. PICK f : f = frame[a]
      OBVIOUS
    <3>2. PICK k, v, n : Recording(a, s, f, k, v, n)
      BY <3>1, RecordNew DEF QuietChange
    <3>3. Staged(pc[a], f, s)
      BY <3>1 DEF QuietChange, Stacked, Placed
    <3>. QED BY <1>4, <2>2, <3>2, <3>3 DEF Recording, IsProxy, Staged, StartLabels
  <2>. QED BY <2>1, <2>2
<1>5. LastProxy(s, j)'
  BY <1>0, <1>1, <1>4 DEF LastProxy, IsProxy
<1>. QED BY <1>1, <1>2, <1>3, <1>5

\* by a start, until its capture runs or it has tried to give it back,
LEMMA StartHoldsOn ==
  ASSUME DeviceAssumption, ActorAssumption, QuietChange, NEW a \in Actors, Acts(a),
         NEW s \in Sessions, on[a] = s, NEW j \in Indices(s), InEffect(s, j), proxy # foreign,
         StartHolds(pc[a], frame[a], j)
  PROVE  Held(s, j)'
<1>. PICK f : f = frame[a]
  OBVIOUS
<1>0. /\ j \in Unsettled(s) /\ j \in Unsettled(s)' /\ j \in Nat /\ j # 0 /\ f \in Frames
      /\ pc \in [Actors -> Labels] /\ frame \in [Actors -> Frames] /\ on \in [Actors -> Sessions \cup {NoSession}]
      /\ cap \in [Sessions -> Captures] /\ ~Crash(a) /\ SessionTypeOK
  BY QuietFacts, InEffectStays, LedgerFacts DEF InEffect
<1>1. ASSUME StartHolds(pc'[a], frame'[a], j), on'[a] = s PROVE Held(s, j)'
  BY <1>1 DEF Held, StartHolds, RollingBack
<1>2. CASE StartRaises(a)
  <2>1. pc'[a] = "rollback" /\ frame'[a] = f /\ on'[a] = s
    BY <1>0, <1>2 DEF StartRaises, Goto, Keep
  <2>2. f.ids["proxy"] = j
    BY <1>2 DEF StartRaises, StartHolds, RollingBack, ExecutingLabels
  <2>. QED BY <1>1, <2>1, <2>2 DEF StartHolds
<1>3. CASE StartRunning(a)
  <2>1. f.ids["proxy"] = j
    BY <1>3 DEF StartRunning, StartHolds, RollingBack, ExecutingLabels
  <2>2. "proxy" \in f.made
    <3>1. Staged(pc[a], f, s) /\ pc[a] = "running"
      BY <1>3 DEF QuietChange, Stacked, Placed, StartRunning
    <3>. QED BY <3>1 DEF Staged
  <2>3. cap'[s].status = "running" /\ cap'[s].ids = f.ids /\ cap'[s].made = f.made
    BY <1>0, <1>3 DEF StartRunning
  <2>4. CaptureHolds(s, j)'
    BY <2>1, <2>2, <2>3 DEF CaptureHolds, StopIds
  <2>. QED BY <2>4 DEF Held
<1>4. CASE BeginRollback(a)
  <2>1. f.ids["proxy"] = j
    BY <1>4 DEF BeginRollback, StartHolds, RollingBack, ExecutingLabels
  <2>2. j \in Recorded(a) \cap Unsettled(s)
    BY <1>0, <2>1 DEF Recorded, Kinds
  <2>3. frame'[a].todo = Recorded(a) \cap Unsettled(s) /\ frame'[a].phase = "rollback"
    BY <1>0, <1>4 DEF BeginRollback, Begin, Frames
  <2>4. pc'[a] = "next" /\ on'[a] = s
    BY <1>0, <1>4, <2>2 DEF BeginRollback, Goto, Keep
  <2>. QED BY <1>1, <2>2, <2>3, <2>4 DEF StartHolds, RollingBack, ExecutingLabels
<1>5. CASE StartDropProcess(a)
  <2>1. f.ids["proxy"] = j
    BY <1>5 DEF StartDropProcess, StartHolds, RollingBack, ExecutingLabels
  <2>. QED BY <1>0, <1>5, <2>1 DEF StartDropProcess, Recorded, Kinds
<1>6. CASE Decide(a)
  <2>1. f.phase = "rollback" /\ j \in f.todo
    BY <1>6 DEF Decide, StartHolds, RollingBack, ExecutingLabels
  <2>2. frame'[a].phase = f.phase /\ frame'[a].todo = f.todo /\ on'[a] = s
    BY <1>6, DecideStep DEF QuietChange
  <2>3. pc'[a] \in {"apply", "mark"}
    BY <1>0, <1>6 DEF Decide, Goto
  <2>. QED BY <1>1, <2>1, <2>2, <2>3 DEF StartHolds, RollingBack, ExecutingLabels
<1>7. CASE Apply(a)
  <2>1. f.phase = "rollback" /\ j \in f.todo
    BY <1>7 DEF Apply, StartHolds, RollingBack, ExecutingLabels
  <2>2. frame'[a].phase = f.phase /\ frame'[a].todo = f.todo /\ on'[a] = s
    BY <1>7, ApplyStep DEF QuietChange
  <2>3. pc'[a] = "mark"
    BY <1>0, <1>7 DEF Apply, Goto
  <2>. QED BY <1>1, <2>1, <2>2, <2>3 DEF StartHolds, RollingBack, ExecutingLabels
<1>8. CASE Mark(a)
  <2>1. f.phase = "rollback" /\ j \in f.todo
    BY <1>8 DEF Mark, StartHolds, RollingBack, ExecutingLabels
  <2>2. /\ frame'[a].phase = f.phase /\ frame'[a].todo = f.todo \ {f.current} /\ on'[a] = s
        /\ frame'[a].todo # {} => pc'[a] = "next"
    BY <1>8, MarkFrame DEF QuietChange
  <2>3. CASE j = f.current
    BY <1>0, <1>8, <2>3, TriedKept DEF Held
  <2>4. CASE j # f.current
    <3>1. j \in frame'[a].todo /\ pc'[a] = "next"
      BY <2>1, <2>2, <2>4
    <3>. QED BY <1>1, <2>1, <2>2, <3>1 DEF StartHolds, RollingBack, ExecutingLabels
  <2>. QED BY <2>3, <2>4
<1>9. CASE StopRaises(a)
  BY <1>9 DEF StopRaises, StartHolds, RollingBack, ExecutingLabels
<1>10. pc[a] \in {"running", "rollback", "next", "apply", "mark"}
  BY DEF StartHolds, RollingBack, ExecutingLabels
<1>. QED BY <1>0, <1>2, <1>3, <1>4, <1>5, <1>6, <1>7, <1>8, <1>9, <1>10, Departures

\* by state.json, until a stop has given it back or tried to,
LEMMA CaptureHoldsOn ==
  ASSUME DeviceAssumption, ActorAssumption, QuietChange, NEW a \in Actors, Acts(a),
         NEW s \in Sessions, NEW j \in Indices(s), InEffect(s, j), proxy # foreign, CaptureHolds(s, j)
  PROVE  CaptureHolds(s, j)'
<1>0. /\ j \in Unsettled(s) /\ LastProxy(s, j) /\ cap \in [Sessions -> Captures]
  BY QuietFacts DEF InEffect
<1>1. CASE on[a] = s /\ StartRunning(a)
  <2>. PICK f : f = frame[a]
    OBVIOUS
  <2>1. Staged(pc[a], f, s) /\ pc[a] = "running"
    BY <1>1 DEF QuietChange, Stacked, Placed, StartRunning
  <2>2. StartFits(a, f, pc[a])
    BY <2>1, StartHere DEF QuietChange, StartLabels
  <2>3. f.ids["proxy"] = j /\ "proxy" \in f.made
    <3>1. "proxy" \in f.made /\ f.ids["proxy"] # 0
      BY <2>1, <2>2 DEF Staged, StartFits
    <3>2. LastProxy(s, f.ids["proxy"])
      BY <2>1, <3>1 DEF Staged, IdsFit, StartLabels
    <3>. QED BY <1>0, <3>1, <3>2, OneLast
  <2>4. cap'[s].status = "running" /\ cap'[s].ids = f.ids /\ cap'[s].made = f.made
    BY <1>0, <1>1 DEF StartRunning
  <2>. QED BY <2>3, <2>4 DEF CaptureHolds, StopIds
<1>2. CASE on[a] = s /\ StopPersist(a)
  <2>1. Progress(a, s) /\ pc[a] = "stopped"
    BY <1>2 DEF QuietChange, Reopening, StopPersist
  <2>2. frame[a].errors
    BY <1>0, <2>1 DEF Progress, CaptureHolds
  <2>3. cap'[s].status = "stop_failed" /\ cap'[s].ids = cap[s].ids /\ cap'[s].made = cap[s].made
    BY <1>0, <1>2, <2>2 DEF StopPersist, Captures
  <2>. QED BY <2>3 DEF CaptureHolds, StopIds
<1>3. CASE ~(on[a] = s /\ StartRunning(a)) /\ ~(on[a] = s /\ StopPersist(a))
  <2>1. cap'[s] = cap[s]
    <3>1. CASE StartRunning(a) \/ StopPersist(a)
      BY <1>0, <1>3, <3>1 DEF StartRunning, StopPersist
    <3>2. CASE ~StartRunning(a) /\ ~StopPersist(a)
      BY <3>2, CaptureChange DEF QuietChange
    <3>. QED BY <3>1, <3>2
  <2>. QED BY <2>1 DEF CaptureHolds, StopIds
<1>. QED BY <1>1, <1>2, <1>3

\* and by what was tried of it.
LEMMA HeldOn ==
  ASSUME DeviceAssumption, ActorAssumption, QuietChange,
         NEW s \in Sessions, NEW j \in Indices(s), InEffect(s, j), proxy # foreign
  PROVE  Held(s, j)'
<1>0. Held(s, j) /\ j \in Unsettled(s)'
  BY InEffectStays DEF InEffect
<1>1. CASE Tried(s, j)
  BY <1>0, <1>1, TriedKept DEF Held
<1>2. CASE CaptureHolds(s, j)
  <2>1. CASE UNCHANGED cap
    <3>1. CaptureHolds(s, j)'
      BY <1>2, <2>1 DEF CaptureHolds, StopIds
    <3>. QED BY <3>1 DEF Held
  <2>2. ASSUME NEW a \in Actors, Acts(a) PROVE Held(s, j)'
    <3>1. CaptureHolds(s, j)'
      BY <1>2, <2>2, CaptureHoldsOn
    <3>. QED BY <3>1 DEF Held
  <2>. QED BY <2>1, <2>2, StepCases DEF QuietChange
<1>3. ASSUME NEW a \in Actors, on[a] = s, StartHolds(pc[a], frame[a], j) PROVE Held(s, j)'
  <2>1. CASE Still(a)
    BY <1>3, <2>1 DEF Still, StartHolds, RollingBack, Held
  <2>2. CASE Acts(a)
    BY <1>3, <2>2, StartHoldsOn
  <2>. QED BY <2>1, <2>2, StepCases DEF QuietChange
<1>. QED BY <1>0, <1>1, <1>2, <1>3 DEF Held

\* The proxy of a start is in effect when it is put.
LEMMA PutInEffect ==
  ASSUME DeviceAssumption, ActorAssumption, QuietChange, NEW a \in Actors, StartPutProxy(a),
         proxy' = frame[a].port
  PROVE  \E s \in Sessions : \E j \in Indices(s)' : InEffect(s, j)'
<1>. PICK f, s, j : f = frame[a] /\ s = on[a] /\ j = f.ids["proxy"]
  OBVIOUS
<1>0. Acts(a) /\ pc[a] = "putProxy"
  BY DEF Acts, ActorStep, StartStep, StartPutProxy
<1>1. /\ f \in Frames /\ s \in Sessions /\ pc \in [Actors -> Labels] /\ frame \in [Actors -> Frames]
      /\ Staged(pc[a], f, s) /\ StatusChange
  BY <1>0, QuietFacts DEF Deep
<1>2. /\ j \in Unsettled(s) /\ ledger[s][j].action.port = f.port /\ LastProxy(s, j)
  <2>1. j \in Unsettled(s) /\ ledger[s][j].action.port = f.port /\ IdsFit(f, s)
    BY <1>0, <1>1 DEF Staged, StartLabels
  <2>2. j # 0
    BY <2>1 DEF Unsettled, Indices
  <2>. QED BY <2>1, <2>2 DEF IdsFit
<1>3. UNCHANGED <<ledger, status>> /\ on'[a] = s
  BY DEF StartPutProxy, sessionVars, Keep
<1>4. status[s] # "cleaned"
  BY <1>0, <1>1 DEF QuietChange, Reopening, Progress, Open, StartLabels
<1>5. pc'[a] \in {"running", "rollback"} /\ frame'[a].ids = f.ids
  <2>. DEFINE g == [f EXCEPT !.made = f.made \cup {"proxy"}]
  <2>1. g.ids = f.ids
    BY <1>1 DEF Frames
  <2>2. frame'[a] \in {f, g} /\ pc'[a] \in {"running", "rollback"}
    BY <1>1 DEF StartPutProxy, StartChanged, Goto
  <2>. HIDE DEF g
  <2>. QED BY <2>1, <2>2
<1>6. StartHolds(pc'[a], frame'[a], j)
  BY <1>5 DEF StartHolds
<1>7. Held(s, j)'
  BY <1>3, <1>6 DEF Held, StartHolds, RollingBack
<1>8. InEffect(s, j)'
  BY <1>2, <1>3, <1>4, <1>7 DEF InEffect, LastProxy, IsProxy, Unsettled, Indices
<1>. QED BY <1>1, <1>2, <1>3, <1>8 DEF Unsettled, Indices

\* Only the last action on the proxy puts it back, to what others set.
LEMMA ProxyGivenBack ==
  ASSUME DeviceAssumption, ActorAssumption, QuietChange, NEW a \in Actors, pc[a] = "apply", Action(a).kind = "proxy"
  PROVE  Action(a).prev = foreign
<1>. PICK s, i : s = on[a] /\ i = frame[a].current
  OBVIOUS
<1>1. s \in Sessions /\ i \in Indices(s)
  BY InHand DEF QuietChange
<1>2. IsProxy(s, i) /\ Action(a) = ledger[s][i].action
  BY <1>1 DEF IsProxy, Action
<1>. QED BY <1>1, <1>2 DEF QuietChange, Stacked, SamePrevs

LEMMA ProxyHeldStep ==
  ASSUME DeviceAssumption, ActorAssumption, QuietChange
  PROVE  ProxyHeld'
<1>0. foreign' = foreign /\ ~Interference /\ ProxyChange
  BY SamePrevsStep, StaysQuiet, DeviceStep DEF QuietChange
<1>1. CASE proxy' = proxy /\ proxy # foreign
  <2>1. PICK s \in Sessions : \E j \in Indices(s) : InEffect(s, j)
    BY <1>1 DEF QuietChange, Stacked, ProxyHeld
  <2>2. PICK j \in Indices(s) : InEffect(s, j)
    BY <2>1
  <2>3. /\ LastProxy(s, j)' /\ j \in Unsettled(s)' /\ ledger'[s][j].action = ledger[s][j].action
        /\ status'[s] # "cleaned" /\ Held(s, j)'
    BY <1>1, <2>2, InEffectStays, HeldOn
  <2>4. InEffect(s, j)'
    BY <1>1, <2>2, <2>3 DEF InEffect
  <2>5. j \in Indices(s)'
    BY <2>3 DEF Unsettled
  <2>. QED BY <2>4, <2>5 DEF ProxyHeld
<1>2. ASSUME NEW a \in Actors, StartPutProxy(a), proxy' = frame[a].port PROVE ProxyHeld'
  BY <1>2, PutInEffect DEF ProxyHeld
<1>3. ASSUME NEW a \in Actors, pc[a] = "apply", Action(a).kind = "proxy", proxy' = Action(a).prev PROVE ProxyHeld'
  BY <1>0, <1>3, ProxyGivenBack DEF ProxyHeld
<1>4. CASE proxy' = proxy /\ proxy = foreign
  BY <1>0, <1>4 DEF ProxyHeld
<1>. QED BY <1>0, <1>1, <1>2, <1>3, <1>4 DEF ProxyChange

\* The ids a start keeps go on to fit.
LEMMA IdsKept ==
  ASSUME DeviceAssumption, ActorAssumption, QuietChange, NEW s \in Sessions, Indices(s)' = Indices(s),
         NEW f, NEW g, g.ids = f.ids, IdsFit(f, s)
  PROVE  IdsFit(g, s)'
<1>1. \A i \in Indices(s) : ledger'[s][i].action = ledger[s][i].action
  BY LedgerStep DEF QuietChange, LedgersKept
<1>2. \A i : IsProxy(s, i)' <=> IsProxy(s, i)
  BY <1>1 DEF IsProxy
<1>3. \A i : LastProxy(s, i)' <=> LastProxy(s, i)
  BY <1>2 DEF LastProxy
<1>. QED BY <1>1, <1>3 DEF IdsFit

\* What is not settled is pending.
LEMMA UnsettledPends ==
  ASSUME SessionTypeOK, NEW s \in Sessions, NEW j \in Unsettled(s)
  PROVE  PendingCleanup(s)
<1>1. ledger[s][j].status \in EntryStatuses
  BY LedgerFacts DEF Unsettled, Entries
<1>. QED BY <1>1 DEF PendingCleanup, Unsettled, EntryStatuses, Settled

\* A start finds the proxy as others set it.
LEMMA LockPlaced ==
  ASSUME DeviceAssumption, ActorAssumption, QuietChange, NEW a \in Actors, StartLock(a)
  PROVE  Placed(a)'
<1>. PICK f, s, g : f = frame[a] /\ s = on[a] /\ g = [f EXCEPT !.adopt = reverse[f.port] = "own"]
  OBVIOUS
<1>0. Acts(a) /\ pc[a] = "startLock"
  BY DEF Acts, ActorStep, StartStep, StartLock
<1>1. /\ f \in Frames /\ s \in Sessions /\ pc \in [Actors -> Labels] /\ frame \in [Actors -> Frames]
      /\ SessionTypeOK /\ lock = NoActor /\ foreign' = foreign
  BY <1>0, QuietFacts, UnderWay DEF QuietChange, StartLock
<1>2. pc'[a] = "spawn" /\ frame'[a] = g /\ on'[a] = s /\ UNCHANGED <<ledger, proxy>>
  BY <1>1 DEF StartLock, Goto, sessionVars, deviceVars
<1>3. \A k \in Kinds : f.ids[k] = 0
  <2>1. Recorded(a) = {}
    BY <1>0 DEF QuietChange, Announced, ActorAnnounces
  <2>. QED BY <2>1 DEF Recorded
<1>4. g.ids = f.ids
  BY <1>1 DEF Frames
<1>5. proxy = foreign
  <2>. SUFFICES ASSUME proxy # foreign PROVE FALSE
    OBVIOUS
  <2>1. PICK t \in Sessions : \E j \in Indices(t) : InEffect(t, j)
    BY DEF QuietChange, Stacked, ProxyHeld
  <2>2. PICK j \in Indices(t) : InEffect(t, j)
    BY <2>1
  <2>3. SlotFree(s) /\ cap[s].status \notin {"running", "stop_failed"}
    BY DEF StartLock, MayStart
  <2>4. t = s
    BY <1>1, <2>2, <2>3, UnsettledPends DEF InEffect, SlotFree
  <2>5. ~Tried(s, j) /\ ~CaptureHolds(s, j)
    BY <2>2, <2>3, <2>4 DEF Tried, CaptureHolds, SlotFree
  <2>6. PICK b \in Actors : StartHolds(pc[b], frame[b], j)
    BY <2>2, <2>4, <2>5 DEF InEffect, Held
  <2>7. lock = b
    BY <2>6, UnderWay DEF StartHolds, RollingBack, ExecutingLabels, QuietChange
  <2>. QED BY <1>1, <2>7 DEF ActorAssumption
<1>6. "proxy" \in Kinds
  BY DEF Kinds
<1>7. Staged("spawn", g, s)'
  BY <1>1, <1>2, <1>3, <1>4, <1>5, <1>6 DEF Staged, IdsFit, RollingBack, ExecutingLabels, StartLabels
<1>8. Executes("spawn", g, s)'
  BY DEF Executes, ExecutingLabels
<1>. QED BY <1>2, <1>7, <1>8, PlacedAt

\* Where it goes on from its steps with the device, or falls back from any.
LEMMA StartPlaced ==
  ASSUME DeviceAssumption, ActorAssumption, QuietChange, NEW a \in Actors, Acts(a),
         NEW l, l = pc'[a], NEW f, f = frame[a], NEW g, g = frame'[a], NEW s, s = on[a],
         pc[a] \in StartLabels, l \in {"recordProcess", "readProxy", "recordProxy", "rollback"},
         on'[a] = s, UNCHANGED ledger, g.ids = f.ids,
         l = "recordProxy" => g.prev = foreign,
         l # "rollback" => pc[a] \notin {"putProxy", "running"} /\ proxy' = proxy
  PROVE  Placed(a)'
<1>1. Staged(pc[a], f, s) /\ foreign' = foreign /\ s \in Sessions
  BY QuietFacts DEF Deep, StartLabels
<1>2. IdsFit(f, s)
  BY <1>1 DEF Staged
<1>3. Indices(s)' = Indices(s)
  BY DEF Indices
<1>4. IdsFit(g, s)'
  BY <1>1, <1>2, <1>3, IdsKept
<1>5. Staged(l, g, s)'
  BY <1>1, <1>4 DEF Staged, StartLabels
<1>6. Executes(l, g, s)'
  BY DEF Executes, ExecutingLabels
<1>. QED BY <1>5, <1>6, PlacedAt

LEMMA SpawnPlaced ==
  ASSUME DeviceAssumption, ActorAssumption, QuietChange, NEW a \in Actors, Acts(a),
         StartSpawn(a) \/ StartReadProxy(a) \/ StartAddReverse(a)
  PROVE  Placed(a)'
<1>. PICK l, f, g, s : l = pc'[a] /\ f = frame[a] /\ g = frame'[a] /\ s = on[a]
  OBVIOUS
<1>0. pc[a] \in {"spawn", "readProxy", "addReverse"} /\ pc[a] \in StartLabels
  BY DEF StartSpawn, StartReadProxy, StartAddReverse, StartLabels
<1>1. /\ f \in Frames /\ pc \in [Actors -> Labels] /\ frame \in [Actors -> Frames]
      /\ Staged(pc[a], f, s) /\ foreign \notin Ports
  BY QuietFacts
<1>2. on'[a] = s /\ UNCHANGED <<ledger, proxy>>
  BY DEF StartSpawn, StartReadProxy, StartAddReverse, Keep, sessionVars, deviceVars, Spawn, SetReverse
<1>3. /\ l \in {"recordProcess", "readProxy", "recordProxy", "rollback"} /\ g.ids = f.ids
      /\ l = "recordProxy" => g.prev = foreign
  <2>1. CASE StartSpawn(a)
    <3>1. l = "recordProcess" /\ g = [f EXCEPT !.proc = spawned + 1]
      BY <1>1, <2>1 DEF StartSpawn, Goto
    <3>. QED BY <1>1, <3>1 DEF Frames
  <2>2. CASE StartReadProxy(a)
    <3>1. proxy = foreign
      BY <1>0, <1>1, <2>2 DEF Staged, StartLabels, StartReadProxy
    <3>2. f.port \in Ports
      <4>1. StartFits(a, f, pc[a])
        BY <1>0, StartHere DEF QuietChange
      <4>. QED BY <4>1 DEF StartFits
    <3>3. l = "recordProxy" /\ g = [f EXCEPT !.prev = proxy]
      BY <1>1, <2>2, <3>1, <3>2 DEF StartReadProxy, Goto
    <3>. QED BY <1>1, <3>1, <3>3 DEF Frames
  <2>3. CASE StartAddReverse(a)
    <3>1. l \in {"readProxy", "rollback"} /\ g \in {f, [f EXCEPT !.made = f.made \cup {"reverse"}]}
      BY <1>1, <2>3 DEF StartAddReverse, StartChanged, Goto
    <3>. QED BY <1>1, <3>1 DEF Frames
  <2>. QED BY <2>1, <2>2, <2>3
<1>. QED BY <1>0, <1>2, <1>3, StartPlaced

LEMMA FallPlaced ==
  ASSUME DeviceAssumption, ActorAssumption, QuietChange, NEW a \in Actors, Acts(a),
         StartRaises(a) \/ StartRunning(a) \/ StartPutProxy(a), pc'[a] = "rollback"
  PROVE  Placed(a)'
<1>. PICK l, f, g, s : l = pc'[a] /\ f = frame[a] /\ g = frame'[a] /\ s = on[a]
  OBVIOUS
<1>1. f \in Frames /\ pc \in [Actors -> Labels] /\ frame \in [Actors -> Frames]
  BY QuietFacts
<1>2. pc[a] \in StartLabels /\ UNCHANGED ledger
  BY DEF StartRaises, StartRunning, StartPutProxy, StartLabels, sessionVars
<1>3. on'[a] = s /\ g = f
  BY <1>1 DEF StartRaises, StartRunning, StartPutProxy, StartChanged, Keep, Goto, Return
<1>. QED BY <1>2, <1>3, StartPlaced

\* When it has put the proxy, the capture is all there.
LEMMA PutPlaced ==
  ASSUME DeviceAssumption, ActorAssumption, QuietChange, NEW a \in Actors, Acts(a),
         StartPutProxy(a), pc'[a] # "rollback"
  PROVE  Placed(a)'
<1>. PICK f, s, g : f = frame[a] /\ s = on[a] /\ g = [f EXCEPT !.made = f.made \cup {"proxy"}]
  OBVIOUS
<1>0. pc[a] = "putProxy" /\ pc[a] \in StartLabels /\ Deep(a)
  BY DEF StartPutProxy, StartLabels, Deep
<1>1. /\ f \in Frames /\ pc \in [Actors -> Labels] /\ frame \in [Actors -> Frames]
      /\ Staged(pc[a], f, s) /\ s \in Sessions
  BY <1>0, QuietFacts
<1>2. on'[a] = s /\ UNCHANGED ledger /\ pc'[a] = "running" /\ frame'[a] = g /\ proxy' = f.port
  BY <1>1 DEF StartPutProxy, StartChanged, Goto, Keep, sessionVars, PutSetting
<1>3. g.ids = f.ids /\ g.port = f.port /\ "proxy" \in g.made
  BY <1>1 DEF Frames
<1>4. IdsFit(g, s)'
  <2>1. Indices(s)' = Indices(s) /\ IdsFit(f, s)
    BY <1>0, <1>1, <1>2 DEF Indices, Staged
  <2>. QED BY <1>1, <1>3, <2>1, IdsKept
<1>5. g.ids["proxy"] \in Unsettled(s)' /\ ledger'[s][g.ids["proxy"]].action.port = g.port
  BY <1>0, <1>1, <1>2, <1>3 DEF Staged, Unsettled, Indices
<1>6. Staged("running", g, s)'
  BY <1>2, <1>3, <1>4, <1>5 DEF Staged, RollingBack, ExecutingLabels, StartLabels
<1>7. Executes("running", g, s)'
  BY DEF Executes, ExecutingLabels
<1>. QED BY <1>2, <1>6, <1>7, PlacedAt

\* What a start records is named by its kind, and the proxy is the last.
LEMMA RecordPlaced ==
  ASSUME DeviceAssumption, ActorAssumption, QuietChange, NEW a \in Actors, Acts(a), Records(a)
  PROVE  Placed(a)'
<1>. PICK l, f, g, s : l = pc'[a] /\ f = frame[a] /\ g = frame'[a] /\ s = on[a]
  OBVIOUS
<1>1. PICK k, v, n : Recording(a, s, f, k, v, n)
  BY RecordNew DEF QuietChange
<1>2. pc[a] \in {"recordProcess", "recordReverse", "recordProxy"} /\ Deep(a)
  BY <1>1 DEF Recording, Deep
<1>3. /\ f \in Frames /\ Staged(pc[a], f, s) /\ s \in Sessions /\ foreign' = foreign /\ LedgersKept /\ SessionTypeOK
      /\ IdsFit(f, s) /\ f.ids["proxy"] = 0 /\ f.ids \in [Kinds -> Nat]
  <2>1. f \in Frames /\ Staged(pc[a], f, s) /\ s \in Sessions /\ foreign' = foreign /\ LedgersKept /\ SessionTypeOK
    BY <1>2, QuietFacts
  <2>. QED BY <1>2, <2>1 DEF Staged, StartLabels, Frames
<1>4. /\ \A h \in Kinds : f.ids[h] # 0 =>
           f.ids[h] \in Indices(s)' /\ ledger'[s][f.ids[h]].action.kind = h
  BY <1>3 DEF IdsFit, LedgersKept
<1>5. proxy = foreign /\ UNCHANGED <<proxy, foreign>>
  BY <1>1, <1>2, <1>3 DEF Recording, Staged, StartLabels, deviceVars
<1>6. k \in Kinds /\ n \in Indices(s)' /\ n \in Nat /\ n # 0 /\ ledger'[s][n].action.kind = k
  BY <1>1 DEF Recording
<1>7. k = "proxy" => LastProxy(s, n)'
  <2>1. \A i \in Indices(s)' : i <= n
    BY <1>1, <1>3, LedgerFacts DEF Recording
  <2>. QED BY <1>6, <2>1 DEF LastProxy, IsProxy
<1>8. CASE l = "rollback"
  <2>1. g = f
    BY <1>1, <1>8 DEF Recording
  <2>2. IdsFit(g, s)'
    BY <1>3, <1>4, <2>1 DEF IdsFit
  <2>3. Staged(l, g, s)'
    BY <1>8, <2>2 DEF Staged, RollingBack, ExecutingLabels, StartLabels
  <2>4. Executes(l, g, s)'
    BY <1>8 DEF Executes, ExecutingLabels
  <2>. QED BY <1>1, <2>3, <2>4, PlacedAt DEF Recording
<1>9. CASE l # "rollback"
  <2>1. g = [f EXCEPT !.ids = [f.ids EXCEPT ![k] = n]]
    BY <1>1, <1>9 DEF Recording
  <2>2. g.ids = [f.ids EXCEPT ![k] = n] /\ g.port = f.port /\ g.prev = f.prev
    BY <1>3, <2>1 DEF Frames
  <2>3. \A h \in Kinds : g.ids[h] = IF h = k THEN n ELSE f.ids[h]
    BY <1>3, <2>2
  <2>4. "proxy" \in Kinds
    BY DEF Kinds
  <2>5. IdsFit(g, s)'
    BY <1>3, <1>4, <1>6, <1>7, <2>3, <2>4 DEF IdsFit
  <2>6. CASE k = "proxy"
    <3>1. l = "putProxy" /\ g.ids["proxy"] = n
      BY <1>1, <1>9, <2>3, <2>4, <2>6 DEF Recording
    <3>2. n \in Unsettled(s)' /\ ledger'[s][n].action.port = g.port
      BY <1>1, <1>6, <2>2 DEF Recording, Unsettled, Settled
    <3>3. f.prev = foreign
      BY <1>1, <1>3, <2>6 DEF Staged, Recording
    <3>4. Staged(l, g, s)'
      BY <1>5, <2>2, <2>5, <3>1, <3>2, <3>3 DEF Staged, RollingBack, ExecutingLabels, StartLabels
    <3>5. Executes(l, g, s)'
      BY <3>1 DEF Executes, ExecutingLabels
    <3>. QED BY <1>1, <3>4, <3>5, PlacedAt DEF Recording
  <2>7. CASE k # "proxy"
    <3>1. l \in {"readProxy", "recordReverse", "addReverse"} /\ g.ids["proxy"] = 0
      BY <1>1, <1>3, <1>9, <2>3, <2>4, <2>7 DEF Recording
    <3>2. Staged(l, g, s)'
      BY <1>5, <2>5, <3>1 DEF Staged, RollingBack, ExecutingLabels, StartLabels
    <3>3. Executes(l, g, s)'
      BY <3>1 DEF Executes, ExecutingLabels
    <3>. QED BY <1>1, <3>2, <3>3, PlacedAt DEF Recording
  <2>. QED BY <2>6, <2>7
<1>. QED BY <1>8, <1>9

\* An operation that goes through actions finds no other session with some.
LEMMA AloneWith ==
  ASSUME DeviceAssumption, ActorAssumption, QuietChange, NEW a \in Actors,
         NEW I, Trespassing(a, I), I # {}, NEW t \in Sessions, t # on[a], UNCHANGED ledger
  PROVE  ~PendingCleanup(t)'
<1>1. ~PendingCleanup(t)
  BY DEF QuietChange, Quiet, Trespassing
<1>. QED BY <1>1 DEF PendingCleanup, Indices

LEMMA BeginPlaced ==
  ASSUME DeviceAssumption, ActorAssumption, QuietChange, NEW a \in Actors, Acts(a),
         BeginRollback(a) \/ BeginCleanup(a) \/ StopBegin(a), pc'[a] = "next"
  PROVE  Placed(a)'
<1>. PICK f, g, s : f = frame[a] /\ g = frame'[a] /\ s = on[a]
  OBVIOUS
<1>0. pc[a] \in {"rollback", "cleanup", "stop"} /\ Deep(a)
  BY DEF BeginRollback, BeginCleanup, StopBegin, Deep
<1>1. /\ f \in Frames /\ s \in Sessions /\ pc \in [Actors -> Labels] /\ frame \in [Actors -> Frames]
      /\ Staged(pc[a], f, s)
  BY <1>0, QuietFacts
<1>2. on'[a] = s /\ UNCHANGED ledger
  BY DEF BeginRollback, BeginCleanup, StopBegin, Keep, sessionVars, SetStatus
<1>3. Indices(s)' = Indices(s) /\ Unsettled(s)' = Unsettled(s)
  BY <1>2 DEF Indices, Unsettled
<1>4. CASE BeginRollback(a)
  <2>. PICK I : I = Recorded(a) \cap Unsettled(s)
    OBVIOUS
  <2>1. I # {} /\ Trespassing(a, I) /\ pc[a] = "rollback"
    BY <1>1, <1>4 DEF BeginRollback, Begin, Goto
  <2>2. g.phase = "rollback" /\ g.todo = I /\ g.ids = f.ids
    <3>1. PICK ready \in BOOLEAN :
            frame' = [frame EXCEPT ![a].phase = "rollback", ![a].todo = I, ![a].ready = ready]
      BY <1>4 DEF BeginRollback, Begin
    <3>2. g = [f EXCEPT !.phase = "rollback", !.todo = I, !.ready = ready]
      BY <1>1, <3>1
    <3>. QED BY <1>1, <3>2 DEF Frames
  <2>3. \A t \in Sessions \ {s} : ~PendingCleanup(t)'
    BY <1>2, <2>1, AloneWith
  <2>4. IdsFit(g, s)'
    BY <1>1, <1>3, <2>1, <2>2, IdsKept DEF Staged
  <2>5. I \subseteq {g.ids[k] : k \in Kinds}
    BY <2>2 DEF Recorded
  <2>6. Staged("next", g, s)'
    BY <2>4 DEF Staged, StartLabels
  <2>7. Executes("next", g, s)'
    BY <2>2, <2>3, <2>5 DEF Executes
  <2>. QED BY <1>2, <2>6, <2>7, PlacedAt
<1>5. CASE BeginCleanup(a)
  <2>. PICK I : I = Unsettled(s)
    OBVIOUS
  <2>1. I # {} /\ Trespassing(a, I)
    BY <1>1, <1>5 DEF BeginCleanup, Begin, Goto
  <2>2. g.phase = "cleanup" /\ g.todo = I
    <3>1. PICK ready \in BOOLEAN :
            frame' = [frame EXCEPT ![a].phase = "cleanup", ![a].todo = I, ![a].ready = ready]
      BY <1>5 DEF BeginCleanup, Begin
    <3>2. g = [f EXCEPT !.phase = "cleanup", !.todo = I, !.ready = ready]
      BY <1>1, <3>1
    <3>. QED BY <1>1, <3>2 DEF Frames
  <2>3. \A t \in Sessions \ {s} : ~PendingCleanup(t)'
    BY <1>2, <2>1, AloneWith
  <2>4. Staged("next", g, s)'
    BY <2>2 DEF Staged, StartLabels, RollingBack
  <2>5. Executes("next", g, s)'
    BY <1>3, <2>2, <2>3 DEF Executes
  <2>. QED BY <1>2, <2>4, <2>5, PlacedAt
<1>6. CASE StopBegin(a)
  <2>. PICK I : I = {cap[s].ids["process"]} \cup {cap[s].ids[k] : k \in cap[s].made}
    OBVIOUS
  <2>1. I # {} /\ Trespassing(a, I)
    BY <1>6 DEF StopBegin
  <2>2. g.phase = "stop"
    BY <1>1, <1>6 DEF StopBegin, Frames
  <2>3. \A t \in Sessions \ {s} : ~PendingCleanup(t)'
    BY <1>2, <2>1, AloneWith
  <2>4. Staged("next", g, s)'
    BY <2>2 DEF Staged, StartLabels, RollingBack
  <2>5. Executes("next", g, s)'
    BY <2>2, <2>3 DEF Executes
  <2>. QED BY <1>2, <2>4, <2>5, PlacedAt
<1>. QED BY <1>4, <1>5, <1>6

\* What an operation that is going through actions knows.
LEMMA ExecutingFacts ==
  ASSUME DeviceAssumption, ActorAssumption, QuietChange, NEW a \in Actors, Acts(a), pc[a] \in ExecutingLabels,
         NEW f, f = frame[a], NEW s, s = on[a]
  PROVE  /\ f \in Frames /\ s \in Sessions /\ pc \in [Actors -> Labels] /\ frame \in [Actors -> Frames]
         /\ foreign' = foreign /\ SessionTypeOK /\ LedgersKept
         /\ Staged(pc[a], f, s) /\ Executes(pc[a], f, s)
         /\ f.phase \in {"rollback", "stop", "cleanup"}
         /\ \A i \in f.todo : i \in Indices(s)
         /\ f.phase = "rollback" => IdsFit(f, s)
<1>1. Deep(a)
  BY DEF Deep, ExecutingLabels
<1>2. /\ f \in Frames /\ s \in Sessions /\ pc \in [Actors -> Labels] /\ frame \in [Actors -> Frames]
      /\ foreign' = foreign /\ SessionTypeOK /\ LedgersKept
      /\ Staged(pc[a], f, s) /\ Executes(pc[a], f, s)
  BY <1>1, QuietFacts
<1>3. \A i \in f.todo : i \in Indices(s)
  BY DEF QuietChange, Shape, ActorFits, Points
<1>4. f.phase \in {"rollback", "stop", "cleanup"}
  <2>1. f.phase # "none" /\ f.phase \in Phases
    BY <1>2 DEF Executes, Frames
  <2>. QED BY <2>1 DEF Phases
<1>5. f.phase = "rollback" => IdsFit(f, s)
  BY <1>2 DEF Staged, RollingBack
<1>. QED BY <1>2, <1>3, <1>4, <1>5

\* The action that is in effect is not in the way of another one but when it was tried.
LEMMA InTheWay ==
  ASSUME DeviceAssumption, ActorAssumption, QuietChange, NEW a \in Actors, Acts(a), pc[a] = "next",
         NEW s, s = on[a], NEW i \in frame[a].todo, \A k \in frame[a].todo : Before(a, i, k),
         IsProxy(s, i), proxy # foreign, ledger[s][i].action.port # proxy
  PROVE  Cause(s, i)
<1>. PICK f : f = frame[a]
  OBVIOUS
<1>0. pc[a] \in ExecutingLabels
  BY DEF ExecutingLabels
<1>1. /\ f \in Frames /\ s \in Sessions /\ SessionTypeOK
      /\ Executes(pc[a], f, s)
      /\ f.phase \in {"rollback", "stop", "cleanup"}
      /\ \A k \in f.todo : k \in Indices(s)
      /\ f.phase = "rollback" => IdsFit(f, s)
  BY <1>0, ExecutingFacts
<1>2. PICK t \in Sessions : \E j \in Indices(t) : InEffect(t, j)
  BY DEF QuietChange, Stacked, ProxyHeld
<1>3. PICK j \in Indices(t) : InEffect(t, j)
  BY <1>2
<1>4. t = s
  <2>1. PendingCleanup(t)
    BY <1>1, <1>3, UnsettledPends DEF InEffect
  <2>. QED BY <1>0, <1>1, <2>1 DEF Executes
<1>5. /\ LastProxy(s, j) /\ j \in Unsettled(s) /\ ledger[s][j].action.port = proxy /\ Held(s, j)
      /\ ledger[s][j].action.kind = "proxy"
  BY <1>3, <1>4 DEF InEffect, LastProxy, IsProxy
<1>6. j \in Nat /\ i \in Nat /\ j > i
  <2>1. j \in Nat /\ i \in Nat /\ i # j
    BY <1>1, <1>3, <1>4, <1>5, LedgerFacts
  <2>2. i <= j
    BY <1>5 DEF LastProxy, IsProxy
  <2>. QED BY <2>1, <2>2
<1>7. Tried(s, j)
  <2>1. CASE f.phase = "cleanup"
    <3>1. \A k \in f.todo : i >= k
      BY <2>1 DEF Before
    <3>2. j \notin f.todo
      BY <1>6, <3>1
    <3>. QED BY <1>0, <1>1, <1>5, <2>1, <3>2 DEF Executes
  <2>2. CASE f.phase = "rollback"
    <3>1. PICK k \in Kinds : i = f.ids[k]
      BY <1>0, <1>1, <2>2 DEF Executes
    <3>2. i # 0
      BY DEF IsProxy, Indices
    <3>3. k = "proxy"
      BY <1>1, <2>2, <3>1, <3>2 DEF IdsFit, IsProxy
    <3>4. LastProxy(s, i)
      BY <1>1, <2>2, <3>1, <3>2, <3>3 DEF IdsFit
    <3>. QED BY <1>5, <1>6, <3>4, OneLast
  <2>3. CASE f.phase = "stop"
    <3>1. KindsFit(s)
      <4>1. cap[s].status # "none"
        BY <1>0, <2>3 DEF QuietChange, Shape, ActorFits, Stopping
      <4>. QED BY <1>1, <4>1 DEF QuietChange, Stacked, CapturesFit
    <3>2. i \in StopIds(s)
      <4>1. Progress(a, s)
        BY <1>1 DEF QuietChange, Reopening
      <4>. QED BY <1>0, <2>3, <4>1 DEF Progress
    <3>3. ~CaptureHolds(s, j)
      <4>1. i = cap[s].ids["proxy"]
        BY <1>1, <3>1, <3>2, OneProxy DEF IsProxy
      <4>2. j \in StopIds(s) => j = cap[s].ids["proxy"]
        BY <1>1, <1>5, <3>1, OneProxy
      <4>. QED BY <1>6, <4>1, <4>2 DEF CaptureHolds
    <3>4. ASSUME NEW b \in Actors, StartHolds(pc[b], frame[b], j) PROVE FALSE
      <4>1. pc[b] \notin {"idle", "startLock", "stopLock"}
        BY <3>4 DEF StartHolds, RollingBack, ExecutingLabels
      <4>2. a = b
        BY <4>1, LockHolder DEF QuietChange
      <4>. QED BY <2>3, <3>4, <4>2 DEF StartHolds, RollingBack
    <3>. QED BY <1>5, <3>3, <3>4 DEF Held
  <2>. QED BY <1>1, <2>1, <2>2, <2>3
<1>. QED BY <1>3, <1>4, <1>5, <1>6, <1>7 DEF Cause

LEMMA DecidePlaced ==
  ASSUME DeviceAssumption, ActorAssumption, QuietChange, NEW a \in Actors, Acts(a), Decide(a)
  PROVE  Placed(a)'
<1>. PICK l, f, g, s : l = pc'[a] /\ f = frame[a] /\ g = frame'[a] /\ s = on[a]
  OBVIOUS
<1>0. pc[a] = "next" /\ pc[a] \in ExecutingLabels /\ l # "next"
  <2>1. pc[a] = "next"
    BY DEF Decide
  <2>2. pc \in [Actors -> Labels]
    BY DEF QuietChange, Shape, TypeOK
  <2>. QED BY <2>1, <2>2 DEF Decide, Goto, ExecutingLabels
<1>1. /\ f \in Frames /\ s \in Sessions /\ pc \in [Actors -> Labels] /\ frame \in [Actors -> Frames]
      /\ foreign' = foreign /\ SessionTypeOK
      /\ Staged(pc[a], f, s) /\ Executes(pc[a], f, s)
      /\ \A i \in f.todo : i \in Indices(s)
      /\ f.phase = "rollback" => IdsFit(f, s)
  BY <1>0, ExecutingFacts
<1>2. UNCHANGED <<sessionVars, deviceVars>> /\ on'[a] = s
  BY DEF Decide, Keep
<1>3. PICK i \in f.todo :
        /\ \A j \in f.todo : Before(a, i, j)
        /\ LET e == ledger[s][i].action
               v == DeviceVerdict(s, e)
               With(x) == frame' = [frame EXCEPT ![a].current = i, ![a].verdict = x]
           IN \/ With("failed") /\ Goto(a, "mark")
              \/ IF v = "apply" THEN With("completed") /\ Goto(a, "apply")
                                ELSE With(v) /\ Goto(a, "mark")
              \/ e.kind = "process" /\ With("skipped") /\ Goto(a, "mark")
  BY DEF Decide
<1>. PICK e, v : e = ledger[s][i].action /\ v = DeviceVerdict(s, e)
  OBVIOUS
<1>4. PICK x : /\ g = [f EXCEPT !.current = i, !.verdict = x]
               /\ \/ x = "failed" /\ l = "mark"
                  \/ x = "completed" /\ l = "apply"
                  \/ x = v /\ v # "apply" /\ l = "mark"
                  \/ x = "skipped" /\ l = "mark" /\ e.kind = "process"
  BY <1>1, <1>3 DEF Goto
<1>5. g.current = i /\ g.verdict = x /\ g.todo = f.todo /\ g.phase = f.phase /\ g.ids = f.ids
  BY <1>1, <1>4 DEF Frames
<1>6. i \in Indices(s) /\ e.port \in Ports
  BY <1>1, ActionFacts DEF Points
<1>7. l = "mark" /\ x \in Settled /\ e.kind = "proxy" => proxy = foreign
  <2>. SUFFICES ASSUME l = "mark", x \in Settled, e.kind = "proxy" PROVE proxy = foreign
    OBVIOUS
  <2>1. v = "skipped" /\ v = ProxyVerdict(s, e, proxy)
    BY <1>4 DEF Settled, DeviceVerdict, ProxyVerdict
  <2>2. proxy = e.prev
    BY <2>1 DEF ProxyVerdict
  <2>3. e.prev = foreign
    BY <1>1, <1>6 DEF QuietChange, Stacked, SamePrevs, IsProxy
  <2>. QED BY <2>2, <2>3
<1>8. l = "mark" /\ x = "conflict" => Cause(s, i)
  <2>. SUFFICES ASSUME l = "mark", x = "conflict" PROVE Cause(s, i)
    OBVIOUS
  <2>1. v = "conflict"
    BY <1>4
  <2>2. reverse[e.port] # "other"
    BY <1>6 DEF QuietChange, Stacked, NoneTaken
  <2>3. e.kind = "proxy" /\ proxy \notin {e.prev, e.port}
    BY <2>1, <2>2 DEF DeviceVerdict, ProxyVerdict, ReverseVerdict, ProcessVerdict
  <2>4. e.prev = foreign /\ IsProxy(s, i)
    BY <1>1, <1>6, <2>3 DEF QuietChange, Stacked, SamePrevs, IsProxy
  <2>. QED BY <1>0, <1>3, <2>3, <2>4, InTheWay
<1>9. Staged(l, g, s)'
  <2>1. Indices(s)' = Indices(s)
    BY <1>2 DEF Indices, sessionVars
  <2>2. g.phase = "rollback" => IdsFit(g, s)'
    BY <1>1, <1>5, <2>1, IdsKept
  <2>3. l \in {"apply", "mark"}
    BY <1>4
  <2>. QED BY <2>2, <2>3 DEF Staged, StartLabels, RollingBack
<1>10. Executes(l, g, s)'
  <2>1. /\ \A t : PendingCleanup(t)' = PendingCleanup(t) /\ Unsettled(s)' = Unsettled(s)
        /\ \A j : Tried(s, j)' = Tried(s, j)
        /\ \A j : Cause(s, j)' = Cause(s, j)
        /\ ledger' = ledger /\ proxy' = proxy
    BY <1>2 DEF sessionVars, deviceVars, PendingCleanup, Unsettled, Indices, Tried, Cause
  <2>2. l = "apply" => g.verdict # "conflict"
    BY <1>4, <1>5
  <2>. QED BY <1>0, <1>1, <1>5, <1>7, <1>8, <2>1, <2>2 DEF Executes
<1>. QED BY <1>2, <1>9, <1>10, PlacedAt

LEMMA ApplyPlaced ==
  ASSUME DeviceAssumption, ActorAssumption, QuietChange, NEW a \in Actors, Acts(a), Apply(a)
  PROVE  Placed(a)'
<1>. PICK f, g, s, i : f = frame[a] /\ g = frame'[a] /\ s = on[a] /\ i = f.current
  OBVIOUS
<1>0. pc[a] = "apply" /\ pc[a] \in ExecutingLabels /\ UNCHANGED sessionVars
  BY DEF Apply, ExecutingLabels
<1>1. /\ f \in Frames /\ s \in Sessions /\ pc \in [Actors -> Labels] /\ frame \in [Actors -> Frames]
      /\ foreign' = foreign
      /\ Staged(pc[a], f, s) /\ Executes(pc[a], f, s)
      /\ f.phase = "rollback" => IdsFit(f, s)
  BY <1>0, ExecutingFacts
<1>2. on'[a] = s /\ pc'[a] = "mark" /\ g \in {f, [f EXCEPT !.verdict = "failed"]}
  BY <1>1 DEF Apply, Keep, Goto
<1>3. /\ g.current = i /\ g.todo = f.todo /\ g.phase = f.phase /\ g.ids = f.ids
      /\ g.verdict \in {f.verdict, "failed"}
  BY <1>1, <1>2 DEF Frames
<1>4. g.verdict \in Settled /\ ledger[s][i].action.kind = "proxy" => proxy' = foreign
  <2>. SUFFICES ASSUME g.verdict \in Settled, ledger[s][i].action.kind = "proxy" PROVE proxy' = foreign
    OBVIOUS
  <2>1. Action(a).kind = "proxy"
    BY DEF Action
  <2>2. proxy' = Action(a).prev
    BY <2>1, ApplyStep DEF QuietChange
  <2>. QED BY <1>0, <2>1, <2>2, ProxyGivenBack
<1>5. UNCHANGED ledger
  BY <1>0 DEF sessionVars
<1>6. Staged("mark", g, s)'
  <2>1. Indices(s)' = Indices(s)
    BY <1>5 DEF Indices
  <2>2. g.phase = "rollback" => IdsFit(g, s)'
    BY <1>1, <1>3, <2>1, IdsKept
  <2>. QED BY <2>2 DEF Staged, StartLabels, RollingBack
<1>7. Executes("mark", g, s)'
  <2>1. /\ \A t : PendingCleanup(t)' = PendingCleanup(t) /\ Unsettled(s)' = Unsettled(s)
        /\ \A j : Tried(s, j)' = Tried(s, j)
    BY <1>5 DEF PendingCleanup, Unsettled, Indices, Tried
  <2>2. g.verdict # "conflict"
    BY <1>0, <1>1, <1>3 DEF Executes
  <2>. QED BY <1>0, <1>1, <1>3, <1>4, <1>5, <2>1, <2>2 DEF Executes
<1>. QED BY <1>2, <1>6, <1>7, PlacedAt

LEMMA MarkPlaced ==
  ASSUME DeviceAssumption, ActorAssumption, QuietChange, NEW a \in Actors, Acts(a), Mark(a), pc'[a] = "next"
  PROVE  Placed(a)'
<1>. PICK f, g, s, i : f = frame[a] /\ g = frame'[a] /\ s = on[a] /\ i = f.current
  OBVIOUS
<1>0. pc[a] = "mark" /\ pc[a] \in ExecutingLabels /\ Deep(a)
  BY DEF Mark, ExecutingLabels, Deep
<1>1. /\ f \in Frames /\ s \in Sessions /\ pc \in [Actors -> Labels] /\ frame \in [Actors -> Frames]
      /\ foreign' = foreign /\ SessionTypeOK /\ LedgersKept
      /\ Executes(pc[a], f, s)
      /\ f.phase = "rollback" => IdsFit(f, s)
  BY <1>0, ExecutingFacts
<1>2. on'[a] = s /\ g.phase = f.phase /\ g.todo = f.todo \ {i}
  BY MarkFrame DEF QuietChange
<1>3. g.ids = f.ids
  <2>. PICK rest, errors : /\ rest = f.todo \ {i} /\ errors = (f.errors \/ f.verdict \notin Settled)
    OBVIOUS
  <2>1. g = [f EXCEPT !.todo = rest, !.errors = errors]
    BY <1>1 DEF Mark
  <2>. QED BY <1>1, <2>1 DEF Frames
<1>4. Indices(s)' = Indices(s)
  <2>1. i \in Indices(s) /\ f.verdict \in EntryStatuses /\ UpdateAction(s, i, f.verdict)
    BY <1>1, MarkStep DEF Mark, QuietChange, Frames, Verdicts
  <2>. QED BY <1>1, <2>1, UpdateFacts
<1>5. \A t \in Sessions \ {s} : ~PendingCleanup(t)'
  <2>1. ASSUME NEW t \in Sessions, t # s PROVE ~PendingCleanup(t)'
    <3>1. ledger'[t] = ledger[t] /\ ~PendingCleanup(t)
      BY <1>0, <1>1, <2>1, AwayKept DEF Executes
    <3>. QED BY <3>1 DEF PendingCleanup, Indices
  <2>. QED BY <2>1
<1>6. f.phase = "cleanup" => \A j \in Unsettled(s)' \ g.todo : Tried(s, j)'
  <2>. SUFFICES ASSUME f.phase = "cleanup", NEW j \in Unsettled(s)', j \notin g.todo PROVE Tried(s, j)'
    OBVIOUS
  <2>1. j \in Indices(s)
    BY <1>4 DEF Unsettled
  <2>2. CASE j = i
    BY <1>1, <2>1, <2>2, TriedKept
  <2>3. CASE j # i
    <3>1. ledger'[s][j].status = ledger[s][j].status
      BY <1>1, <2>1, <2>3, MarkStep DEF QuietChange
    <3>2. j \in Unsettled(s) /\ j \notin f.todo
      BY <1>2, <2>1, <2>3, <3>1 DEF Unsettled
    <3>3. Tried(s, j)
      BY <1>0, <1>1, <3>2 DEF Executes
    <3>. QED BY <1>1, <2>1, <3>3, TriedKept
  <2>. QED BY <2>2, <2>3
<1>7. Staged("next", g, s)'
  <2>1. g.phase = "rollback" => IdsFit(g, s)'
    BY <1>1, <1>2, <1>3, <1>4, IdsKept
  <2>. QED BY <2>1 DEF Staged, StartLabels, RollingBack
<1>8. Executes("next", g, s)'
  BY <1>0, <1>1, <1>2, <1>3, <1>5, <1>6 DEF Executes
<1>. QED BY <1>2, <1>7, <1>8, PlacedAt

\* Whoever takes a step is in place after it,
LEMMA ActsPlaced ==
  ASSUME DeviceAssumption, ActorAssumption, QuietChange, NEW a \in Actors, Acts(a)
  PROVE  Placed(a)'
<1>. PICK l : l = pc'[a]
  OBVIOUS
<1>1. Arrival(a) /\ foreign \notin Ports
  BY Arrivals, QuietFacts DEF QuietChange
<1>2. CASE l \notin StartLabels \cup ExecutingLabels \cup {"rollback"}
  BY <1>2, PlacedElse
<1>3. CASE l = "spawn"
  BY <1>1, <1>3, LockPlaced DEF Arrival
<1>4. CASE l \in {"recordProcess", "recordProxy"}
  BY <1>1, <1>4, SpawnPlaced DEF Arrival
<1>5. CASE l \in {"recordReverse", "addReverse", "putProxy"}
  BY <1>1, <1>5, RecordPlaced DEF Arrival, Records
<1>6. CASE l = "readProxy"
  BY <1>1, <1>6, RecordPlaced, SpawnPlaced DEF Arrival, Records
<1>7. CASE l = "running"
  BY <1>1, <1>7, SpawnPlaced, PutPlaced DEF Arrival
<1>8. CASE l = "rollback"
  BY <1>1, <1>8, FallPlaced, RecordPlaced, SpawnPlaced DEF Arrival, Records
<1>9. CASE l = "next"
  BY <1>1, <1>9, MarkPlaced, BeginPlaced DEF Arrival
<1>10. CASE l \in {"apply", "mark"}
  BY <1>1, <1>10, DecidePlaced, ApplyPlaced DEF Arrival
<1>. QED BY <1>2, <1>3, <1>4, <1>5, <1>6, <1>7, <1>8, <1>9, <1>10 DEF StartLabels, ExecutingLabels

\* and so is everybody else.
LEMMA PlacedStep ==
  ASSUME DeviceAssumption, ActorAssumption, QuietChange, NEW b \in Actors
  PROVE  Placed(b)'
<1>1. Placed(b)
  BY DEF QuietChange, Stacked
<1>2. ASSUME NEW a \in Actors, Acts(a), a # b PROVE Placed(b)'
  <2>1. Still(b) /\ ~Crash(a)
    BY <1>2, QuietFacts
  <2>2. CASE ~Deep(b)
    <3>1. pc'[b] \notin StartLabels \cup ExecutingLabels \cup {"rollback"}
      BY <2>1, <2>2 DEF Deep, Still, StartLabels, ExecutingLabels
    <3>. QED BY <3>1, PlacedElse
  <2>3. CASE Deep(b)
    <3>1. ~Deep(a)
      BY <1>2, <2>3, OnlyDeep DEF QuietChange
    <3>2. UNCHANGED <<ledger, proxy, foreign>>
      BY <1>2, <2>1, <3>1, EarlyVars DEF sessionVars, deviceVars
    <3>. QED BY <1>1, <2>1, <3>2, PlacedKept
  <2>. QED BY <2>2, <2>3
<1>3. ASSUME Still(b), UNCHANGED deviceVars, UNCHANGED sessionVars \/ \E s \in Sessions : CreateSession(s)
      PROVE  Placed(b)'
  <2>1. UNCHANGED <<ledger, proxy, foreign>>
    BY <1>3 DEF sessionVars, deviceVars, CreateSession, Initialize, Activate, CreateFails
  <2>. QED BY <1>1, <1>3, <2>1, PlacedKept
<1>4. ~Interference
  BY StaysQuiet DEF QuietChange
<1>5. ASSUME Acts(b) PROVE Placed(b)'
  BY <1>5, ActsPlaced
<1>6. \/ \E a \in Actors : Acts(a)
      \/ /\ Still(b) /\ UNCHANGED deviceVars
         /\ UNCHANGED sessionVars \/ \E s \in Sessions : CreateSession(s)
  BY <1>4, StepCases DEF QuietChange
<1>. QED BY <1>2, <1>3, <1>5, <1>6

LEMMA StackedStep ==
  ASSUME DeviceAssumption, ActorAssumption, QuietChange
  PROVE  Stacked'
BY NoneTakenStep, SamePrevsStep, CapturesFitStep, ProxyHeldStep, PlacedStep DEF Stacked

LEMMA InitStacked == ASSUME DeviceAssumption, ActorAssumption, Init PROVE Stacked
<1>1. /\ proxy = foreign /\ \A p \in Ports : reverse[p] = "none"
      /\ \A s \in Sessions : Indices(s) = {} /\ cap[s].status = "none"
      /\ \A a \in Actors : pc[a] = "idle"
  BY DEF Init, DeviceInit, SessionInit, CaptureInit, NoCapture, Indices
<1>2. NoneTaken /\ SamePrevs /\ CapturesFit /\ ProxyHeld
  BY <1>1 DEF NoneTaken, SamePrevs, CapturesFit, ProxyHeld
<1>3. ASSUME NEW a \in Actors PROVE Placed(a)
  BY <1>1 DEF Placed, Staged, Executes, RollingBack, StartLabels, ExecutingLabels
<1>. QED BY <1>2, <1>3 DEF Stacked

LEMMA QuietIsStacked == Spec => [](Shape /\ Debts /\ Reopening /\ (Quiet => Stacked))
<1>. DEFINE I == Shape /\ Debts /\ Reopening /\ (Quiet => Stacked)
<1>1. Init => I
  <2>1. Init => Debts /\ Shape /\ Stacked
    BY DeviceAssumption, ActorAssumption, InitShape, InitDebts, InitStacked
  <2>2. ASSUME Init
        PROVE  /\ captured = {} /\ \A s \in Sessions : Indices(s) = {} /\ status[s] = "absent"
               /\ \A a \in Actors : pc[a] = "idle"
    BY <2>2 DEF Init, SessionInit, Indices
  <2>3. Init => Reopening
    BY <2>2 DEF Reopening, SessionFits, Progress, Open, StartLabels, ExecutingLabels
  <2>. QED BY <2>1, <2>3
<1>2. I /\ [Next]_vars => I'
  <2>1. ASSUME Shape, Debts, Reopening, [Next]_vars PROVE Shape' /\ Debts' /\ Reopening'
    BY <2>1, DeviceAssumption, ActorAssumption, NextShape, DebtsStep, ReopeningStep
  <2>2. ASSUME Shape, Debts, Reopening, Quiet => Stacked, [Next]_vars, Quiet' PROVE Stacked'
    <3>1. Quiet
      BY <2>2, DeviceAssumption, ActorAssumption, StaysQuiet
    <3>2. QuietChange
      BY <2>1, <2>2, <3>1 DEF QuietChange, Debts
    <3>. QED BY <3>2, DeviceAssumption, ActorAssumption, StackedStep
  <2>. QED BY <2>1, <2>2
<1>. QED BY <1>1, <1>2, PTL DEF Spec

\* While nobody interferes or dies, and no session's actions are executed while another
\* one has some, an action ends in a conflict only when a later one was tried and could
\* not be given back: a start finds the proxy as others set it, and rollback and cleanup
\* go backwards, so the proxy in effect is put back first.
THEOREM ConflictsAreCaused == Spec => []ConflictHasCause
<1>1. Spec => [](Shape /\ Debts /\ Reopening /\ (Quiet => Stacked))
  BY QuietIsStacked
<1>2. Shape /\ Debts /\ Reopening /\ (Quiet => Stacked) => ConflictHasCause
  <2>1. ASSUME Stacked, NEW a \in Actors, pc[a] = "mark", frame[a].verdict = "conflict"
        PROVE  \E j \in Indices(on[a]) :
                 /\ j > frame[a].current
                 /\ ledger[on[a]][j].status \in {"failed", "conflict"}
                 /\ ledger[on[a]][j].action.kind = "proxy"
                 /\ ledger[on[a]][j].action.port = proxy
    <3>. PICK f, s : f = frame[a] /\ s = on[a]
      OBVIOUS
    <3>1. Executes(pc[a], f, s)
      BY <2>1 DEF Stacked, Placed
    <3>2. Cause(s, f.current)
      BY <2>1, <3>1 DEF Executes, ExecutingLabels
    <3>. QED BY <3>2 DEF Cause, Tried
  <2>. QED BY <2>1 DEF ConflictHasCause, Quiet
<1>. QED BY <1>1, <1>2, PTL

(***************************************************************************)
(* Cleanup as a whole.  Going backwards through the ledger of a session is *)
(* a recursive function; sets of numbers stand in for the induction.       *)
(***************************************************************************)
LEMMA LeastNumber ==
  ASSUME NEW T, T \subseteq Nat, T # {}
  PROVE  \E m \in T : \A k \in T : m <= k
<1>. DEFINE R == {ss \in Nat \X Nat : ss[1] < ss[2]}
<1>1. R = OpToRel(<, Nat)
  BY DEF OpToRel
<1>2. IsWellFoundedOn(R, Nat)
  BY <1>1, NatLessThanWellFounded
<1>3. PICK m \in T : \A k \in T : ~(<<k, m>> \in R)
  <2>. HIDE DEF R
  <2>. QED BY <1>2, WFMin
<1>4. ASSUME NEW k \in T PROVE m <= k
  <2>1. <<k, m>> \notin R
    BY <1>3
  <2>. QED BY <2>1
<1>. QED BY <1>4

\* What holds of n, and of i when it holds of i + 1, holds from n down to zero.
LEMMA Downwards ==
  ASSUME NEW n \in Nat, NEW T, n \in T, \A i \in 0..(n - 1) : i + 1 \in T => i \in T
  PROVE  \A i \in 0..n : i \in T
<1>. DEFINE Missed == {k \in 0..n : n - k \notin T}
<1>. SUFFICES ASSUME NEW i \in 0..n, i \notin T PROVE FALSE
  OBVIOUS
<1>1. n - i \in Missed /\ Missed \subseteq Nat
  OBVIOUS
<1>2. PICK m \in Missed : \A k \in Missed : m <= k
  <2>. HIDE DEF Missed
  <2>. QED BY <1>1, LeastNumber
<1>3. m # 0 /\ m - 1 \notin Missed
  BY <1>2
<1>4. n - m \in 0..(n - 1) /\ (n - m) + 1 \in T
  BY <1>3
<1>. QED BY <1>2, <1>4

\* What going back through the ledger of s from its end to number i leaves.
GoingBack(s, h) ==
  h = [i \in 0..Len(ledger[s]) |->
         IF i = Len(ledger[s]) THEN [proxy |-> proxy, reverse |-> reverse, ok |-> TRUE]
         ELSE GiveBack(h[i + 1], s, ledger[s][i + 1])]

LEMMA GoingBackExists ==
  ASSUME NEW s, Len(ledger[s]) \in Nat
  PROVE  \E h : GoingBack(s, h)
<1>. DEFINE n == Len(ledger[s])
            base == [proxy |-> proxy, reverse |-> reverse, ok |-> TRUE]
            From(k, h) == h = [i \in k..n |-> IF i = n THEN base ELSE GiveBack(h[i + 1], s, ledger[s][i + 1])]
            T == {k \in 0..n : \E h : From(k, h)}
<1>. HIDE DEF base
<1>1. n \in T
  <2>. DEFINE h == [i \in n..n |-> base]
  <2>1. From(n, h)
    OBVIOUS
  <2>2. n \in 0..n
    OBVIOUS
  <2>. HIDE DEF From, h
  <2>. QED BY <2>1, <2>2
<1>2. ASSUME NEW k \in 0..(n - 1), k + 1 \in T PROVE k \in T
  <2>1. PICK h : From(k + 1, h)
    BY <1>2
  <2>. DEFINE g == [i \in k..n |-> IF i = k THEN GiveBack(h[k + 1], s, ledger[s][k + 1]) ELSE h[i]]
  <2>2. g[k] = GiveBack(h[k + 1], s, ledger[s][k + 1]) /\ \A i \in (k + 1)..n : g[i] = h[i]
    OBVIOUS
  <2>3. \A i \in (k + 1)..n : h[i] = IF i = n THEN base ELSE GiveBack(h[i + 1], s, ledger[s][i + 1])
    BY <2>1
  <2>4. \A i \in k..n : g[i] = IF i = n THEN base ELSE GiveBack(g[i + 1], s, ledger[s][i + 1])
    <3>. HIDE DEF g
    <3>. QED BY <2>2, <2>3
  <2>5. From(k, g)
    <3>1. g = [i \in k..n |-> g[i]]
      OBVIOUS
    <3>. HIDE DEF g
    <3>. QED BY <2>4, <3>1
  <2>6. k \in 0..n
    OBVIOUS
  <2>. HIDE DEF From, g
  <2>. QED BY <2>5, <2>6
<1>3. 0 \in T
  <2>. HIDE DEF T
  <2>. QED BY <1>1, <1>2, Downwards
<1>. QED BY <1>3 DEF GoingBack, base

LEMMA CleanupGoesBack ==
  ASSUME NEW s, Len(ledger[s]) \in Nat, \A h : GoingBack(s, h) => h[0].ok
  PROVE  CleanupSucceeds(s)
<1>1. \E h : GoingBack(s, h)
  BY GoingBackExists
<1>. QED BY <1>1 DEF CleanupSucceeds, GoingBack

\* What is left of a session's changes before its action number i is given back.
Restorable(s, d, i) ==
  /\ d.ok /\ d.reverse \in [Ports -> {"none", "own"}]
  /\ d.proxy # foreign => d.proxy = proxy /\ \E j \in Indices(s) : j <= i /\ InEffect(s, j)

LEMMA GivesBack ==
  ASSUME Shape, Reopening, Stacked, NEW s \in Sessions, NEW i \in Indices(s),
         NEW d, Restorable(s, d, i)
  PROVE  Restorable(s, GiveBack(d, s, ledger[s][i]), i - 1)
<1>. PICK x, e : x = ledger[s][i] /\ e = x.action
  OBVIOUS
<1>1. e.port \in Ports /\ e.kind \in Kinds /\ i \in Nat /\ Indices(s) \subseteq Nat
  <2>1. x \in Entries
    BY LedgerFacts DEF Shape, TypeOK
  <2>. QED BY <2>1 DEF Entries, Actions, Indices
<1>2. /\ d.ok /\ d.reverse \in [Ports -> {"none", "own"}]
      /\ d.proxy # foreign => d.proxy = proxy /\ \E j \in Indices(s) : j <= i /\ InEffect(s, j)
  BY DEF Restorable
<1>3. ASSUME d.proxy # foreign, x.status \in Settled \/ e.kind # "proxy"
      PROVE  d.proxy = proxy /\ \E j \in Indices(s) : j <= i - 1 /\ InEffect(s, j)
  <2>1. PICK j \in Indices(s) : j <= i /\ InEffect(s, j)
    BY <1>2, <1>3
  <2>2. j # i
    BY <1>3, <2>1 DEF InEffect, LastProxy, IsProxy, Unsettled
  <2>. QED BY <1>1, <1>2, <1>3, <2>1, <2>2
<1>4. CASE x.status \in Settled \/ e.kind = "process"
  <2>1. GiveBack(d, s, x) = [proxy |-> d.proxy, reverse |-> d.reverse, ok |-> d.ok]
    BY <1>2, <1>4 DEF GiveBack
  <2>. QED BY <1>2, <1>3, <1>4, <2>1 DEF Restorable
<1>5. CASE x.status \notin Settled /\ e.kind = "reverse"
  <2>1. d.reverse[e.port] \in {"none", "own"}
    BY <1>1, <1>2
  <2>2. PICK r : /\ r \in [Ports -> {"none", "own"}]
                 /\ GiveBack(d, s, x) = [proxy |-> d.proxy, reverse |-> r, ok |-> TRUE]
    BY <1>2, <1>5, <2>1 DEF GiveBack, ReverseVerdict
  <2>. QED BY <1>2, <1>3, <1>5, <2>2 DEF Restorable
<1>6. CASE x.status \notin Settled /\ e.kind = "proxy"
  <2>1. s \in captured /\ e.prev = foreign
    BY <1>6 DEF Reopening, SessionFits, Stacked, SamePrevs, IsProxy
  <2>2. d.proxy # foreign => d.proxy = e.port
    <3>. SUFFICES ASSUME d.proxy # foreign PROVE d.proxy = e.port
      OBVIOUS
    <3>1. PICK j \in Indices(s) : j <= i /\ InEffect(s, j)
      BY <1>2
    <3>2. i <= j
      BY <1>6, <3>1 DEF InEffect, LastProxy, IsProxy
    <3>3. i = j
      BY <1>1, <3>1, <3>2
    <3>. QED BY <1>2, <3>1, <3>3 DEF InEffect
  <2>3. ProxyVerdict(s, e, d.proxy) = IF d.proxy = foreign THEN "skipped" ELSE "apply"
    BY <2>1, <2>2 DEF ProxyVerdict
  <2>4. GiveBack(d, s, x) = [proxy |-> foreign, reverse |-> d.reverse, ok |-> TRUE]
    BY <1>2, <1>6, <2>1, <2>3 DEF GiveBack
  <2>. QED BY <1>2, <2>4 DEF Restorable
<1>. QED BY <1>1, <1>4, <1>5, <1>6 DEF Kinds

\* While nobody interferes or dies, and no session's actions are executed while another
\* one has some, the cleanup of the only session that has any, run alone and without
\* failing calls, gives all of them back: the one proxy in effect is met first.
LEMMA CleanupRestores ==
  ASSUME Shape, Reopening, Stacked, NEW s \in Sessions, \A t \in Sessions \ {s} : ~PendingCleanup(t)
  PROVE  CleanupSucceeds(s)
<1>1. ASSUME NEW h, GoingBack(s, h) PROVE h[0].ok
  <2>. DEFINE n == Len(ledger[s])
              T == {i \in 0..n : Restorable(s, h[i], i)}
  <2>1. n \in Nat /\ Indices(s) = 1..n
    BY LedgerFacts DEF Shape, TypeOK, Indices
  <2>2. Restorable(s, h[n], n)
    <3>1. h[n] = [proxy |-> proxy, reverse |-> reverse, ok |-> TRUE]
      BY <1>1, <2>1 DEF GoingBack
    <3>2. reverse \in [Ports -> {"none", "own"}]
      BY DEF Shape, TypeOK, DeviceTypeOK, Stacked, NoneTaken
    <3>3. ASSUME proxy # foreign PROVE \E j \in Indices(s) : j <= n /\ InEffect(s, j)
      <4>1. PICK t \in Sessions : \E j \in Indices(t) : InEffect(t, j)
        BY <3>3 DEF Stacked, ProxyHeld
      <4>2. PICK j \in Indices(t) : InEffect(t, j)
        BY <4>1
      <4>3. PendingCleanup(t)
        BY <4>2, UnsettledPends DEF InEffect, Shape, TypeOK
      <4>4. t = s
        BY <4>3
      <4>. QED BY <2>1, <4>2, <4>4
    <3>. QED BY <3>1, <3>2, <3>3 DEF Restorable
  <2>3. ASSUME NEW i \in 0..(n - 1), i + 1 \in T PROVE i \in T
    <3>. PICK k : k = i + 1
      OBVIOUS
    <3>1. k \in Indices(s) /\ k - 1 = i /\ i # n /\ i \in 0..n
      BY <2>1
    <3>2. Restorable(s, h[k], k)
      BY <2>3
    <3>3. h[i] = GiveBack(h[k], s, ledger[s][k])
      BY <1>1, <3>1 DEF GoingBack
    <3>4. Restorable(s, h[i], i)
      BY <3>1, <3>2, <3>3, GivesBack
    <3>. QED BY <3>1, <3>4
  <2>4. n \in T
    BY <2>1, <2>2
  <2>5. 0 \in T
    <3>. HIDE DEF T, n
    <3>. QED BY <2>1, <2>3, <2>4, Downwards
  <2>. QED BY <2>5 DEF Restorable
<1>. QED BY <1>1, CleanupGoesBack, LedgerFacts DEF Shape, TypeOK

\* Cleanup can be relied on: while nobody interferes or dies, whatever calls fail, the
\* cleanup of the one session that still owes something meets no conflict.
THEOREM CleanupIsPossible == Spec => []Recoverable
<1>1. Spec => [](Shape /\ Debts /\ Reopening /\ (Quiet => Stacked))
  BY QuietIsStacked
<1>2. Shape /\ Debts /\ Reopening /\ (Quiet => Stacked) => Recoverable
  BY CleanupRestores DEF Recoverable, Quiet
<1>. QED BY <1>1, <1>2, PTL
=============================================================================
