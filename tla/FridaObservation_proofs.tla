----------------------- MODULE FridaObservation_proofs -----------------------
(***************************************************************************)
(* For every set of sessions and all bounds: what the ledgers and          *)
(* state.json say of Frida observations is so, what is left on device and  *)
(* host has a cause, and no operation ends what is not its session's.      *)
(*                                                                         *)
(* First what each step does to the local variables, the ledgers and the   *)
(* processes, in lemmas about all steps; then the parts of the invariant,  *)
(* each with the lemma that a step keeps it; the theorems are at the end.  *)
(***************************************************************************)
EXTENDS FridaObservation, SequenceTheorems, FiniteSetTheorems, TLAPS

\* The steps of each kind of operation.
StartLabels == {"probe", "recordFile", "push", "launch", "recordServer", "identify",
                "popen", "handshake", "recordClient", "running"}
RollbackLabels == {"rollback", "endRollback", "dropClient"}
ExecutingLabels == {"next", "apply", "mark"}
StopLabels == {"stop", "evidence", "stopped", "activate"}
CleanupLabels == {"cleanup", "endCleanup"}

\* What the operation under way is, fits the step it is at.
OpFits ==
  /\ pc = "idle" => op = NoOp
  /\ pc # "idle" => op.on \in Sessions
  /\ pc \in StartLabels \cup RollbackLabels => op.job = "start"
  /\ pc \in StopLabels => op.job # "start"
  /\ pc \in StopLabels => observer[op.on].status # "none"
  /\ pc \in CleanupLabels => op.job = "cleanup"
  /\ pc \in ExecutingLabels =>
       /\ op.phase # "none" /\ (op.phase = "rollback" <=> op.job = "start")
       /\ op.phase = "cleanup" => op.job = "cleanup"
       /\ op.phase = "stop" => observer[op.on].status # "none"
       /\ op.todo \subseteq Indices(op.on)
  /\ pc \in {"evidence", "stopped", "activate"} => op.phase = "stop"
  /\ pc \in {"apply", "mark"} => op.current \in op.todo
  /\ op.job # "start" => op.server = 0 /\ op.client = 0 /\ op.ids = NoEntryIds /\ ~op.owned

\* The process that an action of kind k of the start under way is about.
Made(k) == CASE k = "server" -> op.server [] k = "client" -> op.client [] OTHER -> 0

\* What a start has made and recorded so far.
StartFits ==
  /\ \A k \in FridaKinds : op.ids[k] # 0 =>
       /\ op.ids[k] \in Indices(op.on)
       /\ ledger[op.on][op.ids[k]].kind = k /\ ledger[op.on][op.ids[k]].proc = Made(k)
       /\ pc \in StartLabels => ledger[op.on][op.ids[k]].status = "pending"
  /\ pc \in {"recordFile", "push", "launch", "recordServer", "identify"} => op.owned
  /\ op.owned /\ pc \in StartLabels \ {"recordFile"} => op.ids["file"] # 0
  /\ op.owned /\ pc \in {"identify", "popen", "handshake", "recordClient", "running"} => op.ids["server"] # 0
  /\ pc = "running" => op.ids["client"] # 0
  /\ pc \in {"probe", "recordFile"} => op.ids["file"] = 0
  /\ pc \in {"probe", "recordFile", "push", "launch"} => op.server = 0
  /\ pc \in {"probe", "recordFile", "push", "launch", "recordServer"} => op.ids["server"] = 0
  /\ pc \in {"probe", "recordFile", "push", "launch", "recordServer", "identify", "popen"} => op.client = 0
  /\ pc \in {"probe", "recordFile", "push", "launch", "recordServer", "identify", "popen",
             "handshake", "recordClient"} => op.ids["client"] = 0
  /\ pc \in {"handshake", "recordClient"} => op.client # 0

\* The ids in state.json point into the ledger of the session.
ObserverFits ==
  \A s \in Sessions : observer[s].status # "none" =>
    /\ observer[s].ids["client"] \in Indices(s)
    /\ observer[s].owned => observer[s].ids["server"] \in Indices(s) /\ observer[s].ids["file"] \in Indices(s)

\* Types, and how operation, ledgers and state.json fit each other.
LedgersOK == ledger \in [Sessions -> Seq(Entries)]
Shape == TypeOK /\ LedgersOK /\ OpFits /\ StartFits /\ ObserverFits

(***************************************************************************)
(* Local variables                                                         *)
(***************************************************************************)
Verdicts == {"completed", "skipped", "failed"}
Phases == {"rollback", "stop", "cleanup"}

\* What went on so far in an operation p is as in o.
SameSoFar(o, p) ==
  /\ p.job = o.job /\ p.on = o.on /\ p.server = o.server /\ p.client = o.client
  /\ p.owned = o.owned /\ p.ids = o.ids

\* What is assumed of the constants.
LEMMA Constants == MaxActions \in Nat /\ MaxFaults \in Nat /\ MaxCrashes \in Nat
                   /\ MaxProcs \in Nat /\ MaxOutside \in Nat
                   /\ NoSession \notin Sessions /\ Outsider \notin Sessions
  BY FridaAssumption, FridaDeviceAssumption DEF FridaAssumption, FridaDeviceAssumption

\* The kinds of ledger actions, and no ids.
LEMMA KindFacts == FridaKinds = {"file", "server", "client"} /\ NoEntryIds \in [FridaKinds -> 0..MaxActions]
                   /\ \A k \in FridaKinds : NoEntryIds[k] = 0
  BY Constants DEF FridaKinds, NoEntryIds

\* The local variables of no operation have their types.
LEMMA NoOpFacts == NoOp \in Ops
  BY Constants, KindFacts DEF NoOp, Ops

\* The changes of the local variables, by name.
CalledOp(job, s) == [NoOp EXCEPT !.job = job, !.on = s]
CurrentOp(o, i, v) == [o EXCEPT !.current = i, !.verdict = v]
VerdictOp(o, v) == [o EXCEPT !.verdict = v]
TodoOp(o, I, e) == [o EXCEPT !.todo = I, !.errors = e]
PhaseOp(o, ph, I, r, g) ==
  [o EXCEPT !.phase = ph, !.todo = I, !.ready = r, !.errors = FALSE, !.registered = g]
RegisteredOp(o) == [o EXCEPT !.registered = TRUE]
ErrorsOp(o) == [o EXCEPT !.errors = TRUE]
ServerOp(o, n) == [o EXCEPT !.server = n]
ClientOp(o, n) == [o EXCEPT !.client = n]
OwnedOp(o) == [o EXCEPT !.owned = TRUE]
IdsOp(o, k, i) == [o EXCEPT !.ids[k] = i]

\* What a called operation starts with.
LEMMA CalledFacts ==
  ASSUME NEW job \in {"start", "stop", "cleanup"}, NEW s \in Sessions
  PROVE  /\ CalledOp(job, s) \in Ops /\ CalledOp(job, s).job = job /\ CalledOp(job, s).on = s
         /\ CalledOp(job, s).phase = "none" /\ CalledOp(job, s).todo = {} /\ CalledOp(job, s).ready
         /\ CalledOp(job, s).server = 0 /\ CalledOp(job, s).client = 0 /\ ~CalledOp(job, s).owned
         /\ CalledOp(job, s).ids = NoEntryIds
<1>1. NoOp \in Ops /\ NoOp.phase = "none" /\ NoOp.todo = {} /\ NoOp.ready /\ NoOp.server = 0
      /\ NoOp.client = 0 /\ ~NoOp.owned /\ NoOp.ids = NoEntryIds
  BY NoOpFacts DEF NoOp
<1>. DEFINE o == CalledOp(job, s)
<1>2. o \in Ops /\ o.job = job /\ o.on = s /\ o.phase = NoOp.phase /\ o.todo = NoOp.todo /\ o.ready = NoOp.ready
      /\ o.server = NoOp.server /\ o.client = NoOp.client /\ o.owned = NoOp.owned /\ o.ids = NoOp.ids
  BY <1>1 DEF Ops, CalledOp
<1>. QED BY <1>1, <1>2

\* Taking an action in hand.
LEMMA CurrentFacts ==
  ASSUME NEW o \in Ops, NEW i \in 0..MaxActions, NEW v \in Verdicts
  PROVE  /\ CurrentOp(o, i, v) \in Ops /\ SameSoFar(o, CurrentOp(o, i, v))
         /\ CurrentOp(o, i, v).phase = o.phase /\ CurrentOp(o, i, v).todo = o.todo
         /\ CurrentOp(o, i, v).ready = o.ready /\ CurrentOp(o, i, v).current = i
         /\ CurrentOp(o, i, v).verdict = v
  BY DEF Ops, SameSoFar, Verdicts, CurrentOp

\* Changing the verdict on the action in hand.
LEMMA VerdictFacts ==
  ASSUME NEW o \in Ops, NEW v \in Verdicts
  PROVE  /\ VerdictOp(o, v) \in Ops /\ SameSoFar(o, VerdictOp(o, v))
         /\ VerdictOp(o, v).phase = o.phase /\ VerdictOp(o, v).todo = o.todo
         /\ VerdictOp(o, v).ready = o.ready /\ VerdictOp(o, v).current = o.current
         /\ VerdictOp(o, v).verdict = v
  BY DEF Ops, SameSoFar, Verdicts, VerdictOp

\* Changing what is left to do.
LEMMA TodoFacts ==
  ASSUME NEW o \in Ops, NEW I \in SUBSET (1..MaxActions), NEW e \in BOOLEAN
  PROVE  /\ TodoOp(o, I, e) \in Ops /\ SameSoFar(o, TodoOp(o, I, e))
         /\ TodoOp(o, I, e).phase = o.phase /\ TodoOp(o, I, e).todo = I /\ TodoOp(o, I, e).ready = o.ready
  BY DEF Ops, SameSoFar, TodoOp

\* Beginning to go through ledger actions.
LEMMA PhaseFacts ==
  ASSUME NEW o \in Ops, NEW I \in SUBSET (1..MaxActions), NEW ph \in Phases, NEW r \in BOOLEAN, NEW g \in BOOLEAN
  PROVE  /\ PhaseOp(o, ph, I, r, g) \in Ops /\ SameSoFar(o, PhaseOp(o, ph, I, r, g))
         /\ PhaseOp(o, ph, I, r, g).phase = ph /\ PhaseOp(o, ph, I, r, g).todo = I
         /\ PhaseOp(o, ph, I, r, g).ready = r
  BY DEF Ops, SameSoFar, Phases, PhaseOp

\* Noting that evidence is registered, or that something failed.
LEMMA EvidenceFacts ==
  ASSUME NEW o \in Ops
  PROVE  /\ RegisteredOp(o) \in Ops /\ SameSoFar(o, RegisteredOp(o))
         /\ RegisteredOp(o).phase = o.phase /\ RegisteredOp(o).ready = o.ready
         /\ ErrorsOp(o) \in Ops /\ SameSoFar(o, ErrorsOp(o))
         /\ ErrorsOp(o).phase = o.phase /\ ErrorsOp(o).ready = o.ready
  BY DEF Ops, SameSoFar, RegisteredOp, ErrorsOp

\* What the operation is about, besides what a start makes.
SameCall(o, p) ==
  p.job = o.job /\ p.on = o.on /\ p.phase = o.phase /\ p.ready = o.ready /\ p.todo = o.todo

\* Noting the server to use.
LEMMA ServerFacts ==
  ASSUME NEW o \in Ops, NEW n \in 0..MaxProcs
  PROVE  /\ ServerOp(o, n) \in Ops /\ SameCall(o, ServerOp(o, n)) /\ ServerOp(o, n).ids = o.ids
         /\ ServerOp(o, n).server = n /\ ServerOp(o, n).client = o.client /\ ServerOp(o, n).owned = o.owned
  BY DEF Ops, SameCall, ServerOp

\* Noting the client.
LEMMA ClientFacts ==
  ASSUME NEW o \in Ops, NEW n \in 0..MaxProcs
  PROVE  /\ ClientOp(o, n) \in Ops /\ SameCall(o, ClientOp(o, n)) /\ ClientOp(o, n).ids = o.ids
         /\ ClientOp(o, n).server = o.server /\ ClientOp(o, n).client = n /\ ClientOp(o, n).owned = o.owned
  BY DEF Ops, SameCall, ClientOp

\* Noting that the server is this start's own.
LEMMA OwnedFacts ==
  ASSUME NEW o \in Ops
  PROVE  /\ OwnedOp(o) \in Ops /\ SameCall(o, OwnedOp(o)) /\ OwnedOp(o).ids = o.ids
         /\ OwnedOp(o).server = o.server /\ OwnedOp(o).client = o.client /\ OwnedOp(o).owned
  BY DEF Ops, SameCall, OwnedOp

\* Keeping the id of a recorded action.
LEMMA IdsFacts ==
  ASSUME NEW o \in Ops, NEW k \in FridaKinds, NEW i \in 0..MaxActions
  PROVE  /\ IdsOp(o, k, i) \in Ops /\ SameCall(o, IdsOp(o, k, i))
         /\ IdsOp(o, k, i).server = o.server /\ IdsOp(o, k, i).client = o.client
         /\ IdsOp(o, k, i).owned = o.owned /\ IdsOp(o, k, i).ids = [o.ids EXCEPT ![k] = i]
<1>1. IdsOp(o, k, i) = [o EXCEPT !.ids = [o.ids EXCEPT ![k] = i]]
  BY DEF Ops, IdsOp
<1>2. [o.ids EXCEPT ![k] = i] \in [FridaKinds -> 0..MaxActions]
  BY DEF Ops
<1>. QED BY <1>1, <1>2 DEF Ops, SameCall

(***************************************************************************)
(* Ledgers                                                                 *)
(***************************************************************************)
\* A ledger is a sequence of entries, of bounded length.
LEMMA LedgerFacts ==
  ASSUME Shape, NEW s \in Sessions
  PROVE  /\ ledger[s] \in Seq(Entries) /\ Len(ledger[s]) \in 0..MaxActions
         /\ Indices(s) \subseteq 1..MaxActions
         /\ \A i \in Indices(s) : ledger[s][i] \in Entries
<1>1. ledger[s] \in Seq(Entries) /\ Len(ledger[s]) \in Nat /\ Len(ledger[s]) <= MaxActions
  BY LenProperties DEF Shape, LedgersOK, TypeOK
<1>2. \A i \in 1..Len(ledger[s]) : ledger[s][i] \in Entries
  BY <1>1, ElementOfSeq
<1>. QED BY <1>1, <1>2, Constants DEF Indices

\* An action of kind k about process n was added to the ledger of the operation.
Appended(k, n, b) ==
  /\ \A s \in Sessions : \A i \in Indices(s) : i \in Indices(s)' /\ ledger'[s][i] = ledger[s][i]
  /\ \A s \in Sessions : s # op.on => Indices(s)' = Indices(s)
  /\ Len(ledger[op.on]) + 1 \in 1..MaxActions
  /\ \A s \in Sessions : s = op.on => Indices(s)' = Indices(s) \cup {Len(ledger[op.on]) + 1}
  /\ Len(ledger[op.on]) + 1 \notin Indices(op.on)
  /\ ledger'[op.on][Len(ledger[op.on]) + 1] = [kind |-> k, proc |-> n, identified |-> b, status |-> "pending"]

\* One action of the ledger of the operation changed, to e.
Changed(n, e) ==
  /\ \A s \in Sessions : Indices(s)' = Indices(s)
  /\ \A s \in Sessions : \A i \in Indices(s) : s # op.on \/ i # n => ledger'[s][i] = ledger[s][i]
  /\ ledger'[op.on][n] = e

\* The ledgers have their types and lengths.
LedgersFit == LedgersOK /\ \A s \in Sessions : Len(ledger[s]) <= MaxActions /\ \A i \in DOMAIN ledger[s] : ledger[s][i] \in Entries

\* record_cleanup_action appends one pending entry to one ledger.
LEMMA RecordEffect ==
  ASSUME Shape, op.on \in Sessions, NEW k \in FridaKinds, NEW n \in 0..MaxProcs, NEW b \in BOOLEAN, Record(k, n, b)
  PROVE  /\ Appended(k, n, b) /\ LedgersFit'
         /\ status' = [status EXCEPT ![op.on] = "cleanup_required"]
         /\ status[op.on] # "cleaned"
<1>. DEFINE e == [kind |-> k, proc |-> n, identified |-> b, status |-> "pending"]
            L == Append(ledger[op.on], e)
            m == Len(ledger[op.on]) + 1
<1>1. e \in Entries
  BY DEF Entries, EntryStatuses
<1>2. ledger' = [ledger EXCEPT ![op.on] = L] /\ Len(ledger[op.on]) < MaxActions
  BY DEF Record
<1>3. ledger[op.on] \in Seq(Entries) /\ Len(ledger[op.on]) \in Nat
  BY LedgerFacts
<1>4. L \in Seq(Entries) /\ Len(L) = m /\ L[m] = e /\ \A j \in 1..Len(ledger[op.on]) : L[j] = ledger[op.on][j]
  <2>. HIDE DEF e
  <2>. QED BY <1>1, <1>3, AppendProperties
<1>. HIDE DEF L
<1>5. \A t \in Sessions : ledger'[t] = IF t = op.on THEN L ELSE ledger[t]
  BY <1>2 DEF Shape, LedgersOK
<1>6. \A s \in Sessions : \A i \in Indices(s) : i \in Indices(s)' /\ ledger'[s][i] = ledger[s][i]
  BY <1>3, <1>4, <1>5 DEF Indices
<1>7. \A s \in Sessions : s # op.on => Indices(s)' = Indices(s)
  BY <1>5 DEF Indices
<1>8. /\ \A s \in Sessions : s = op.on => Indices(s)' = Indices(s) \cup {m}
      /\ m \notin Indices(op.on) /\ m \in 1..MaxActions
  <2>1. \A s \in Sessions : s = op.on => Len(ledger'[s]) = m
    BY <1>4, <1>5
  <2>. QED BY <1>2, <1>3, <1>4, <1>5, <2>1, Constants DEF Indices, Record
<1>9. LedgersOK'
  BY <1>2, <1>4 DEF Shape, LedgersOK
<1>10. \A s \in Sessions : Len(ledger'[s]) <= MaxActions /\ \A i \in DOMAIN ledger'[s] : ledger'[s][i] \in Entries
  <2>1. \A s \in Sessions : Len(ledger'[s]) \in Nat /\ Len(ledger'[s]) <= MaxActions /\ ledger'[s] \in Seq(Entries)
    BY <1>2, <1>3, <1>4, <1>5, LedgerFacts, Constants
  <2>. QED BY <2>1, ElementOfSeq, LenProperties
<1>. QED BY <1>4, <1>5, <1>6, <1>7, <1>8, <1>9, <1>10 DEF Appended, LedgersFit, Record

\* Changing one entry leaves all others as they are.
LEMMA ChangeEffect ==
  ASSUME Shape, op.on \in Sessions, NEW n \in Indices(op.on), NEW e \in Entries,
         ledger' = [ledger EXCEPT ![op.on] = [@ EXCEPT ![n] = e]]
  PROVE  Changed(n, e) /\ LedgersFit'
<1>. DEFINE L == [ledger[op.on] EXCEPT ![n] = e]
<1>1. ledger' = [ledger EXCEPT ![op.on] = L]
  BY DEF Shape, LedgersOK
<1>2. ledger[op.on] \in Seq(Entries) /\ Len(ledger[op.on]) \in Nat /\ n \in 1..Len(ledger[op.on])
  BY LedgerFacts DEF Indices
<1>3. L \in Seq(Entries) /\ Len(L) = Len(ledger[op.on]) /\ L[n] = e
      /\ \A j \in 1..Len(ledger[op.on]) : j # n => L[j] = ledger[op.on][j]
  BY <1>2, ExceptSeq
<1>. HIDE DEF L
<1>4. \A t \in Sessions : ledger'[t] = IF t = op.on THEN L ELSE ledger[t]
  BY <1>1 DEF Shape, LedgersOK
<1>5. LedgersOK'
  BY <1>1, <1>3 DEF Shape, LedgersOK
<1>6. \A s \in Sessions : Len(ledger'[s]) = Len(ledger[s]) /\ Len(ledger'[s]) <= MaxActions /\ ledger'[s] \in Seq(Entries)
  BY <1>2, <1>3, <1>4, LedgerFacts, Constants
<1>7. \A s \in Sessions : \A i \in DOMAIN ledger'[s] : ledger'[s][i] \in Entries
  BY <1>6, ElementOfSeq, LenProperties
<1>8. \A s \in Sessions : \A i \in Indices(s) : s # op.on \/ i # n => ledger'[s][i] = ledger[s][i]
  BY <1>3, <1>4 DEF Indices
<1>9. ledger'[op.on][n] = e /\ \A s \in Sessions : Indices(s)' = Indices(s)
  BY <1>3, <1>4, <1>6 DEF Indices
<1>. QED BY <1>5, <1>6, <1>7, <1>8, <1>9 DEF Changed, LedgersFit

\* Marking an action, and completing what was recorded of a server.
LEMMA MarkEffect ==
  ASSUME Shape, op.on \in Sessions, NEW n \in Indices(op.on), NEW v \in EntryStatuses
  PROVE  /\ ledger' = [ledger EXCEPT ![op.on][n].status = v] =>
              Changed(n, [ledger[op.on][n] EXCEPT !.status = v]) /\ LedgersFit'
         /\ ledger' = [ledger EXCEPT ![op.on][n].identified = TRUE] =>
              Changed(n, [ledger[op.on][n] EXCEPT !.identified = TRUE]) /\ LedgersFit'
<1>1. ledger[op.on][n] \in Entries
  BY LedgerFacts
<1>2. [ledger[op.on][n] EXCEPT !.status = v] \in Entries /\ [ledger[op.on][n] EXCEPT !.identified = TRUE] \in Entries
  BY <1>1 DEF Entries
<1>3. ASSUME NEW e \in Entries, ledger' = [ledger EXCEPT ![op.on] = [@ EXCEPT ![n] = e]]
      PROVE  Changed(n, e) /\ LedgersFit'
  BY <1>3, ChangeEffect
<1>. QED BY <1>2, <1>3 DEF Shape, LedgersOK

(***************************************************************************)
(* What the steps do to the local variables                                *)
(***************************************************************************)
\* Ways in which a step leaves the local variables.
Goes(l) == pc' = l /\ op' = op
Returned == pc' = "idle" /\ op' = NoOp
Begun(job, s) ==
  /\ pc = "idle" /\ op' \in Ops /\ op'.job = job /\ op'.on = s /\ s \in Sessions
  /\ op'.phase = "none" /\ op'.todo = {} /\ op'.ready /\ op'.server = 0 /\ op'.client = 0 /\ ~op'.owned
  /\ op'.ids = NoEntryIds
Walks == op' \in Ops /\ SameSoFar(op, op')
Makes == op' \in Ops /\ SameCall(op, op')

\* The parts of Shape that most steps need.
LEMMA ShapeParts ==
  ASSUME Shape
  PROVE  /\ op \in Ops /\ pc \in FridaLabels /\ observer \in [Sessions -> Observers]
         /\ pc # "idle" => op.on \in Sessions
         /\ status \in [Sessions -> {"active", "cleanup_required", "cleaning", "cleaned", "cleanup_failed"}]
  BY DEF Shape, TypeOK, OpFits

\* The three calls.
LEMMA Locks ==
  ASSUME NEW s \in Sessions
  PROVE  /\ StartLock(s) => Begun("start", s) /\ pc' = "probe" /\ UNCHANGED ledger
         /\ StopLock(s) => Begun("stop", s) /\ pc' = "stop" /\ UNCHANGED ledger
         /\ CleanupLock(s) => Begun("cleanup", s) /\ pc' \in {"stop", "cleanup"} /\ UNCHANGED ledger
                              /\ (pc' = "stop" => observer[s].status = "running")
<1>1. StartLock(s) => pc = "idle" /\ pc' = "probe" /\ UNCHANGED ledger /\ op' = CalledOp("start", s)
  BY DEF StartLock, CalledOp
<1>2. StopLock(s) => pc = "idle" /\ pc' = "stop" /\ UNCHANGED ledger /\ op' = CalledOp("stop", s)
  BY DEF StopLock, CalledOp
<1>3. CleanupLock(s) => /\ pc = "idle" /\ pc' \in {"stop", "cleanup"} /\ UNCHANGED ledger
                        /\ op' = CalledOp("cleanup", s)
                        /\ (pc' = "stop" => observer[s].status = "running")
  BY DEF CleanupLock, CalledOp
<1>4. ASSUME NEW job \in {"start", "stop", "cleanup"}, pc = "idle", op' = CalledOp(job, s)
      PROVE  Begun(job, s)
  BY <1>4, CalledFacts DEF Begun
<1>. QED BY <1>1, <1>2, <1>3, <1>4

\* Recording one of the three actions.
LEMMA StartRecordEffect ==
  ASSUME Shape, NEW k \in FridaKinds, NEW n \in 0..MaxProcs, NEW b \in BOOLEAN, NEW to,
         StartRecord(k, n, b, to), pc # "idle"
  PROVE  /\ Appended(k, n, b) /\ LedgersFit'
         /\ status' = [status EXCEPT ![op.on] = "cleanup_required"] /\ status[op.on] # "cleaned"
         /\ \/ /\ pc' = to /\ Makes /\ UNCHANGED <<faults, crashes, spared>>
               /\ op'.server = op.server /\ op'.client = op.client /\ op'.owned = op.owned
               /\ op'.ids = [op.ids EXCEPT ![k] = Len(ledger[op.on]) + 1]
            \/ Goes("rollback") /\ Fault
<1>1. op \in Ops /\ op.on \in Sessions
  BY ShapeParts
<1>2. Appended(k, n, b) /\ LedgersFit' /\ status' = [status EXCEPT ![op.on] = "cleanup_required"] /\ status[op.on] # "cleaned"
  BY <1>1, RecordEffect DEF StartRecord
<1>3. Len(ledger[op.on]) + 1 \in 0..MaxActions
  BY <1>2 DEF Appended
<1>4. \/ op' = IdsOp(op, k, Len(ledger[op.on]) + 1) /\ pc' = to /\ UNCHANGED <<faults, crashes, spared>>
      \/ Goes("rollback") /\ Fault
  BY DEF StartRecord, Goes, NoFault, IdsOp
<1>. QED BY <1>1, <1>2, <1>3, <1>4, IdsFacts DEF Makes

\* The steps of a start that record nothing.
LEMMA StartEffects ==
  ASSUME Shape
  PROVE  /\ StartProbe => /\ pc = "probe" /\ Makes /\ UNCHANGED ledger /\ op'.client = op.client /\ op'.ids = op.ids
                          /\ \/ pc' = "popen" /\ op'.owned = op.owned /\ \E x \in servers : op'.server = x.id
                             \/ pc' = "recordFile" /\ op'.owned /\ op'.server = op.server
         /\ StartRefused => pc = "probe" /\ Returned /\ UNCHANGED ledger
         /\ StartPush => pc = "push" /\ UNCHANGED ledger /\ (Goes("launch") \/ Goes("rollback"))
         /\ StartLaunch => /\ pc = "launch" /\ UNCHANGED ledger
                           /\ \/ /\ pc' = "recordServer" /\ Makes /\ op'.server = started + 1
                                 /\ op'.client = op.client /\ op'.owned = op.owned /\ op'.ids = op.ids
                              \/ Goes("rollback")
         /\ StartClient => /\ pc = "popen" /\ UNCHANGED ledger /\ pc' = "handshake" /\ Makes /\ op'.server = op.server
                           /\ op'.client = started + 1 /\ op'.owned = op.owned /\ op'.ids = op.ids
         /\ StartHandshake => pc = "handshake" /\ UNCHANGED ledger /\ (Goes("recordClient") \/ Goes("rollback"))
         /\ StartRunning => pc = "running" /\ UNCHANGED ledger /\ (Returned \/ Goes("rollback"))
         /\ StartRaises => /\ pc \in StartLabels \ {"probe", "push", "identify"} /\ UNCHANGED ledger /\ Goes("rollback")
         /\ RollbackNothing => pc = "rollback" /\ UNCHANGED ledger /\ Goes("dropClient")
         /\ EndRollback => pc = "endRollback" /\ UNCHANGED ledger /\ Goes("dropClient")
         /\ StartDropClient => pc = "dropClient" /\ UNCHANGED ledger /\ Returned
<1>0. op \in Ops /\ FridaDeviceTypeOK
  BY ShapeParts DEF Shape, TypeOK
<1>1. ASSUME StartProbe
      PROVE  /\ pc = "probe" /\ Makes /\ UNCHANGED ledger /\ op'.client = op.client /\ op'.ids = op.ids
             /\ \/ pc' = "popen" /\ op'.owned = op.owned /\ \E x \in servers : op'.server = x.id
                \/ pc' = "recordFile" /\ op'.owned /\ op'.server = op.server
  <2>1. pc = "probe" /\ UNCHANGED ledger
    BY <1>1 DEF StartProbe
  <2>2. \/ \E x \in servers : op' = ServerOp(op, x.id) /\ pc' = "popen"
        \/ op' = OwnedOp(op) /\ pc' = "recordFile"
    BY <1>1 DEF StartProbe, ServerOp, OwnedOp
  <2>3. ASSUME NEW x \in servers, op' = ServerOp(op, x.id) /\ pc' = "popen"
        PROVE  Makes /\ op'.client = op.client /\ op'.ids = op.ids /\ op'.owned = op.owned /\ op'.server = x.id
    <3>1. x.id \in 0..MaxProcs
      BY <1>0, Constants DEF FridaDeviceTypeOK, FridaIds
    <3>. QED BY <1>0, <2>3, <3>1, ServerFacts DEF Makes
  <2>4. ASSUME op' = OwnedOp(op) /\ pc' = "recordFile"
        PROVE  Makes /\ op'.client = op.client /\ op'.ids = op.ids /\ op'.owned /\ op'.server = op.server
    BY <1>0, <2>4, OwnedFacts DEF Makes
  <2>. QED BY <2>1, <2>2, <2>3, <2>4
<1>2. StartRefused => pc = "probe" /\ Returned /\ UNCHANGED ledger
  BY DEF StartRefused, Return, Returned
<1>3. StartPush => pc = "push" /\ UNCHANGED ledger /\ (Goes("launch") \/ Goes("rollback"))
  BY DEF StartPush, Goes
<1>4. ASSUME StartLaunch
      PROVE  /\ pc = "launch" /\ UNCHANGED ledger
             /\ \/ /\ pc' = "recordServer" /\ Makes /\ op'.server = started + 1
                   /\ op'.client = op.client /\ op'.owned = op.owned /\ op'.ids = op.ids
                \/ Goes("rollback")
  <2>1. /\ pc = "launch" /\ UNCHANGED ledger /\ started < MaxProcs
        /\ (op' = ServerOp(op, started + 1) /\ pc' = "recordServer") \/ Goes("rollback")
    BY <1>4 DEF StartLaunch, LaunchServer, Goes, ServerOp
  <2>2. started + 1 \in 0..MaxProcs
    BY <1>0, <2>1, Constants DEF FridaDeviceTypeOK
  <2>. QED BY <1>0, <2>1, <2>2, ServerFacts DEF Makes
<1>5. ASSUME StartClient
      PROVE  /\ pc = "popen" /\ UNCHANGED ledger /\ pc' = "handshake" /\ Makes /\ op'.server = op.server
             /\ op'.client = started + 1 /\ op'.owned = op.owned /\ op'.ids = op.ids
  <2>1. /\ pc = "popen" /\ UNCHANGED ledger /\ started < MaxProcs
        /\ op' = ClientOp(op, started + 1) /\ pc' = "handshake"
    BY <1>5 DEF StartClient, LaunchClient, ClientOp
  <2>2. started + 1 \in 0..MaxProcs
    BY <1>0, <2>1, Constants DEF FridaDeviceTypeOK
  <2>. QED BY <1>0, <2>1, <2>2, ClientFacts DEF Makes
<1>6. /\ StartHandshake => pc = "handshake" /\ UNCHANGED ledger /\ (Goes("recordClient") \/ Goes("rollback"))
      /\ StartRunning => pc = "running" /\ UNCHANGED ledger /\ (Returned \/ Goes("rollback"))
      /\ StartRaises => /\ pc \in StartLabels \ {"probe", "push", "identify"} /\ UNCHANGED ledger /\ Goes("rollback")
  BY DEF StartHandshake, StartRunning, StartRaises, StartLabels, Goes, Return, Returned
<1>7. /\ RollbackNothing => pc = "rollback" /\ UNCHANGED ledger /\ Goes("dropClient")
      /\ EndRollback => pc = "endRollback" /\ UNCHANGED ledger /\ Goes("dropClient")
      /\ StartDropClient => pc = "dropClient" /\ UNCHANGED ledger /\ Returned
  BY DEF RollbackNothing, EndRollback, StartDropClient, SetStatus, Goes, Return, Returned
<1>. QED BY <1>1, <1>2, <1>3, <1>4, <1>5, <1>6, <1>7

\* The phases of going through ledger actions.
LEMMA BeginEffect ==
  ASSUME Shape, NEW ph \in Phases, NEW I \in SUBSET (1..MaxActions), NEW g \in BOOLEAN, Begin(ph, I, g)
  PROVE  /\ Walks /\ op'.phase = ph /\ op'.todo = I
         /\ pc' = IF I = {} THEN (IF ph = "rollback" THEN "endRollback" ELSE "endCleanup") ELSE "next"
         /\ \/ op'.ready /\ UNCHANGED <<faults, crashes, spared>>
            \/ ~op'.ready /\ Fault
<1>1. op' \in {PhaseOp(op, ph, I, r, g) : r \in BOOLEAN}
  BY DEF Begin, PhaseOp
<1>2. PICK r \in BOOLEAN : op' = PhaseOp(op, ph, I, r, g)
  BY <1>1
<1>3. Walks /\ op'.phase = ph /\ op'.todo = I /\ op'.ready = r
  <2>1. op \in Ops
    BY ShapeParts
  <2>2. /\ PhaseOp(op, ph, I, r, g) \in Ops /\ SameSoFar(op, PhaseOp(op, ph, I, r, g))
        /\ PhaseOp(op, ph, I, r, g).phase = ph /\ PhaseOp(op, ph, I, r, g).todo = I
        /\ PhaseOp(op, ph, I, r, g).ready = r
    BY <2>1, PhaseFacts
  <2>. QED BY <1>2, <2>2 DEF Walks
<1>4. pc' = IF I = {} THEN (IF ph = "rollback" THEN "endRollback" ELSE "endCleanup") ELSE "next"
  BY Zenon DEF Begin
<1>5. (op'.ready /\ NoFault) \/ (~op'.ready /\ Fault)
  BY Zenon DEF Begin
<1>. QED BY <1>3, <1>4, <1>5 DEF NoFault

\* The entry in hand.
LEMMA InHand ==
  ASSUME Shape, pc \in ExecutingLabels
  PROVE  /\ op.on \in Sessions /\ op.todo \subseteq Indices(op.on) /\ op.phase \in Phases
         /\ pc \in {"apply", "mark"} => /\ op.current \in Indices(op.on) /\ op.current \in 0..MaxActions
                                        /\ Action \in Entries
<1>1. op.on \in Sessions /\ op.todo \subseteq Indices(op.on) /\ op.phase \in Phases
      /\ (pc \in {"apply", "mark"} => op.current \in op.todo)
  BY ShapeParts DEF Shape, OpFits, Ops, Phases, ExecutingLabels
<1>2. op.current \in 0..MaxActions
  BY ShapeParts DEF Ops
<1>. QED BY <1>1, <1>2, LedgerFacts DEF Action

\* Taking the next action in hand.
LEMMA DecideEffect ==
  ASSUME Shape, Decide
  PROVE  /\ pc = "next" /\ UNCHANGED <<fridaDeviceVars, status, ledger, observer>> /\ Walks
         /\ op'.phase = op.phase /\ op'.todo = op.todo /\ op'.ready = op.ready
         /\ op'.current \in op.todo /\ pc' \in {"apply", "mark"}
         /\ \E e \in Entries : e = ledger[op.on][op'.current] /\
              \/ ~op.ready /\ op'.verdict = "failed" /\ pc' = "mark" /\ UNCHANGED <<faults, crashes, spared>>
              \/ Verdict(e) = "apply" /\ op'.verdict = "completed" /\ pc' = "apply" /\ UNCHANGED <<faults, crashes, spared>>
              \/ Verdict(e) # "apply" /\ op'.verdict = Verdict(e) /\ pc' = "mark" /\ UNCHANGED <<faults, crashes, spared>>
              \/ op'.verdict \in FailedRead(e) /\ pc' = "mark" /\ Fault
              \/ e.kind = "client" /\ op'.verdict = "skipped" /\ pc' = "mark" /\ Spare(e.proc)
<1>1. pc = "next" /\ UNCHANGED <<fridaDeviceVars, status, ledger, observer>>
  BY DEF Decide
<1>2. op \in Ops /\ op.on \in Sessions /\ op.todo \subseteq Indices(op.on) /\ op.todo \subseteq 1..MaxActions
  BY <1>1, InHand, ShapeParts DEF ExecutingLabels, Ops
<1>3. PICK i \in op.todo :
        LET e == ledger[op.on][i]
            v == Verdict(e)
            asked == op.ready \/ e.kind = "client" IN
        \/ ~asked /\ op' = CurrentOp(op, i, "failed") /\ pc' = "mark" /\ UNCHANGED <<faults, crashes, spared>>
        \/ v = "apply" /\ op' = CurrentOp(op, i, "completed") /\ pc' = "apply" /\ UNCHANGED <<faults, crashes, spared>>
        \/ v # "apply" /\ op' = CurrentOp(op, i, v) /\ pc' = "mark" /\ UNCHANGED <<faults, crashes, spared>>
        \/ \E x \in FailedRead(e) : op' = CurrentOp(op, i, x) /\ pc' = "mark" /\ Fault
        \/ e.kind = "client" /\ op' = CurrentOp(op, i, "skipped") /\ pc' = "mark" /\ Spare(e.proc)
  BY DEF Decide, CurrentOp, NoFault
<1>. DEFINE e == ledger[op.on][i]
<1>4. e \in Entries /\ i \in 0..MaxActions
  BY <1>2, LedgerFacts, Constants
<1>. HIDE DEF e
<1>5. Verdict(e) \in {"apply", "completed", "skipped", "failed"} /\ FailedRead(e) \subseteq Verdicts
  BY DEF Verdict, ProcessVerdict, FailedRead, Verdicts
<1>6. PICK v \in Verdicts : /\ op' = CurrentOp(op, i, v)
         /\ \/ ~op.ready /\ v = "failed" /\ pc' = "mark" /\ UNCHANGED <<faults, crashes, spared>>
            \/ Verdict(e) = "apply" /\ v = "completed" /\ pc' = "apply" /\ UNCHANGED <<faults, crashes, spared>>
            \/ Verdict(e) # "apply" /\ v = Verdict(e) /\ pc' = "mark" /\ UNCHANGED <<faults, crashes, spared>>
            \/ v \in FailedRead(e) /\ pc' = "mark" /\ Fault
            \/ e.kind = "client" /\ v = "skipped" /\ pc' = "mark" /\ Spare(e.proc)
  <2>1. Verdict(e) # "apply" => Verdict(e) \in Verdicts
    BY <1>5 DEF Verdicts
  <2>. QED BY <1>3, <1>5, <2>1 DEF e, Verdicts
<1>7. /\ op' \in Ops /\ SameSoFar(op, op') /\ op'.phase = op.phase /\ op'.todo = op.todo
      /\ op'.ready = op.ready /\ op'.current = i /\ op'.verdict = v
  BY <1>2, <1>4, <1>6, CurrentFacts
<1>8. e = ledger[op.on][op'.current]
  BY <1>7 DEF e
<1>. QED BY <1>1, <1>4, <1>6, <1>7, <1>8 DEF Walks

\* Applying the action in hand.
LEMMA ApplyEffect ==
  ASSUME Shape, Apply
  PROVE  /\ pc = "apply" /\ pc' = "mark" /\ UNCHANGED <<status, ledger, observer>> /\ Walks
         /\ op'.phase = op.phase /\ op'.todo = op.todo /\ op'.ready = op.ready /\ op'.current = op.current
         /\ \/ Effect(Action, TRUE) /\ op'.verdict \in {op.verdict, "failed"} /\ UNCHANGED <<faults, crashes, spared>>
            \/ \E took \in BOOLEAN : Effect(Action, took) /\ op'.verdict = "failed" /\ Fault
            \/ /\ Action.kind = "client" /\ UNCHANGED fridaDeviceVars
               /\ op'.verdict = op.verdict /\ Spare(Action.proc)
<1>1. pc = "apply" /\ pc' = "mark" /\ UNCHANGED <<status, ledger, observer>>
  BY DEF Apply
<1>2. \E v \in {op.verdict, "failed"} :
        /\ op' = VerdictOp(op, v)
        /\ \/ Effect(Action, TRUE) /\ UNCHANGED <<faults, crashes, spared>>
           \/ \E took \in BOOLEAN : Effect(Action, took) /\ v = "failed" /\ Fault
           \/ /\ Action.kind = "client" /\ UNCHANGED fridaDeviceVars
              /\ v = op.verdict /\ Spare(Action.proc)
  <2>1. op = VerdictOp(op, op.verdict)
    BY ShapeParts DEF Ops, VerdictOp
  <2>. QED BY <2>1 DEF Apply, VerdictOp, NoFault
<1>3. PICK v \in {op.verdict, "failed"} :
        /\ op' = VerdictOp(op, v)
        /\ \/ Effect(Action, TRUE) /\ UNCHANGED <<faults, crashes, spared>>
           \/ \E took \in BOOLEAN : Effect(Action, took) /\ v = "failed" /\ Fault
           \/ /\ Action.kind = "client" /\ UNCHANGED fridaDeviceVars
              /\ v = op.verdict /\ Spare(Action.proc)
  BY <1>2
<1>4. op \in Ops /\ v \in Verdicts
  BY ShapeParts DEF Ops, Verdicts
<1>5. /\ op' \in Ops /\ SameSoFar(op, op') /\ op'.phase = op.phase /\ op'.todo = op.todo
      /\ op'.ready = op.ready /\ op'.current = op.current /\ op'.verdict = v
  BY <1>3, <1>4, VerdictFacts
<1>. QED BY <1>1, <1>3, <1>5 DEF Walks

\* Marking the action in hand.
LEMMA MarkStep ==
  ASSUME Shape, Mark
  PROVE  /\ pc = "mark" /\ UNCHANGED <<fridaDeviceVars, status, observer, faults, crashes, spared>> /\ Walks
         /\ op'.phase = op.phase /\ op'.ready = op.ready /\ op'.todo \subseteq op.todo
         /\ pc' \in {"next", AfterActions}
         /\ Changed(op.current, [ledger[op.on][op.current] EXCEPT !.status = op.verdict]) /\ LedgersFit'
<1>1. /\ pc = "mark" /\ UNCHANGED <<fridaDeviceVars, status, observer, faults, crashes, spared>>
      /\ ledger' = [ledger EXCEPT ![op.on][op.current].status = op.verdict]
      /\ op' = TodoOp(op, op.todo \ {op.current}, op.errors \/ op.verdict = "failed")
      /\ pc' \in {"next", AfterActions}
  BY ShapeParts DEF Mark, NoFault, TodoOp, Ops
<1>2. op \in Ops /\ op.todo \ {op.current} \in SUBSET (1..MaxActions)
      /\ (op.errors \/ op.verdict = "failed") \in BOOLEAN /\ op.verdict \in EntryStatuses
  BY ShapeParts DEF Ops, EntryStatuses, Settled
<1>3. op' \in Ops /\ SameSoFar(op, op') /\ op'.phase = op.phase /\ op'.ready = op.ready /\ op'.todo = op.todo \ {op.current}
  <2>. DEFINE I == op.todo \ {op.current}
              b == (op.errors \/ op.verdict = "failed")
  <2>. HIDE DEF I, b
  <2>1. op' = TodoOp(op, I, b) /\ I \in SUBSET (1..MaxActions) /\ b \in BOOLEAN
    BY <1>1, <1>2 DEF I, b
  <2>2. op' \in Ops /\ SameSoFar(op, op') /\ op'.phase = op.phase /\ op'.ready = op.ready /\ op'.todo = I
    BY <1>2, <2>1, TodoFacts
  <2>. QED BY <2>2 DEF I
<1>4. op.on \in Sessions /\ op.current \in Indices(op.on)
  BY <1>1, InHand DEF ExecutingLabels
<1>. QED BY <1>1, <1>2, <1>3, <1>4, MarkEffect DEF Walks

\* stop and cleanup.
LEMMA StopEffects ==
  ASSUME Shape
  PROVE  /\ StopEvidence => /\ pc = "evidence" /\ pc' = "stopped" /\ UNCHANGED ledger /\ Walks
                            /\ op'.phase = op.phase /\ op'.ready = op.ready
         /\ StopPersist => /\ pc = "stopped" /\ UNCHANGED ledger
                           /\ Returned \/ Goes("cleanup") \/ Goes("activate")
                           /\ Goes("cleanup") => op.job = "cleanup"
         /\ StopActivate => /\ pc = "activate" /\ UNCHANGED ledger /\ (Returned \/ (Goes("cleanup") /\ op.job = "cleanup"))
         /\ StopRaises => /\ pc \in {"mark", "stopped", "activate"} /\ op.phase = "stop" /\ UNCHANGED ledger
                          /\ Returned \/ (Goes("cleanup") /\ op.job = "cleanup")
         /\ ReturnCleaned => pc = "cleanup" /\ UNCHANGED ledger /\ Returned
         /\ EndCleanup => pc = "endCleanup" /\ UNCHANGED ledger /\ Returned
         /\ Crash => pc # "idle" /\ UNCHANGED ledger /\ Returned
         /\ Interference => UNCHANGED <<status, ledger, observer, pc, op, faults, crashes, spared>>
<1>1. ASSUME StopEvidence
      PROVE  /\ pc = "evidence" /\ pc' = "stopped" /\ UNCHANGED ledger /\ Walks
             /\ op'.phase = op.phase /\ op'.ready = op.ready
  <2>1. /\ pc = "evidence" /\ pc' = "stopped" /\ UNCHANGED ledger
        /\ op' = RegisteredOp(op) \/ op' = ErrorsOp(op)
    BY <1>1 DEF StopEvidence, RegisteredOp, ErrorsOp
  <2>. QED BY <2>1, ShapeParts, EvidenceFacts DEF Walks
<1>2. StopPersist => /\ pc = "stopped" /\ UNCHANGED ledger
                     /\ Returned \/ Goes("cleanup") \/ Goes("activate")
                     /\ Goes("cleanup") => op.job = "cleanup"
  BY DEF StopPersist, StopReturns, Return, Returned, Goes
<1>3. StopActivate => /\ pc = "activate" /\ UNCHANGED ledger /\ (Returned \/ (Goes("cleanup") /\ op.job = "cleanup"))
  BY DEF StopActivate, SetStatus, StopReturns, Return, Returned, Goes
<1>4. StopRaises => /\ pc \in {"mark", "stopped", "activate"} /\ op.phase = "stop" /\ UNCHANGED ledger
                    /\ Returned \/ (Goes("cleanup") /\ op.job = "cleanup")
  BY DEF StopRaises, StopReturns, Return, Returned, Goes
<1>5. /\ ReturnCleaned => pc = "cleanup" /\ UNCHANGED ledger /\ Returned
      /\ EndCleanup => pc = "endCleanup" /\ UNCHANGED ledger /\ Returned
      /\ Crash => pc # "idle" /\ UNCHANGED ledger /\ Returned
      /\ Interference => UNCHANGED <<status, ledger, observer, pc, op, faults, crashes, spared>>
  BY DEF ReturnCleaned, EndCleanup, Crash, Interference, SetStatus, Return, Returned
<1>. QED BY <1>1, <1>2, <1>3, <1>4, <1>5

\* Beginning a rollback, a stop or a cleanup.
LEMMA BeginEffects ==
  ASSUME Shape
  PROVE  /\ BeginRollback => /\ pc = "rollback" /\ UNCHANGED <<fridaDeviceVars, status, ledger, observer>> /\ Walks
                             /\ op'.phase = "rollback"
                             /\ op'.todo \subseteq Unsettled(op.on) /\ pc' \in {"endRollback", "next"}
         /\ StopBegin => /\ pc = "stop" /\ UNCHANGED <<fridaDeviceVars, status, ledger, observer>> /\ Walks
                         /\ op'.phase = "stop" /\ pc' = "next" /\ op'.todo \subseteq Indices(op.on)
         /\ BeginCleanup => /\ pc = "cleanup" /\ UNCHANGED <<fridaDeviceVars, ledger, observer>> /\ Walks
                            /\ op'.phase = "cleanup" /\ op'.todo \subseteq Unsettled(op.on)
                            /\ pc' \in {"endCleanup", "next"}
                            /\ status' = [status EXCEPT ![op.on] = "cleaning"]
         /\ BeginRollback \/ StopBegin \/ BeginCleanup =>
              \/ op'.ready /\ UNCHANGED <<faults, crashes, spared>>
              \/ ~op'.ready /\ Fault
<1>0. op \in Ops /\ (pc # "idle" => op.on \in Sessions)
  BY ShapeParts
<1>1. ASSUME BeginRollback
      PROVE  /\ pc = "rollback" /\ UNCHANGED <<fridaDeviceVars, status, ledger, observer>> /\ Walks
             /\ op'.phase = "rollback" /\ op'.todo \subseteq Unsettled(op.on) /\ pc' \in {"endRollback", "next"}
             /\ (op'.ready /\ UNCHANGED <<faults, crashes, spared>>) \/ (~op'.ready /\ Fault)
  <2>. DEFINE I == Recorded \cap Unsettled(op.on)
  <2>1. pc = "rollback" /\ UNCHANGED <<fridaDeviceVars, status, ledger, observer>> /\ Begin("rollback", I, FALSE)
    BY <1>1 DEF BeginRollback
  <2>2. I \in SUBSET (1..MaxActions) /\ I \subseteq Unsettled(op.on)
    BY <1>0, <2>1, LedgerFacts DEF Unsettled
  <2>. HIDE DEF I
  <2>. QED BY <2>1, <2>2, BeginEffect DEF Phases
<1>2. ASSUME BeginCleanup
      PROVE  /\ pc = "cleanup" /\ UNCHANGED <<fridaDeviceVars, ledger, observer>> /\ Walks
             /\ op'.phase = "cleanup" /\ op'.todo \subseteq Unsettled(op.on) /\ pc' \in {"endCleanup", "next"}
             /\ status' = [status EXCEPT ![op.on] = "cleaning"]
             /\ (op'.ready /\ UNCHANGED <<faults, crashes, spared>>) \/ (~op'.ready /\ Fault)
  <2>. DEFINE I == Unsettled(op.on)
  <2>1. /\ pc = "cleanup" /\ UNCHANGED <<fridaDeviceVars, ledger, observer>> /\ Begin("cleanup", I, FALSE)
        /\ status' = [status EXCEPT ![op.on] = "cleaning"]
    BY <1>2 DEF BeginCleanup, SetStatus
  <2>2. I \in SUBSET (1..MaxActions) /\ I \subseteq Unsettled(op.on)
    BY <1>0, <2>1, LedgerFacts DEF Unsettled
  <2>. HIDE DEF I
  <2>. QED BY <2>1, <2>2, BeginEffect DEF Phases
<1>3. ASSUME StopBegin
      PROVE  /\ pc = "stop" /\ UNCHANGED <<fridaDeviceVars, status, ledger, observer>> /\ Walks
             /\ op'.phase = "stop" /\ pc' = "next" /\ op'.todo \subseteq Indices(op.on)
             /\ (op'.ready /\ UNCHANGED <<faults, crashes, spared>>) \/ (~op'.ready /\ Fault)
  <2>. DEFINE o == observer[op.on]
              I == {o.ids["client"]} \cup IF o.owned THEN {o.ids["server"], o.ids["file"]} ELSE {}
  <2>1. pc = "stop" /\ UNCHANGED <<fridaDeviceVars, status, ledger, observer>> /\ Begin("stop", I, o.evidence)
    BY <1>3 DEF StopBegin
  <2>2. o \in Observers /\ o.status # "none"
    BY <1>0, <2>1, ShapeParts DEF Shape, OpFits, StopLabels
  <2>3. I \subseteq Indices(op.on) /\ I # {}
    BY <1>0, <2>1, <2>2 DEF Shape, ObserverFits
  <2>4. I \in SUBSET (1..MaxActions) /\ o.evidence \in BOOLEAN
    BY <1>0, <2>1, <2>2, <2>3, LedgerFacts DEF Observers
  <2>. HIDE DEF I, o
  <2>. QED BY <2>1, <2>3, <2>4, BeginEffect DEF Phases
<1>. QED BY <1>1, <1>2, <1>3

\* The record steps of a start, each as one of StartRecord.
LEMMA RecordCases ==
  ASSUME Shape
  PROVE  /\ StartRecordFile => pc = "recordFile" /\ StartRecord("file", 0, TRUE, "push")
         /\ StartRecordServer => pc = "recordServer" /\ StartRecord("server", op.server, FALSE, "identify")
         /\ StartRecordClient => pc = "recordClient" /\ StartRecord("client", op.client, TRUE, "running")
         /\ {"file", "server", "client"} = FridaKinds
         /\ {0, op.server, op.client} \subseteq 0..MaxProcs
<1>1. {0, op.server, op.client} \subseteq 0..MaxProcs
  <2>1. op.server \in 0..MaxProcs /\ op.client \in 0..MaxProcs
    BY ShapeParts DEF Ops
  <2>. QED BY <2>1, Constants
<1>2. {"file", "server", "client"} = FridaKinds
  BY KindFacts
<1>3. /\ StartRecordFile => pc = "recordFile" /\ StartRecord("file", 0, TRUE, "push")
      /\ StartRecordServer => pc = "recordServer" /\ StartRecord("server", op.server, FALSE, "identify")
      /\ StartRecordClient => pc = "recordClient" /\ StartRecord("client", op.client, TRUE, "running")
  BY Zenon DEF StartRecordFile, StartRecordServer, StartRecordClient
<1>. QED BY <1>1, <1>2, <1>3

\* What they do, with where they go on.
Records(k, n, b, from, to) ==
  /\ pc = from /\ Appended(k, n, b) /\ LedgersFit'
  /\ status' = [status EXCEPT ![op.on] = "cleanup_required"] /\ status[op.on] # "cleaned"
  /\ UNCHANGED <<fridaDeviceVars, observer>>
  /\ \/ /\ pc' = to /\ Makes /\ UNCHANGED <<faults, crashes, spared>>
        /\ op'.server = op.server /\ op'.client = op.client /\ op'.owned = op.owned
        /\ op'.ids = [op.ids EXCEPT ![k] = Len(ledger[op.on]) + 1]
     \/ Goes("rollback") /\ Fault

\* The three recording steps of a start.
LEMMA RecordEffects ==
  ASSUME Shape
  PROVE  /\ StartRecordFile => Records("file", 0, TRUE, "recordFile", "push")
         /\ StartRecordServer => Records("server", op.server, FALSE, "recordServer", "identify")
         /\ StartRecordClient => Records("client", op.client, TRUE, "recordClient", "running")
<1>1. ASSUME NEW k \in FridaKinds, NEW n \in 0..MaxProcs, NEW b \in BOOLEAN, NEW from, NEW to,
             pc = from, from # "idle", StartRecord(k, n, b, to)
      PROVE  Records(k, n, b, from, to)
  <2>1. UNCHANGED <<fridaDeviceVars, observer>>
    BY <1>1 DEF StartRecord
  <2>2. pc # "idle"
    BY <1>1
  <2>. QED BY <1>1, <2>1, <2>2, StartRecordEffect DEF Records
<1>2. StartRecordFile => Records("file", 0, TRUE, "recordFile", "push")
  BY <1>1, RecordCases
<1>3. StartRecordServer => Records("server", op.server, FALSE, "recordServer", "identify")
  BY <1>1, RecordCases
<1>4. StartRecordClient => Records("client", op.client, TRUE, "recordClient", "running")
  BY <1>1, RecordCases
<1>. QED BY <1>2, <1>3, <1>4

\* The identity of a server is completed in its action.
LEMMA IdentifyEffect ==
  ASSUME Shape, StartIdentify
  PROVE  /\ pc = "identify" /\ UNCHANGED <<fridaDeviceVars, status, observer>> /\ op' = op /\ pc' \in {"popen", "rollback"}
         /\ op.ids["server"] \in Indices(op.on)
         /\ (Changed(op.ids["server"], [ledger[op.on][op.ids["server"]] EXCEPT !.identified = TRUE]) /\ LedgersFit')
            \/ UNCHANGED ledger
         /\ \/ /\ UNCHANGED <<faults, crashes, spared>> /\ Serving(op.server) /\ pc' = "popen"
               /\ Changed(op.ids["server"], [ledger[op.on][op.ids["server"]] EXCEPT !.identified = TRUE])
            \/ UNCHANGED <<faults, crashes, spared>> /\ ~Serving(op.server) /\ pc' = "rollback" /\ UNCHANGED ledger
            \/ Fault /\ pc' = "rollback"
<1>1. /\ pc = "identify" /\ UNCHANGED <<fridaDeviceVars, status, observer>> /\ op' = op /\ pc' \in {"popen", "rollback"}
      /\ \/ /\ UNCHANGED <<faults, crashes, spared>> /\ Serving(op.server) /\ pc' = "popen"
            /\ ledger' = [ledger EXCEPT ![op.on][op.ids["server"]].identified = TRUE]
         \/ UNCHANGED <<faults, crashes, spared>> /\ ~Serving(op.server) /\ pc' = "rollback" /\ UNCHANGED ledger
         \/ /\ Fault /\ pc' = "rollback"
            /\ UNCHANGED ledger \/ ledger' = [ledger EXCEPT ![op.on][op.ids["server"]].identified = TRUE]
  BY DEF StartIdentify, NoFault
<1>2. op.on \in Sessions /\ op.ids["server"] \in Indices(op.on)
  BY <1>1, KindFacts DEF Shape, OpFits, StartFits, StartLabels
<1>3. "pending" \in EntryStatuses
  BY DEF EntryStatuses
<1>4. ledger' = [ledger EXCEPT ![op.on][op.ids["server"]].identified = TRUE] =>
        Changed(op.ids["server"], [ledger[op.on][op.ids["server"]] EXCEPT !.identified = TRUE]) /\ LedgersFit'
  BY <1>2, <1>3, MarkEffect
<1>. QED BY <1>1, <1>2, <1>4

\* Every step, by what it does to the ledgers.
LedgersKept ==
  \A s \in Sessions : \A i \in Indices(s) :
    /\ i \in Indices(s)'
    /\ ledger'[s][i].kind = ledger[s][i].kind /\ ledger'[s][i].proc = ledger[s][i].proc
    /\ ledger[s][i].identified => ledger'[s][i].identified
    /\ s # op.on => ledger'[s][i] = ledger[s][i] /\ Indices(s)' = Indices(s)

\* Changing an entry keeps what it is about.
LEMMA ChangedKeeps ==
  ASSUME Shape, op.on \in Sessions, NEW n \in Indices(op.on), NEW e \in Entries, Changed(n, e),
         e.kind = ledger[op.on][n].kind, e.proc = ledger[op.on][n].proc,
         ledger[op.on][n].identified => e.identified
  PROVE  LedgersKept
  BY DEF Changed, LedgersKept

\* No change of the ledgers.
LEMMA SameLedger == ASSUME Shape, UNCHANGED ledger PROVE LedgersKept /\ LedgersFit'
  BY DEF LedgersKept, Indices, LedgersFit, LedgersOK, Shape, TypeOK

\* Marking or completing an entry keeps what it is about.
LEMMA MarkKeeps ==
  ASSUME Shape, op.on \in Sessions, NEW n \in Indices(op.on), NEW v \in EntryStatuses
  PROVE  /\ Changed(n, [ledger[op.on][n] EXCEPT !.status = v]) => LedgersKept
         /\ Changed(n, [ledger[op.on][n] EXCEPT !.identified = TRUE]) => LedgersKept
         /\ LET e == [ledger[op.on][n] EXCEPT !.status = v] IN
            e.kind = ledger[op.on][n].kind /\ e.proc = ledger[op.on][n].proc
            /\ e.identified = ledger[op.on][n].identified /\ e.status = v
         /\ LET e == [ledger[op.on][n] EXCEPT !.identified = TRUE] IN
            e.kind = ledger[op.on][n].kind /\ e.proc = ledger[op.on][n].proc
            /\ e.identified /\ e.status = ledger[op.on][n].status
<1>1. ledger[op.on][n] \in Entries
  BY LedgerFacts
<1>2. \A x \in Entries : /\ [x EXCEPT !.status = v] \in Entries /\ [x EXCEPT !.status = v].kind = x.kind
                         /\ [x EXCEPT !.status = v].proc = x.proc /\ [x EXCEPT !.status = v].identified = x.identified
                         /\ [x EXCEPT !.status = v].status = v
                         /\ [x EXCEPT !.identified = TRUE] \in Entries /\ [x EXCEPT !.identified = TRUE].kind = x.kind
                         /\ [x EXCEPT !.identified = TRUE].proc = x.proc /\ [x EXCEPT !.identified = TRUE].identified
                         /\ [x EXCEPT !.identified = TRUE].status = x.status
  BY DEF Entries
<1>. QED BY <1>1, <1>2, ChangedKeeps

\* Recording keeps the entries there are.
LEMMA RecordKeeps ==
  ASSUME NEW k, NEW n, NEW b, Appended(k, n, b)
  PROVE  LedgersKept
  BY DEF Appended, LedgersKept

\* Every step keeps what the entries of the ledgers are about.
LEMMA LedgerStep ==
  ASSUME Shape, [Next]_fridaVars
  PROVE  LedgersKept /\ LedgersFit'
<1>1. CASE UNCHANGED ledger
  BY <1>1, SameLedger
<1>2. CASE StartRecordFile \/ StartRecordServer \/ StartRecordClient
  <2>1. \E k, n, b, from, to : Records(k, n, b, from, to)
    BY <1>2, RecordEffects
  <2>. QED BY <2>1, RecordKeeps DEF Records
<1>3. CASE StartIdentify
  <2>1. op.on \in Sessions /\ "pending" \in EntryStatuses
    BY <1>3, IdentifyEffect, ShapeParts DEF EntryStatuses
  <2>. QED BY <1>3, <2>1, IdentifyEffect, MarkKeeps, SameLedger
<1>4. CASE Mark
  <2>1. pc = "mark" /\ op.verdict \in EntryStatuses
    BY <1>4, MarkStep, ShapeParts DEF Ops, EntryStatuses, Settled
  <2>2. op.on \in Sessions /\ op.current \in Indices(op.on)
    BY <2>1, InHand DEF ExecutingLabels
  <2>. QED BY <1>4, <2>1, <2>2, MarkStep, MarkKeeps
<1>5. ASSUME NEW s \in Sessions, StartLock(s) \/ StopLock(s) \/ CleanupLock(s) PROVE UNCHANGED ledger
  BY <1>5, Locks
<1>6. StartStep => UNCHANGED ledger \/ StartRecordFile \/ StartRecordServer \/ StartRecordClient \/ StartIdentify
  BY StartEffects, BeginEffects DEF StartStep
<1>7. StopStep \/ CleanupStep \/ Decide \/ Apply \/ Crash \/ Interference => UNCHANGED ledger
  BY StopEffects, BeginEffects, DecideEffect, ApplyEffect DEF StopStep, CleanupStep
<1>. QED BY <1>1, <1>2, <1>3, <1>4, <1>5, <1>6, <1>7 DEF Next, OperationStep, fridaVars

(***************************************************************************)
(* Types after a step                                                      *)
(***************************************************************************)
\* What a step does to device and host.
DeviceStep ==
  \/ UNCHANGED fridaDeviceVars
  \/ pc = "push" /\ StartPush
  \/ pc = "launch" /\ StartLaunch
  \/ pc = "popen" /\ StartClient
  \/ pc = "dropClient" /\ StartDropClient
  \/ pc = "apply" /\ Apply
  \/ Interference

\* What changes processes and files.
LEMMA DeviceSteps == ASSUME Shape, [Next]_fridaVars PROVE DeviceStep
<1>1. StartStep => \/ UNCHANGED fridaDeviceVars
                   \/ pc = "push" /\ StartPush
                   \/ pc = "launch" /\ StartLaunch
                   \/ pc = "popen" /\ StartClient
                   \/ pc = "dropClient" /\ StartDropClient
  BY DEF StartStep, StartProbe, StartRefused, StartRecordFile, StartPush, StartLaunch,
         StartRecordServer, StartIdentify, StartClient, StartHandshake, StartRecordClient,
         StartRunning, StartRaises, BeginRollback, RollbackNothing, EndRollback, StartDropClient,
         StartRecord, fridaDeviceVars
<1>2. StopStep \/ CleanupStep \/ Decide \/ Mark \/ Crash => UNCHANGED fridaDeviceVars
  BY DEF StopStep, CleanupStep, StopBegin, StopEvidence, StopPersist, StopActivate, StopRaises,
         ReturnCleaned, BeginCleanup, EndCleanup, Decide, Mark, Crash
<1>3. \A s \in Sessions : StartLock(s) \/ StopLock(s) \/ CleanupLock(s) => UNCHANGED fridaDeviceVars
  BY DEF StartLock, StopLock, CleanupLock
<1>4. Apply => pc = "apply"
  BY DEF Apply
<1>. QED BY <1>1, <1>2, <1>3, <1>4 DEF Next, OperationStep, fridaVars, DeviceStep

\* The calls, by what they do.
LEMMA CallEffects ==
  /\ StartPush => \E took \in BOOLEAN : PutFile(op.on, took)
  /\ StartLaunch => \E took \in BOOLEAN : LaunchServer(op.on, took)
  /\ StartClient => LaunchClient
  /\ StartDropClient =>
       \/ Kill(IF op.ids["client"] = 0 /\ op.client \in clients THEN op.client ELSE 0, TRUE)
       \/ UNCHANGED fridaDeviceVars /\ op.ids["client"] = 0 /\ Spare(op.client)
  /\ Apply => \/ \E took \in BOOLEAN : Effect(Action, took)
              \/ UNCHANGED fridaDeviceVars /\ Action.kind = "client" /\ Spare(Action.proc)
  /\ Interference => FridaEnvironment
  BY DEF StartPush, StartLaunch, StartClient, StartDropClient, Apply, Interference

\* Processes and files keep their types.
LEMMA DeviceTypes == ASSUME Shape, [Next]_fridaVars PROVE FridaDeviceTypeOK'
<1>. DEFINE Rec(n, b) == [id |-> n, by |-> b]
<1>0. FridaDeviceTypeOK
  BY DEF Shape, TypeOK
<1>. USE Constants DEF FridaDeviceTypeOK, FridaIds
<1>1. CASE UNCHANGED fridaDeviceVars
  BY <1>0, <1>1 DEF fridaDeviceVars
<1>2. CASE pc = "push" /\ StartPush
  <2>1. op.on \in Sessions
    BY <1>2, ShapeParts
  <2>2. PICK took \in BOOLEAN : PutFile(op.on, took)
    BY <1>2, CallEffects
  <2>. QED BY <1>0, <2>1, <2>2 DEF PutFile
<1>3. CASE pc = "launch" /\ StartLaunch
  <2>1. op.on \in Sessions
    BY <1>3, ShapeParts
  <2>2. PICK took \in BOOLEAN : LaunchServer(op.on, took)
    BY <1>3, CallEffects
  <2>. QED BY <1>0, <2>1, <2>2 DEF LaunchServer
<1>4. CASE pc = "popen" /\ StartClient
  <2>1. LaunchClient
    BY <1>4, CallEffects
  <2>. QED BY <1>0, <2>1 DEF LaunchClient
<1>5. ASSUME NEW n, NEW took \in BOOLEAN, Kill(n, took) PROVE FridaDeviceTypeOK'
  BY <1>0, <1>5 DEF Kill
<1>6. CASE pc = "dropClient" /\ StartDropClient
  BY <1>1, <1>5, <1>6, CallEffects
<1>7. CASE pc = "apply" /\ Apply
  <2>1. ASSUME NEW took \in BOOLEAN, Effect(Action, took) PROVE FridaDeviceTypeOK'
    <3>1. CASE Action.kind = "file"
      BY <1>0, <2>1, <3>1 DEF Effect, RemoveFile
    <3>. QED BY <1>5, <2>1, <3>1 DEF Effect
  <2>. HIDE DEF FridaDeviceTypeOK
  <2>. QED BY <1>1, <1>7, <2>1, CallEffects
<1>8. CASE Interference
  <2>0. FridaEnvironment /\ {x.id : x \in servers} \subseteq FridaIds
    BY <1>0, <1>8, CallEffects
  <2>1. CASE OutsiderStartsServer
    BY <1>0, <2>1 DEF OutsiderStartsServer, Happens
  <2>2. ASSUME NEW x \in servers, ServerExits(x) PROVE FridaDeviceTypeOK'
    BY <1>0, <2>2 DEF ServerExits, Happens
  <2>3. ASSUME NEW n \in clients, ClientExits(n) PROVE FridaDeviceTypeOK'
    BY <1>0, <2>3 DEF ClientExits, Happens
  <2>4. ASSUME NEW taken \in SUBSET {x.id : x \in servers}, Reboot(taken) PROVE FridaDeviceTypeOK'
    <3>1. servers' = {} /\ taken \subseteq FridaIds /\ occupied' = occupied \cup taken
          /\ UNCHANGED <<clients, file, started, stray>> /\ outside < MaxOutside /\ outside' = outside + 1
      BY <2>0, <2>4, Zenon DEF Reboot, Happens
    <3>. QED BY <1>0, <3>1
  <2>5. ASSUME NEW n \in FridaIds, FridaPidReused(n) PROVE FridaDeviceTypeOK'
    BY <1>0, <2>5 DEF FridaPidReused, Happens
  <2>. HIDE DEF FridaDeviceTypeOK, FridaIds
  <2>6. /\ \A x \in servers : ServerExits(x) => FridaDeviceTypeOK'
        /\ \A n \in clients : ClientExits(n) => FridaDeviceTypeOK'
        /\ \A taken \in SUBSET {x.id : x \in servers} : Reboot(taken) => FridaDeviceTypeOK'
        /\ \A n \in FridaIds : FridaPidReused(n) => FridaDeviceTypeOK'
    BY <2>2, <2>3, <2>4, <2>5
  <2>. QED BY ONLY <2>0, <2>1, <2>6, Zenon DEF FridaEnvironment
<1>. QED BY <1>1, <1>2, <1>3, <1>4, <1>6, <1>7, <1>8, DeviceSteps DEF DeviceStep

Statuses == {"active", "cleanup_required", "cleaning", "cleaned", "cleanup_failed"}

\* What a step does to the status of a session.
LEMMA StatusStep ==
  ASSUME Shape, [Next]_fridaVars
  PROVE  \/ UNCHANGED status
         \/ \E v \in Statuses : status' = [status EXCEPT ![op.on] = v]
<1>1. Records("file", 0, TRUE, "recordFile", "push") => status' = [status EXCEPT ![op.on] = "cleanup_required"]
  BY DEF Records
<1>2. Records("server", op.server, FALSE, "recordServer", "identify") => status' = [status EXCEPT ![op.on] = "cleanup_required"]
  BY DEF Records
<1>3. Records("client", op.client, TRUE, "recordClient", "running") => status' = [status EXCEPT ![op.on] = "cleanup_required"]
  BY DEF Records
<1>4. StartStep => UNCHANGED status \/ \E v \in Statuses : status' = [status EXCEPT ![op.on] = v]
  BY <1>1, <1>2, <1>3, RecordEffects
     DEF StartStep, StartProbe, StartRefused, StartPush, StartLaunch,
         StartIdentify, StartClient, StartHandshake,
         StartRunning, StartRaises, BeginRollback, RollbackNothing, EndRollback, StartDropClient,
         SetStatus, Statuses
<1>5. StopStep \/ CleanupStep => UNCHANGED status \/ \E v \in Statuses : status' = [status EXCEPT ![op.on] = v]
  BY DEF StopStep, CleanupStep, StopBegin, StopEvidence, StopPersist, StopActivate, StopRaises,
         ReturnCleaned, BeginCleanup, EndCleanup, SetStatus, Statuses
<1>6. Decide \/ Apply \/ Mark \/ Crash \/ Interference => UNCHANGED status
  BY DEF Decide, Apply, Mark, Crash, Interference
<1>7. \A s \in Sessions : StartLock(s) \/ StopLock(s) \/ CleanupLock(s) => UNCHANGED status
  BY DEF StartLock, StopLock, CleanupLock
<1>. QED BY <1>4, <1>5, <1>6, <1>7 DEF Next, OperationStep, fridaVars

\* What a step does to state.json.
RunningObserver == [status |-> "running", ids |-> op.ids, server |-> op.server, owned |-> op.owned, evidence |-> FALSE]
StoppedObserver(o, v, r) == [o EXCEPT !.status = v, !.evidence = r]
ObserverStep ==
  \/ UNCHANGED observer
  \/ pc = "running" /\ StartRunning /\ observer' = [observer EXCEPT ![op.on] = RunningObserver]
  \/ /\ pc = "stopped" /\ StopPersist
     /\ observer' = [observer EXCEPT ![op.on] =
          StoppedObserver(@, IF op.errors THEN "stop_failed" ELSE "stopped", op.registered)]

\* What changes state.json.
LEMMA ObserverSteps == ASSUME Shape, [Next]_fridaVars PROVE ObserverStep
<1>0. observer \in [Sessions -> Observers]
  BY ShapeParts
<1>1. StopPersist => /\ pc = "stopped"
                     /\ observer' = [observer EXCEPT ![op.on] =
                          StoppedObserver(@, IF op.errors THEN "stop_failed" ELSE "stopped", op.registered)]
  BY <1>0 DEF StopPersist, StoppedObserver
<1>2. StartRunning => pc = "running" /\ observer' = [observer EXCEPT ![op.on] = RunningObserver]
  BY DEF StartRunning, RunningObserver
<1>3. StartStep => UNCHANGED observer \/ StartRunning
  BY DEF StartStep, StartProbe, StartRefused, StartRecordFile, StartPush, StartLaunch,
         StartRecordServer, StartIdentify, StartClient, StartHandshake, StartRecordClient,
         StartRaises, BeginRollback, RollbackNothing, EndRollback, StartDropClient, StartRecord
<1>4. StopStep \/ CleanupStep => UNCHANGED observer \/ StopPersist
  BY DEF StopStep, CleanupStep, StopBegin, StopEvidence, StopActivate, StopRaises,
         ReturnCleaned, BeginCleanup, EndCleanup
<1>5. Decide \/ Apply \/ Mark \/ Crash \/ Interference => UNCHANGED observer
  BY DEF Decide, Apply, Mark, Crash, Interference
<1>6. \A s \in Sessions : StartLock(s) \/ StopLock(s) \/ CleanupLock(s) => UNCHANGED observer
  BY DEF StartLock, StopLock, CleanupLock
<1>. QED BY <1>1, <1>2, <1>3, <1>4, <1>5, <1>6 DEF Next, OperationStep, fridaVars, ObserverStep

\* Faults and deaths are counted, and never at once.
CountStep ==
  \/ UNCHANGED <<faults, crashes, spared>>
  \/ Fault
  \/ \E n \in 0..MaxProcs : Spare(n)
  \/ pc # "idle" /\ Crash /\ crashes < MaxCrashes /\ crashes' = crashes + 1 /\ UNCHANGED <<faults, spared>>
\* What counts as a failure or a death.
LEMMA CountSteps == ASSUME Shape, [Next]_fridaVars PROVE CountStep
<1>0. op \in Ops => op.client \in 0..MaxProcs
  BY DEF Ops
<1>1. StartStep => UNCHANGED <<faults, crashes, spared>> \/ Fault \/ \E n \in 0..MaxProcs : Spare(n)
  BY <1>0, BeginEffects, ShapeParts
     DEF StartStep, StartProbe, StartRefused, StartRecordFile, StartPush, StartLaunch,
         StartRecordServer, StartIdentify, StartClient, StartHandshake, StartRecordClient, StartRunning,
         StartRaises, RollbackNothing, EndRollback, StartDropClient, StartRecord, NoFault
<1>2. StopStep \/ CleanupStep => UNCHANGED <<faults, crashes, spared>> \/ Fault
  BY BeginEffects DEF StopStep, CleanupStep, StopEvidence, StopPersist, StopActivate, StopRaises,
         ReturnCleaned, EndCleanup, NoFault
<1>3. Decide \/ Apply \/ Mark \/ Interference =>
        UNCHANGED <<faults, crashes, spared>> \/ Fault \/ \E n \in 0..MaxProcs : Spare(n)
  <2>1. \A e \in Entries : e.proc \in 0..MaxProcs
    BY DEF Entries
  <2>2. Decide => UNCHANGED <<faults, crashes, spared>> \/ Fault \/ \E n \in 0..MaxProcs : Spare(n)
    BY <2>1, DecideEffect
  <2>3. Apply => UNCHANGED <<faults, crashes, spared>> \/ Fault \/ \E n \in 0..MaxProcs : Spare(n)
    BY <2>1, ApplyEffect, InHand DEF ExecutingLabels
  <2>. QED BY <2>2, <2>3 DEF Mark, Interference, NoFault
<1>4. \A s \in Sessions : StartLock(s) \/ StopLock(s) \/ CleanupLock(s) => UNCHANGED <<faults, crashes, spared>>
  BY DEF StartLock, StopLock, CleanupLock, NoFault
<1>5. Crash => pc # "idle" /\ crashes < MaxCrashes /\ crashes' = crashes + 1 /\ UNCHANGED <<faults, spared>>
  BY DEF Crash
<1>. QED BY <1>1, <1>2, <1>3, <1>4, <1>5 DEF Next, OperationStep, fridaVars, CountStep

\* Statuses, state.json and the counters keep their types.
LEMMA SmallTypes ==
  ASSUME Shape, [Next]_fridaVars
  PROVE  /\ status' \in [Sessions -> Statuses]
         /\ observer' \in [Sessions -> Observers]
         /\ faults' \in 0..MaxFaults /\ crashes' \in 0..MaxCrashes
         /\ faults <= faults' /\ crashes <= crashes'
         /\ spared' \subseteq 0..MaxProcs /\ spared \subseteq spared'
<1>0. /\ status \in [Sessions -> Statuses] /\ observer \in [Sessions -> Observers] /\ op \in Ops
      /\ faults \in 0..MaxFaults /\ crashes \in 0..MaxCrashes /\ spared \subseteq 0..MaxProcs
  BY ShapeParts DEF Shape, TypeOK, Statuses
<1>1. status' \in [Sessions -> Statuses]
  BY <1>0, StatusStep
<1>2. observer' \in [Sessions -> Observers]
  <2>1. RunningObserver \in Observers
    <3>1. op.ids \in [FridaKinds -> 0..MaxActions] /\ op.server \in 0..MaxProcs /\ op.owned \in BOOLEAN
      BY <1>0 DEF Ops
    <3>. QED BY <3>1 DEF RunningObserver, Observers
  <2>2. \A o \in Observers, v \in {"stopped", "stop_failed"}, r \in BOOLEAN : StoppedObserver(o, v, r) \in Observers
    BY DEF StoppedObserver, Observers
  <2>3. op.registered \in BOOLEAN
    BY <1>0 DEF Ops
  <2>4. CASE UNCHANGED observer
    BY <1>0, <2>4
  <2>5. CASE observer' = [observer EXCEPT ![op.on] = RunningObserver]
    BY <1>0, <2>1, <2>5
  <2>6. CASE observer' = [observer EXCEPT ![op.on] =
               StoppedObserver(@, IF op.errors THEN "stop_failed" ELSE "stopped", op.registered)]
    <3>. DEFINE v == IF op.errors THEN "stop_failed" ELSE "stopped"
    <3>1. v \in {"stopped", "stop_failed"}
      OBVIOUS
    <3>. HIDE DEF v
    <3>2. \A s \in Sessions : StoppedObserver(observer[s], v, op.registered) \in Observers
      BY <1>0, <2>2, <2>3, <3>1
    <3>. QED BY <1>0, <2>6, <3>2 DEF v
  <2>. QED BY <2>4, <2>5, <2>6, ObserverSteps DEF ObserverStep
<1>3. faults' \in 0..MaxFaults /\ crashes' \in 0..MaxCrashes /\ faults <= faults' /\ crashes <= crashes'
  BY <1>0, CountSteps, Constants DEF CountStep, Fault, Spare
<1>4. spared' \subseteq 0..MaxProcs /\ spared \subseteq spared'
  BY <1>0, CountSteps DEF CountStep, Fault, Spare
<1>. QED BY <1>1, <1>2, <1>3, <1>4

\* state.json is never removed.
LEMMA ObserverStays ==
  ASSUME Shape, [Next]_fridaVars
  PROVE  \A s \in Sessions : observer[s].status # "none" => observer'[s].status # "none"
<1>0. observer \in [Sessions -> Observers]
  BY ShapeParts
<1>1. RunningObserver.status = "running"
  BY DEF RunningObserver
<1>2. \A o \in Observers : \A v, r : StoppedObserver(o, v, r).status = v
  BY DEF StoppedObserver, Observers
<1>3. ASSUME NEW v \in {"stopped", "stop_failed"}, NEW r, observer' = [observer EXCEPT ![op.on] = StoppedObserver(@, v, r)]
      PROVE  \A s \in Sessions : observer[s].status # "none" => observer'[s].status # "none"
  BY <1>0, <1>2, <1>3
<1>. QED BY <1>0, <1>1, <1>3, ObserverSteps DEF ObserverStep

(***************************************************************************)
(* Where the operation goes                                                *)
(***************************************************************************)
\* Where a step leads the operation, by kind of step.
Calls(s) ==
  /\ UNCHANGED <<ledger, observer>>
  /\ \/ Begun("start", s) /\ pc' = "probe"
     \/ (Begun("stop", s) \/ Begun("cleanup", s)) /\ pc' = "stop" /\ observer[s].status # "none"
     \/ Begun("cleanup", s) /\ pc' = "cleanup"
StartsOn == pc \in StartLabels /\ pc' \in StartLabels /\ Makes
Rolls == pc \in StartLabels /\ Goes("rollback")
Drops == pc \in {"rollback", "endRollback"} /\ Goes("dropClient")
RollsOn == /\ pc = "rollback" /\ Walks /\ op'.phase = "rollback" /\ pc' \in {"endRollback", "next"}
           /\ UNCHANGED <<ledger, observer>> /\ op'.todo \subseteq Indices(op.on)
StopsOn == /\ pc = "stop" /\ Walks /\ op'.phase = "stop" /\ pc' = "next"
           /\ UNCHANGED <<ledger, observer>> /\ op'.todo \subseteq Indices(op.on)
CleansOn == /\ pc = "cleanup" /\ Walks /\ op'.phase = "cleanup" /\ pc' \in {"endCleanup", "next"}
            /\ UNCHANGED <<ledger, observer>> /\ op'.todo \subseteq Indices(op.on)
Decides == /\ pc = "next" /\ pc' \in {"apply", "mark"} /\ Walks /\ op'.phase = op.phase /\ op'.todo = op.todo
           /\ op'.current \in op.todo
Applies == /\ pc = "apply" /\ pc' = "mark" /\ Walks /\ op'.phase = op.phase /\ op'.todo = op.todo
           /\ op'.current = op.current
Marks == /\ pc = "mark" /\ pc' \in {"next", AfterActions} /\ Walks /\ op'.phase = op.phase
         /\ op'.todo \subseteq op.todo
Registers == pc = "evidence" /\ pc' = "stopped" /\ Walks /\ op'.phase = op.phase
Activates == pc = "stopped" /\ Goes("activate") /\ UNCHANGED ledger
Cleans == pc # "idle" /\ Goes("cleanup") /\ op.job = "cleanup"

OpStep ==
  \/ UNCHANGED <<pc, op>>
  \/ Returned
  \/ \E s \in Sessions : Calls(s)
  \/ StartsOn \/ Rolls \/ Drops \/ RollsOn
  \/ StopsOn \/ CleansOn
  \/ Decides \/ Applies \/ Marks \/ Registers \/ Activates \/ Cleans

\* Every step is one of these.
LEMMA OpSteps == ASSUME Shape, [Next]_fridaVars PROVE OpStep
<1>1. ASSUME NEW s \in Sessions, StartLock(s) \/ StopLock(s) \/ CleanupLock(s) PROVE Calls(s)
  <2>1. UNCHANGED observer
    BY <1>1 DEF StartLock, StopLock, CleanupLock
  <2>2. StopLock(s) => observer[s].status # "none"
    BY DEF StopLock
  <2>. QED BY <1>1, <2>1, <2>2, Locks DEF Calls
<1>2. ASSUME StartStep PROVE OpStep
  <2>1. CASE StartProbe
    BY <2>1, StartEffects DEF OpStep, StartsOn, StartLabels
  <2>2. CASE StartRefused \/ StartDropClient
    BY <2>2, StartEffects DEF OpStep
  <2>3. CASE StartRecordFile \/ StartRecordServer \/ StartRecordClient
    <3>1. /\ Records("file", 0, TRUE, "recordFile", "push") => StartsOn \/ Rolls
          /\ Records("server", op.server, FALSE, "recordServer", "identify") => StartsOn \/ Rolls
          /\ Records("client", op.client, TRUE, "recordClient", "running") => StartsOn \/ Rolls
      BY DEF Records, StartsOn, Rolls, StartLabels
    <3>. QED BY <2>3, <3>1, RecordEffects DEF OpStep
  <2>4. CASE StartPush \/ StartHandshake
    <3>1. op \in Ops
      BY ShapeParts
    <3>2. \A l \in StartLabels : Goes(l) => pc' \in StartLabels /\ Makes
      BY <3>1 DEF Goes, Makes, SameCall
    <3>. QED BY <2>4, <3>2, StartEffects DEF OpStep, StartsOn, Rolls, StartLabels
  <2>5. CASE StartLaunch \/ StartClient
    BY <2>5, StartEffects DEF OpStep, StartsOn, Rolls, StartLabels
  <2>6. CASE StartIdentify
    <3>1. op \in Ops
      BY ShapeParts
    <3>2. pc = "identify" /\ op' = op /\ pc' \in {"popen", "rollback"}
      BY <2>6, IdentifyEffect
    <3>. QED BY <3>1, <3>2 DEF OpStep, StartsOn, Rolls, StartLabels, Goes, Makes, SameCall
  <2>7. CASE StartRunning \/ StartRaises
    BY <2>7, StartEffects DEF OpStep, Rolls, StartLabels
  <2>8. CASE BeginRollback
    <3>1. RollsOn
      BY <2>8, BeginEffects DEF RollsOn, Unsettled
    <3>. QED BY <3>1 DEF OpStep
  <2>9. CASE RollbackNothing \/ EndRollback
    BY <2>9, StartEffects DEF OpStep, Drops
  <2>. QED BY <1>2, <2>1, <2>2, <2>3, <2>4, <2>5, <2>6, <2>7, <2>8, <2>9 DEF StartStep
<1>3. ASSUME StopStep PROVE OpStep
  <2>1. StopBegin => StopsOn
    BY BeginEffects DEF StopsOn
  <2>2. StopEvidence => Registers
    BY StopEffects DEF Registers
  <2>3. StopPersist => Returned \/ Cleans \/ Activates
    BY StopEffects DEF Cleans, Activates, Goes
  <2>4. StopActivate \/ StopRaises => Returned \/ Cleans
    BY StopEffects DEF Cleans
  <2>. QED BY <1>3, <2>1, <2>2, <2>3, <2>4 DEF StopStep, OpStep
<1>4. ASSUME CleanupStep PROVE OpStep
  <2>1. BeginCleanup => CleansOn
    BY BeginEffects DEF CleansOn, Unsettled
  <2>. QED BY <1>4, <2>1, StopEffects DEF CleanupStep, OpStep
<1>5. Decide => Decides
  BY DecideEffect DEF Decides
<1>6. Apply => Applies
  BY ApplyEffect DEF Applies
<1>7. Mark => Marks
  BY MarkStep DEF Marks
<1>8. Crash => Returned
  BY StopEffects
<1>9. Interference => UNCHANGED <<pc, op>>
  BY DEF Interference
<1>10. UNCHANGED fridaVars => UNCHANGED <<pc, op>>
  BY DEF fridaVars
<1>. QED BY <1>1, <1>2, <1>3, <1>4, <1>5, <1>6, <1>7, <1>8, <1>9, <1>10 DEF Next, OperationStep, OpStep

\* The local variables keep their types.
LEMMA OpTypes == ASSUME Shape, [Next]_fridaVars PROVE op' \in Ops /\ pc' \in FridaLabels
<1>1. op \in Ops /\ pc \in FridaLabels
  BY ShapeParts
<1>2. op' \in Ops
  <2>1. Returned => op' \in Ops
    BY NoOpFacts DEF Returned
  <2>2. \A s \in Sessions : Calls(s) => op' \in Ops
    BY DEF Calls, Begun
  <2>3. StartsOn \/ RollsOn \/ StopsOn \/ CleansOn \/ Decides \/ Applies \/ Marks \/ Registers => op' \in Ops
    BY DEF StartsOn, RollsOn, StopsOn, CleansOn, Decides, Applies, Marks, Registers, Walks, Makes
  <2>4. Rolls \/ Drops \/ Activates \/ Cleans => op' = op
    BY DEF Rolls, Drops, Activates, Cleans, Goes
  <2>. QED BY <1>1, <2>1, <2>2, <2>3, <2>4, OpSteps DEF OpStep
<1>3. pc' \in FridaLabels
  BY <1>1, OpSteps
     DEF OpStep, FridaLabels, Returned, Calls, StartsOn, StartLabels, Rolls, Drops, RollsOn, StopsOn, CleansOn,
         Decides, Applies, Marks, Registers, Activates, Cleans, Goes, AfterActions
<1>. QED BY <1>2, <1>3


\* The operation keeps fitting its next step.
LEMMA OpFitsStep == ASSUME Shape, [Next]_fridaVars PROVE OpFits'
<1>. USE DEF StartLabels, RollbackLabels, ExecutingLabels, StopLabels, CleanupLabels
<1>0. OpFits /\ op \in Ops /\ (pc # "idle" => op.on \in Sessions) /\ op' \in Ops
  BY ShapeParts, OpTypes DEF Shape
<1>6. \A s \in Sessions : op'.on = s => Indices(op.on)' = Indices(s)'
  BY DEF Indices
<1>7. \A s \in Sessions : Indices(s) \subseteq Indices(s)'
  BY LedgerStep DEF LedgersKept
<1>12. \A s \in Sessions : observer[s].status # "none" => observer'[s].status # "none"
  BY ObserverStays
<1>1. CASE Returned
  <2>1. NoOp.job = "none" /\ NoOp.server = 0 /\ NoOp.client = 0 /\ NoOp.ids = NoEntryIds /\ ~NoOp.owned
    BY DEF NoOp
  <2>. QED BY <1>1, <2>1 DEF Returned, OpFits
<1>2. ASSUME NEW s \in Sessions, Calls(s) PROVE OpFits'
  <2>1. /\ op'.on = s /\ op'.server = 0 /\ op'.client = 0 /\ op'.ids = NoEntryIds /\ ~op'.owned
        /\ \/ pc' = "probe" /\ op'.job = "start"
           \/ pc' = "stop" /\ op'.job # "start" /\ observer'[s].status # "none"
           \/ pc' = "cleanup" /\ op'.job = "cleanup"
    BY <1>2 DEF Calls, Begun
  <2>2. observer'[op'.on] = observer'[s]
    BY <2>1
  <2>. QED BY <2>1, <2>2 DEF OpFits
<1>3. CASE UNCHANGED <<pc, op>>
  <2>1. pc \in ExecutingLabels => op.todo \subseteq Indices(op.on)'
    BY <1>0, <1>3, <1>6, <1>7 DEF OpFits
  <2>. QED BY <1>0, <1>3, <1>12, <2>1 DEF OpFits
<1>4. ASSUME StartsOn PROVE OpFits'
  BY <1>0, <1>4 DEF StartsOn, Makes, SameCall, OpFits
<1>5. CASE Rolls \/ Drops
  BY <1>0, <1>5 DEF Rolls, Drops, Goes, OpFits
<1>8. CASE RollsOn \/ StopsOn \/ CleansOn
  <2>1. /\ op.on \in Sessions /\ op'.on = op.on /\ op'.job = op.job /\ op'.server = op.server /\ op'.client = op.client
        /\ op'.ids = op.ids /\ op'.owned = op.owned /\ op'.todo \subseteq Indices(op.on)
    BY <1>0, <1>8 DEF RollsOn, StopsOn, CleansOn, Walks, SameSoFar
  <2>2. op'.todo \subseteq Indices(op.on)'
    BY <1>6, <1>7, <2>1
  <2>3. \/ pc = "rollback" /\ op'.phase = "rollback" /\ pc' \in {"endRollback", "next"}
        \/ pc = "stop" /\ op'.phase = "stop" /\ pc' = "next"
        \/ pc = "cleanup" /\ op'.phase = "cleanup" /\ pc' \in {"endCleanup", "next"}
    BY <1>8 DEF RollsOn, StopsOn, CleansOn
  <2>4. op'.phase = "stop" => observer'[op'.on].status # "none"
    BY <1>0, <1>12, <2>1, <2>3 DEF OpFits
  <2>. QED BY <1>0, <2>1, <2>2, <2>3, <2>4 DEF OpFits
<1>9. CASE Decides \/ Applies \/ Marks
  <2>1. /\ op.on \in Sessions /\ op'.on = op.on /\ op'.job = op.job /\ op'.server = op.server /\ op'.client = op.client
        /\ op'.ids = op.ids /\ op'.owned = op.owned /\ op'.phase = op.phase /\ op'.todo \subseteq op.todo
    BY <1>0, <1>9 DEF Decides, Applies, Marks, Walks, SameSoFar
  <2>2. op'.todo \subseteq Indices(op.on)'
    <3>1. op.todo \subseteq Indices(op.on)
      BY <1>0, <1>9 DEF Decides, Applies, Marks, OpFits
    <3>. QED BY <1>6, <1>7, <2>1, <3>1
  <2>3. op.phase # "none" /\ (op.phase = "rollback" <=> op.job = "start") /\ (op.phase = "cleanup" => op.job = "cleanup")
    BY <1>0, <1>9 DEF Decides, Applies, Marks, OpFits
  <2>4. op.phase \in {"rollback", "stop", "cleanup"}
    BY <1>0, <2>3 DEF Ops
  <2>5. \/ pc' \in {"apply", "mark"} /\ op'.current \in op'.todo
        \/ pc' \in {"next", AfterActions}
    BY <1>0, <1>9 DEF Decides, Applies, Marks, OpFits
  <2>6. op'.phase = "stop" => observer'[op'.on].status # "none"
    BY <1>0, <1>9, <1>12, <2>1 DEF OpFits, Decides, Applies, Marks
  <2>. QED BY <1>0, <2>1, <2>2, <2>3, <2>4, <2>5, <2>6 DEF OpFits, AfterActions
<1>10. CASE Registers
  BY <1>0, <1>10, <1>12 DEF Registers, Walks, SameSoFar, OpFits
<1>11. CASE Activates \/ Cleans
  BY <1>0, <1>11, <1>12 DEF Activates, Cleans, Goes, OpFits
<1>. QED BY <1>1, <1>2, <1>3, <1>4, <1>5, <1>8, <1>9, <1>10, <1>11, OpSteps DEF OpStep

(***************************************************************************)
(* The entries of the ledgers after a step                                 *)
(***************************************************************************)
\* How a step changes one entry.
NewEntry(k, n, b) == [kind |-> k, proc |-> n, identified |-> b, status |-> "pending"]
Marked(s, i) ==
  /\ pc = "mark" /\ Mark /\ s = op.on /\ i = op.current /\ i \in Indices(s) /\ ledger'[s][i].status = op.verdict
  /\ ledger'[s][i].kind = ledger[s][i].kind /\ ledger'[s][i].proc = ledger[s][i].proc
  /\ ledger'[s][i].identified = ledger[s][i].identified
Completed(s, i) ==
  /\ pc = "identify" /\ StartIdentify /\ s = op.on /\ i = op.ids["server"] /\ i \in Indices(s)
  /\ ledger'[s][i].kind = ledger[s][i].kind /\ ledger'[s][i].proc = ledger[s][i].proc
  /\ ledger'[s][i].identified /\ ledger'[s][i].status = ledger[s][i].status
Added(s, i) ==
  /\ s = op.on /\ i = Len(ledger[op.on]) + 1 /\ i \notin Indices(s) /\ status[op.on] # "cleaned"
  /\ \/ pc = "recordFile" /\ StartRecordFile /\ ledger'[s][i] = NewEntry("file", 0, TRUE)
     \/ pc = "recordServer" /\ StartRecordServer /\ ledger'[s][i] = NewEntry("server", op.server, FALSE)
     \/ pc = "recordClient" /\ StartRecordClient /\ ledger'[s][i] = NewEntry("client", op.client, TRUE)
EntryStep(s, i) ==
  \/ i \in Indices(s) /\ ledger'[s][i] = ledger[s][i]
  \/ Marked(s, i) \/ Completed(s, i) \/ Added(s, i)

\* The one new entry of a recording.
AddedOnly(k, n, b) ==
  \A s \in Sessions : \A i \in Indices(s)' :
    \/ i \in Indices(s) /\ ledger'[s][i] = ledger[s][i]
    \/ /\ s = op.on /\ i = Len(ledger[op.on]) + 1 /\ i \notin Indices(s) /\ status[op.on] # "cleaned"
       /\ ledger'[s][i] = NewEntry(k, n, b)
\* A recording step adds one entry and changes none.
LEMMA RecordAdds ==
  ASSUME NEW k, NEW n, NEW b, NEW from, NEW to, Records(k, n, b, from, to)
  PROVE  AddedOnly(k, n, b)
  BY DEF Records, Appended, NewEntry, AddedOnly

\* Every entry after a step was there, was changed by it, or was added by it.
LEMMA EntrySteps ==
  ASSUME Shape, [Next]_fridaVars
  PROVE  \A s \in Sessions : \A i \in Indices(s)' : EntryStep(s, i)
<1>1. CASE UNCHANGED ledger
  BY <1>1 DEF Indices, EntryStep
<1>3. CASE StartRecordFile
  <2>1. Records("file", 0, TRUE, "recordFile", "push")
    BY <1>3, RecordEffects
  <2>2. AddedOnly("file", 0, TRUE) /\ pc = "recordFile"
    BY <2>1, RecordAdds DEF Records
  <2>. QED BY <1>3, <2>2 DEF AddedOnly, EntryStep, Added
<1>4. CASE StartRecordServer
  <2>1. Records("server", op.server, FALSE, "recordServer", "identify")
    BY <1>4, RecordEffects
  <2>2. AddedOnly("server", op.server, FALSE) /\ pc = "recordServer"
    BY <2>1, RecordAdds DEF Records
  <2>. QED BY <1>4, <2>2 DEF AddedOnly, EntryStep, Added
<1>5. CASE StartRecordClient
  <2>1. Records("client", op.client, TRUE, "recordClient", "running")
    BY <1>5, RecordEffects
  <2>2. AddedOnly("client", op.client, TRUE) /\ pc = "recordClient"
    BY <2>1, RecordAdds DEF Records
  <2>. QED BY <1>5, <2>2 DEF AddedOnly, EntryStep, Added
<1>6. ASSUME NEW n \in Indices(op.on), op.on \in Sessions, NEW e, Changed(n, e)
      PROVE  \A s \in Sessions : \A i \in Indices(s)' :
               /\ i \in Indices(s)
               /\ ledger'[s][i] = ledger[s][i] \/ (s = op.on /\ i = n /\ ledger'[s][i] = e)
  BY <1>6 DEF Changed
<1>7. CASE StartIdentify
  <2>0. op.on \in Sessions /\ "pending" \in EntryStatuses
    BY <1>7, IdentifyEffect, ShapeParts DEF EntryStatuses
  <2>. DEFINE n == op.ids["server"]
              e == [ledger[op.on][n] EXCEPT !.identified = TRUE]
  <2>1. n \in Indices(op.on) /\ (Changed(n, e) \/ UNCHANGED ledger) /\ pc = "identify"
    BY <1>7, IdentifyEffect
  <2>2. e.kind = ledger[op.on][n].kind /\ e.proc = ledger[op.on][n].proc
        /\ e.identified /\ e.status = ledger[op.on][n].status
    BY <2>0, <2>1, MarkKeeps
  <2>. HIDE DEF e
  <2>3. CASE Changed(n, e)
    BY <1>6, <1>7, <2>0, <2>1, <2>2, <2>3 DEF EntryStep, Completed
  <2>. QED BY <1>1, <2>1, <2>3
<1>8. CASE Mark
  <2>0. pc = "mark" /\ op.verdict \in EntryStatuses
    BY <1>8, MarkStep, ShapeParts DEF Ops, EntryStatuses, Settled
  <2>1. op.on \in Sessions /\ op.current \in Indices(op.on)
    BY <2>0, InHand DEF ExecutingLabels
  <2>. DEFINE n == op.current
              e == [ledger[op.on][n] EXCEPT !.status = op.verdict]
  <2>2. Changed(n, e)
    BY <1>8, MarkStep
  <2>3. e.kind = ledger[op.on][n].kind /\ e.proc = ledger[op.on][n].proc
        /\ e.identified = ledger[op.on][n].identified /\ e.status = op.verdict
    BY <2>0, <2>1, MarkKeeps
  <2>. HIDE DEF e
  <2>. QED BY <1>6, <1>8, <2>0, <2>1, <2>2, <2>3 DEF EntryStep, Marked
<1>9. ASSUME NEW s \in Sessions, StartLock(s) \/ StopLock(s) \/ CleanupLock(s) PROVE UNCHANGED ledger
  BY <1>9, Locks
<1>10. StartStep => UNCHANGED ledger \/ StartRecordFile \/ StartRecordServer \/ StartRecordClient \/ StartIdentify
  BY StartEffects, BeginEffects DEF StartStep
<1>11. StopStep \/ CleanupStep \/ Decide \/ Apply \/ Crash \/ Interference => UNCHANGED ledger
  BY StopEffects, BeginEffects, DecideEffect, ApplyEffect DEF StopStep, CleanupStep
<1>. QED BY <1>1, <1>3, <1>4, <1>5, <1>7, <1>8, <1>9, <1>10, <1>11 DEF Next, OperationStep, fridaVars

\* Only Mark settles or fails an action.
LEMMA StatusesKept ==
  ASSUME Shape, [Next]_fridaVars, pc # "mark"
  PROVE  \A s \in Sessions : \A i \in Indices(s) : ledger'[s][i].status = ledger[s][i].status
<1>1. \A s \in Sessions : \A i \in Indices(s) : i \in Indices(s)'
  BY LedgerStep DEF LedgersKept
<1>. QED BY <1>1, EntrySteps DEF EntryStep, Marked, Completed, Added

(***************************************************************************)
(* The rest of Shape                                                       *)
(***************************************************************************)
ObserverFitsAt(s, o) ==
  o.status # "none" =>
    /\ o.ids["client"] \in Indices(s)
    /\ o.owned => o.ids["server"] \in Indices(s) /\ o.ids["file"] \in Indices(s)

\* state.json keeps pointing into the ledgers.
LEMMA ObserverFitsStep == ASSUME Shape, [Next]_fridaVars PROVE ObserverFits'
<1>. USE DEF ObserverFitsAt
<1>0. ObserverFits /\ observer \in [Sessions -> Observers] /\ \A s \in Sessions : Indices(s) \subseteq Indices(s)'
  BY LedgerStep, ShapeParts DEF Shape, LedgersKept
<1>1. CASE UNCHANGED observer
  BY <1>0, <1>1 DEF ObserverFits
<1>2. CASE pc = "running" /\ observer' = [observer EXCEPT ![op.on] = RunningObserver]
  <2>1. op.on \in Sessions /\ ObserverFitsAt(op.on, RunningObserver)
    BY <1>2, ShapeParts, KindFacts DEF Shape, StartFits, StartLabels, RunningObserver
  <2>2. \A s \in Sessions : observer'[s] = IF s = op.on THEN RunningObserver ELSE observer[s]
    BY <1>0, <1>2
  <2>. HIDE DEF ObserverFitsAt
  <2>3. \A s \in Sessions : ObserverFitsAt(s, observer[s])
    BY <1>0 DEF ObserverFits, ObserverFitsAt
  <2>4. \A s \in Sessions : ObserverFitsAt(s, observer'[s])
    BY <2>1, <2>2, <2>3
  <2>. QED BY <1>0, <2>4 DEF ObserverFits, ObserverFitsAt
<1>3. ASSUME NEW v, NEW r, pc = "stopped", observer' = [observer EXCEPT ![op.on] = StoppedObserver(@, v, r)]
      PROVE  ObserverFits'
  <2>1. op.on \in Sessions
    BY <1>3, ShapeParts
  <2>. DEFINE p == StoppedObserver(observer[op.on], v, r)
  <2>2. p.ids = observer[op.on].ids /\ p.owned = observer[op.on].owned
    BY <1>0, <2>1 DEF StoppedObserver, Observers
  <2>3. \A s \in Sessions : observer'[s] = IF s = op.on THEN p ELSE observer[s]
    BY <1>0, <1>3
  <2>4. observer[op.on].status # "none"
    BY <1>3 DEF Shape, OpFits, StopLabels
  <2>. QED BY <1>0, <2>1, <2>2, <2>3, <2>4 DEF ObserverFits
<1>. QED BY <1>1, <1>2, <1>3, ObserverSteps DEF ObserverStep

\* What an id that a start has kept points to.
IdFits(k) ==
  op.ids[k] # 0 =>
    /\ op.ids[k] \in Indices(op.on)
    /\ ledger[op.on][op.ids[k]].kind = k /\ ledger[op.on][op.ids[k]].proc = Made(k)
    /\ pc \in StartLabels => ledger[op.on][op.ids[k]].status = "pending"
\* How far a start has come.
SoFar ==
  /\ pc \in {"recordFile", "push", "launch", "recordServer", "identify"} => op.owned
  /\ op.owned /\ pc \in StartLabels \ {"recordFile"} => op.ids["file"] # 0
  /\ op.owned /\ pc \in {"identify", "popen", "handshake", "recordClient", "running"} => op.ids["server"] # 0
  /\ pc = "running" => op.ids["client"] # 0
  /\ pc \in {"probe", "recordFile"} => op.ids["file"] = 0
  /\ pc \in {"probe", "recordFile", "push", "launch"} => op.server = 0
  /\ pc \in {"probe", "recordFile", "push", "launch", "recordServer"} => op.ids["server"] = 0
  /\ pc \in {"probe", "recordFile", "push", "launch", "recordServer", "identify", "popen"} => op.client = 0
  /\ pc \in {"probe", "recordFile", "push", "launch", "recordServer", "identify", "popen",
             "handshake", "recordClient"} => op.ids["client"] = 0
  /\ pc \in {"handshake", "recordClient"} => op.client # 0

\* StartFits in two parts.
LEMMA StartFitsParts == StartFits <=> (\A k \in FridaKinds : IdFits(k)) /\ SoFar
  BY DEF StartFits, IdFits, SoFar

\* What a start does not change keeps fitting.
LEMMA IdsKept ==
  ASSUME Shape, [Next]_fridaVars, NEW k \in FridaKinds,
         op.on \in Sessions, op'.on = op.on, op'.ids[k] = op.ids[k], Made(k)' = Made(k) \/ op.ids[k] = 0,
         pc' \in StartLabels => pc \in StartLabels
  PROVE  IdFits(k)'
<1>1. CASE op.ids[k] = 0
  BY <1>1 DEF IdFits
<1>2. CASE op.ids[k] # 0
  <2>1. IdFits(k)
    BY StartFitsParts DEF Shape
  <2>. DEFINE i == op.ids[k]
  <2>2. /\ i \in Indices(op.on) /\ ledger[op.on][i].kind = k /\ ledger[op.on][i].proc = Made(k)
        /\ pc \in StartLabels => ledger[op.on][i].status = "pending"
    BY <1>2, <2>1 DEF IdFits
  <2>3. i \in Indices(op.on)' /\ ledger'[op.on][i].kind = k /\ ledger'[op.on][i].proc = Made(k)
    <3>1. \A s \in Sessions : s = op'.on => Indices(op.on)' = Indices(s)'
      BY DEF Indices
    <3>2. \A s \in Sessions : \A j \in Indices(s) :
            j \in Indices(s)' /\ ledger'[s][j].kind = ledger[s][j].kind /\ ledger'[s][j].proc = ledger[s][j].proc
      BY LedgerStep DEF LedgersKept
    <3>. QED BY <2>2, <3>1, <3>2
  <2>4. pc' \in StartLabels => ledger'[op.on][i].status = "pending"
    BY <2>2, StatusesKept DEF StartLabels
  <2>. QED BY <1>2, <2>3, <2>4 DEF IdFits
<1>. QED BY <1>1, <1>2

\* A step of a start that records nothing and makes only what no id stands for.
MakesFit ==
  /\ op'.ids = op.ids
  /\ op'.server = op.server \/ op.ids["server"] = 0
  /\ op'.client = op.client \/ op.ids["client"] = 0
\* A step that keeps no new id keeps the ids fitting.
LEMMA MakesKept ==
  ASSUME Shape, [Next]_fridaVars, op.on \in Sessions, op'.on = op.on, MakesFit,
         pc' \in StartLabels => pc \in StartLabels
  PROVE  \A k \in FridaKinds : IdFits(k)'
<1>1. ASSUME NEW k \in FridaKinds PROVE Made(k)' = Made(k) \/ op.ids[k] = 0
  BY KindFacts DEF Made, MakesFit
<1>. QED BY <1>1, IdsKept DEF MakesFit

\* After a recording whose id was kept.
RecordedWell(k, to) ==
  /\ \A l \in FridaKinds : IdFits(l)'
  /\ op'.on = op.on /\ op'.server = op.server /\ op'.client = op.client /\ op'.owned = op.owned
  /\ pc' = to /\ op'.ids[k] # 0 /\ \A l \in FridaKinds : l # k => op'.ids[l] = op.ids[l]

\* A recording keeps the id of the entry it adds.
LEMMA RecordFits ==
  ASSUME Shape, [Next]_fridaVars, NEW k \in FridaKinds, NEW n, NEW b, NEW from, NEW to, Records(k, n, b, from, to),
         from \in StartLabels, n = Made(k), ~Goes("rollback")
  PROVE  RecordedWell(k, to)
<1>0. op \in Ops /\ op.on \in Sessions /\ op.ids \in [FridaKinds -> 0..MaxActions]
  BY ShapeParts DEF Records, StartLabels, Ops
<1>. DEFINE m == Len(ledger[op.on]) + 1
<1>1. /\ pc' = to /\ op'.on = op.on /\ op'.server = op.server /\ op'.client = op.client /\ op'.owned = op.owned
      /\ op'.ids = [op.ids EXCEPT ![k] = m] /\ pc \in StartLabels
  BY DEF Records, Makes, SameCall
<1>2. m \in 1..MaxActions /\ ledger'[op.on][m] = NewEntry(k, n, b)
      /\ \A s \in Sessions : s = op.on => m \in Indices(s)'
  BY DEF Records, Appended, NewEntry
<1>. HIDE DEF m
<1>3. op'.ids[k] = m /\ m # 0 /\ \A l \in FridaKinds : l # k => op'.ids[l] = op.ids[l]
  BY <1>0, <1>1, <1>2
<1>4. \A l \in FridaKinds : Made(l)' = Made(l)
  BY <1>1 DEF Made
<1>5. IdFits(k)'
  <2>1. \A s \in Sessions : s = op'.on => Indices(op.on)' = Indices(s)'
    BY DEF Indices
  <2>2. m \in Indices(op.on)'
    BY <1>0, <1>1, <1>2, <2>1
  <2>3. ledger'[op.on][m].kind = k /\ ledger'[op.on][m].proc = n /\ ledger'[op.on][m].status = "pending"
    BY <1>2 DEF NewEntry
  <2>. QED BY <1>1, <1>3, <1>4, <2>2, <2>3 DEF IdFits
<1>6. ASSUME NEW l \in FridaKinds, l # k PROVE IdFits(l)'
  BY <1>0, <1>1, <1>3, <1>4, <1>6, IdsKept
<1>. QED BY <1>1, <1>3, <1>5, <1>6 DEF RecordedWell

\* Steps that do not lead to a step of a start.
LEMMA OutsideStarts ==
  ASSUME Shape, [Next]_fridaVars, pc' \notin StartLabels
  PROVE  StartFits'
<1>0. SoFar'
  BY DEF SoFar, StartLabels
<1>1. CASE op'.ids = NoEntryIds
  <2>1. \A k \in FridaKinds : IdFits(k)'
    BY <1>1, KindFacts DEF IdFits
  <2>. QED BY <1>0, <2>1, StartFitsParts DEF StartFits, IdFits, SoFar
<1>2. CASE op.on \in Sessions /\ op'.on = op.on /\ MakesFit
  <2>1. \A k \in FridaKinds : IdFits(k)'
    BY <1>2, MakesKept
  <2>. QED BY <1>0, <2>1 DEF StartFits, IdFits, SoFar
<1>3. op'.ids = NoEntryIds \/ (op.on \in Sessions /\ op'.on = op.on /\ MakesFit)
  <2>0. pc # "idle" => op.on \in Sessions
    BY ShapeParts
  <2>1. Returned => op'.ids = NoEntryIds
    BY DEF Returned, NoOp
  <2>2. \A s \in Sessions : Calls(s) => op'.ids = NoEntryIds
    BY DEF Calls, Begun
  <2>3. UNCHANGED <<pc, op>> /\ pc = "idle" => op'.ids = NoEntryIds
    BY DEF Shape, OpFits, NoOp
  <2>4. UNCHANGED <<pc, op>> => MakesFit /\ op'.on = op.on
    BY DEF MakesFit
  <2>5. Rolls \/ Drops \/ Activates \/ Cleans => pc # "idle" /\ MakesFit /\ op'.on = op.on
    BY DEF Rolls, Drops, Activates, Cleans, Goes, MakesFit, StartLabels
  <2>6. RollsOn \/ StopsOn \/ CleansOn \/ Decides \/ Applies \/ Marks \/ Registers => pc # "idle" /\ MakesFit /\ op'.on = op.on
    BY DEF RollsOn, StopsOn, CleansOn, Decides, Applies, Marks, Registers, Walks, SameSoFar, MakesFit
  <2>7. ~StartsOn
    BY DEF StartsOn
  <2>. QED BY <2>0, <2>1, <2>2, <2>3, <2>4, <2>5, <2>6, <2>7, OpSteps DEF OpStep
<1>. QED BY <1>1, <1>2, <1>3

\* Steps that lead to a step of a start.
LEMMA InsideStarts ==
  ASSUME Shape, [Next]_fridaVars, pc' \in StartLabels
  PROVE  StartFits'
<1>0. /\ StartFits /\ SoFar /\ op \in Ops /\ (pc # "idle" => op.on \in Sessions)
      /\ op.ids \in [FridaKinds -> 0..MaxActions] /\ FridaKinds = {"file", "server", "client"}
  BY ShapeParts, StartFitsParts, KindFacts DEF Shape, Ops
<1>. SUFFICES (\A k \in FridaKinds : IdFits(k)') /\ SoFar'
  BY DEF StartFits, IdFits, SoFar
<1>1. ASSUME pc \in StartLabels, op'.on = op.on, MakesFit, SoFar' PROVE (\A k \in FridaKinds : IdFits(k)') /\ SoFar'
  BY <1>0, <1>1, MakesKept DEF StartLabels
<1>2. CASE UNCHANGED <<pc, op>>
  BY <1>0, <1>1, <1>2 DEF MakesFit, SoFar
<1>3. ASSUME NEW s \in Sessions, Calls(s) PROVE (\A k \in FridaKinds : IdFits(k)') /\ SoFar'
  <2>1. pc' = "probe" /\ op'.server = 0 /\ op'.client = 0 /\ ~op'.owned /\ op'.ids = NoEntryIds
    BY <1>3 DEF Calls, Begun, StartLabels
  <2>2. \A k \in FridaKinds : op'.ids[k] = 0
    BY <2>1, KindFacts
  <2>. QED BY <1>0, <2>1, <2>2 DEF IdFits, SoFar, StartLabels
<1>4. CASE StartProbe
  <2>1. /\ pc = "probe" /\ op'.on = op.on /\ op'.client = op.client /\ op'.ids = op.ids
        /\ \/ pc' = "popen" /\ op'.owned = op.owned
           \/ pc' = "recordFile" /\ op'.owned /\ op'.server = op.server
    BY <1>4, StartEffects DEF Makes, SameCall
  <2>2. op.ids["server"] = 0 /\ op.ids["client"] = 0 /\ op.ids["file"] = 0 /\ op.client = 0 /\ ~op.owned
    BY <1>0, <2>1 DEF SoFar, StartLabels, Ops
  <2>. QED BY <1>0, <1>1, <2>1, <2>2 DEF MakesFit, SoFar, StartLabels
<1>5. CASE StartPush
  <2>1. pc = "push" /\ pc' = "launch" /\ op' = op
    BY <1>5, StartEffects DEF Goes, StartLabels
  <2>. QED BY <1>0, <1>1, <2>1 DEF MakesFit, SoFar, StartLabels
<1>6. CASE StartLaunch
  <2>1. /\ pc = "launch" /\ pc' = "recordServer" /\ op'.on = op.on
        /\ op'.client = op.client /\ op'.owned = op.owned /\ op'.ids = op.ids
    BY <1>6, StartEffects DEF Goes, StartLabels, Makes, SameCall
  <2>. QED BY <1>0, <1>1, <2>1 DEF MakesFit, SoFar, StartLabels
<1>7. CASE StartIdentify
  <2>1. pc = "identify" /\ pc' = "popen" /\ op' = op
    BY <1>7, IdentifyEffect DEF StartLabels
  <2>. QED BY <1>0, <1>1, <2>1 DEF MakesFit, SoFar, StartLabels
<1>8. CASE StartClient
  <2>1. /\ pc = "popen" /\ pc' = "handshake" /\ op'.on = op.on /\ op'.server = op.server
        /\ op'.client = started + 1 /\ op'.owned = op.owned /\ op'.ids = op.ids
    BY <1>8, StartEffects DEF Makes, SameCall
  <2>2. started + 1 # 0
    BY DEF Shape, TypeOK, FridaDeviceTypeOK
  <2>. QED BY <1>0, <1>1, <2>1, <2>2 DEF MakesFit, SoFar, StartLabels
<1>9. CASE StartHandshake
  <2>1. pc = "handshake" /\ pc' = "recordClient" /\ op' = op
    BY <1>9, StartEffects DEF Goes, StartLabels
  <2>. QED BY <1>0, <1>1, <2>1 DEF MakesFit, SoFar, StartLabels
<1>10. ~Goes("rollback") /\ ~Goes("dropClient") /\ ~Returned
  BY DEF Goes, Returned, StartLabels
<1>11. Made("file") = 0 /\ Made("server") = op.server /\ Made("client") = op.client
  BY DEF Made
<1>12. CASE StartRecordFile
  <2>1. Records("file", 0, TRUE, "recordFile", "push") /\ pc = "recordFile"
    BY <1>12, RecordEffects, RecordCases
  <2>2. (\A k \in FridaKinds : IdFits(k)') /\ pc' = "push" /\ op'.server = op.server /\ op'.client = op.client
        /\ op'.owned = op.owned /\ op'.ids["file"] # 0 /\ op'.ids["server"] = op.ids["server"]
        /\ op'.ids["client"] = op.ids["client"]
    <3>1. "file" \in FridaKinds /\ "recordFile" \in StartLabels /\ 0 = Made("file")
      BY <1>0, <1>11 DEF StartLabels
    <3>2. RecordedWell("file", "push")
      BY <1>10, <2>1, <3>1, RecordFits
    <3>. QED BY <1>0, <3>2 DEF RecordedWell
  <2>. QED BY <1>0, <2>1, <2>2 DEF SoFar
<1>13. CASE StartRecordServer
  <2>1. Records("server", op.server, FALSE, "recordServer", "identify") /\ pc = "recordServer"
    BY <1>13, RecordEffects, RecordCases
  <2>2. (\A k \in FridaKinds : IdFits(k)') /\ pc' = "identify" /\ op'.server = op.server /\ op'.client = op.client
        /\ op'.owned = op.owned /\ op'.ids["server"] # 0 /\ op'.ids["file"] = op.ids["file"]
        /\ op'.ids["client"] = op.ids["client"]
    <3>1. "server" \in FridaKinds /\ "recordServer" \in StartLabels /\ op.server = Made("server")
      BY <1>0, <1>11 DEF StartLabels
    <3>2. RecordedWell("server", "identify")
      BY <1>10, <2>1, <3>1, RecordFits
    <3>. QED BY <1>0, <3>2 DEF RecordedWell
  <2>. QED BY <1>0, <2>1, <2>2 DEF SoFar, StartLabels
<1>14. CASE StartRecordClient
  <2>1. Records("client", op.client, TRUE, "recordClient", "running") /\ pc = "recordClient"
    BY <1>14, RecordEffects, RecordCases
  <2>2. (\A k \in FridaKinds : IdFits(k)') /\ pc' = "running" /\ op'.server = op.server /\ op'.client = op.client
        /\ op'.owned = op.owned /\ op'.ids["client"] # 0 /\ op'.ids["file"] = op.ids["file"]
        /\ op'.ids["server"] = op.ids["server"]
    <3>1. "client" \in FridaKinds /\ "recordClient" \in StartLabels /\ op.client = Made("client")
      BY <1>0, <1>11 DEF StartLabels
    <3>2. RecordedWell("client", "running")
      BY <1>10, <2>1, <3>1, RecordFits
    <3>. QED BY <1>0, <3>2 DEF RecordedWell
  <2>. QED BY <1>0, <2>1, <2>2 DEF SoFar, StartLabels
<1>15. StartStep => \/ StartProbe \/ StartRecordFile \/ StartPush \/ StartLaunch
                    \/ StartRecordServer \/ StartIdentify \/ StartClient \/ StartHandshake
                    \/ StartRecordClient
  <2>1. ~StartRefused /\ ~StartRunning /\ ~StartRaises /\ ~RollbackNothing /\ ~EndRollback /\ ~StartDropClient
    BY <1>10, StartEffects
  <2>2. ~BeginRollback
    BY BeginEffects DEF StartLabels
  <2>. QED BY <2>1, <2>2 DEF StartStep
<1>16. ~StopStep
  <2>1. ~StopEvidence /\ ~StopPersist /\ ~StopActivate /\ ~StopRaises
    BY StopEffects DEF StartLabels, Returned, Goes
  <2>2. ~StopBegin
    BY BeginEffects DEF StartLabels
  <2>. QED BY <2>1, <2>2 DEF StopStep
<1>17. ~CleanupStep /\ ~Crash
  BY StopEffects, BeginEffects DEF StartLabels, Returned, CleanupStep
<1>18. ~Decide /\ ~Apply
  BY DecideEffect, ApplyEffect DEF StartLabels
<1>19. ~Mark
  BY MarkStep DEF StartLabels, AfterActions
<1>20. Interference \/ UNCHANGED fridaVars => UNCHANGED <<pc, op>>
  BY DEF Interference, fridaVars
<1>21. ASSUME NEW s \in Sessions, StartLock(s) \/ StopLock(s) \/ CleanupLock(s) PROVE Calls(s)
  <2>1. UNCHANGED observer
    BY <1>21 DEF StartLock, StopLock, CleanupLock
  <2>2. StopLock(s) => observer[s].status # "none"
    BY DEF StopLock
  <2>. QED BY <1>21, <2>1, <2>2, Locks DEF Calls
<1>22. OperationStep => \/ StartProbe \/ StartRecordFile \/ StartPush \/ StartLaunch
                        \/ StartRecordServer \/ StartIdentify \/ StartClient \/ StartHandshake
                        \/ StartRecordClient
  BY <1>15, <1>16, <1>17, <1>18, <1>19 DEF OperationStep
<1>23. OperationStep => (\A k \in FridaKinds : IdFits(k)') /\ SoFar'
  BY <1>4, <1>5, <1>6, <1>7, <1>8, <1>9, <1>12, <1>13, <1>14, <1>22, Zenon
<1>24. (\E s \in Sessions : Calls(s)) \/ UNCHANGED <<pc, op>> => (\A k \in FridaKinds : IdFits(k)') /\ SoFar'
  BY <1>2, <1>3, Zenon
<1>25. (\E s \in Sessions : Calls(s)) \/ UNCHANGED <<pc, op>> \/ OperationStep
  BY <1>17, <1>20, <1>21, Zenon DEF Next
<1>. QED BY <1>23, <1>24, <1>25

\* Shape holds at first.
LEMMA ShapeInit == ASSUME Init PROVE Shape
<1>1. FridaDeviceTypeOK
  <2>1. servers = {} /\ clients = {} /\ file = {} /\ occupied = {} /\ started = 0 /\ outside = 0 /\ stray = FALSE
    BY DEF Init, FridaDeviceInit
  <2>2. 0 \in 0..MaxProcs /\ 0 \in 0..MaxOutside
    BY Constants
  <2>. QED BY <2>1, <2>2, Zenon DEF FridaDeviceTypeOK
<1>. USE Constants, KindFacts
<1>2. NoObserver \in Observers /\ NoObserver.status = "none"
  BY DEF NoObserver, Observers
<1>3. ledger \in [Sessions -> Seq(Entries)] /\ \A s \in Sessions : Len(ledger[s]) = 0 /\ DOMAIN ledger[s] = {}
  BY DEF Init
<1>4. TypeOK
  BY <1>1, <1>2, <1>3, NoOpFacts DEF Init, TypeOK, FridaLabels
<1>5. OpFits
  BY DEF Init, OpFits, NoOp, StartLabels, RollbackLabels, StopLabels, CleanupLabels, ExecutingLabels
<1>6. StartFits
  BY DEF Init, StartFits, NoOp, StartLabels
<1>7. ObserverFits
  BY <1>2 DEF Init, ObserverFits
<1>. QED BY <1>3, <1>4, <1>5, <1>6, <1>7 DEF Shape, LedgersOK

\* Every step keeps Shape.
LEMMA ShapeStep == ASSUME Shape, [Next]_fridaVars PROVE Shape'
<1>1. TypeOK'
  BY DeviceTypes, SmallTypes, OpTypes, LedgerStep DEF TypeOK, LedgersFit, Statuses
<1>2. StartFits'
  BY InsideStarts, OutsideStarts
<1>. QED BY <1>1, <1>2, OpFitsStep, ObserverFitsStep, LedgerStep DEF Shape, LedgersFit

(***************************************************************************)
(* Processes                                                               *)
(***************************************************************************)
\* Numbers are handed out once: those of servers, clients and occupied PIDs
\* are apart, and none is beyond the count.
Numbers ==
  /\ \A x \in servers : x.id <= started /\ x.id \notin clients /\ x.id \notin occupied
  /\ \A x, y \in servers : x.id = y.id => x = y
  /\ \A n \in clients : n <= started /\ n \notin occupied
  /\ \A n \in occupied : n <= started

\* What a step may do to the processes: those that come are new, ...
NewServer(x) ==
  /\ x = [id |-> started + 1, by |-> x.by] /\ started' = started + 1
  /\ \/ pc = "launch" /\ pc' # pc /\ StartLaunch /\ x.by = op.on
     \/ pc' = pc /\ outside' = outside + 1 /\ Interference /\ x.by = Outsider
NewClient(n) == n = started + 1 /\ started' = started + 1 /\ pc = "popen" /\ pc' # pc /\ StartClient
\* ... those that go were killed or are gone without the framework, ...
KilledBy(n) ==
  \/ pc = "apply" /\ Apply /\ Action.kind # "file" /\ n = Action.proc
  \/ pc = "dropClient" /\ StartDropClient /\ op.ids["client"] = 0 /\ n = op.client /\ n \in clients
ProcessStep ==
  /\ started \in Nat /\ started' \in Nat /\ started' \in {started, started + 1}
  /\ \A x \in servers' : x \in servers \/ NewServer(x)
  /\ \A n \in clients' : n \in clients \/ NewClient(n)
  /\ \A x \in servers : x \in servers' \/ KilledBy(x.id) \/ (outside' = outside + 1 /\ Interference)
  /\ \A n \in clients : n \in clients' \/ KilledBy(n) \/ (outside' = outside + 1 /\ Interference)
  /\ outside' \in {outside, outside + 1} /\ outside \in Nat
  /\ outside' # outside => Interference

\* Every step starts and ends processes in these ways only.
LEMMA ProcessSteps == ASSUME Shape, [Next]_fridaVars PROVE ProcessStep
<1>0. /\ servers \subseteq [id : 1..MaxProcs, by : Sessions \cup {Outsider}] /\ clients \subseteq 1..MaxProcs
      /\ started \in Nat /\ outside \in Nat
  BY Constants DEF Shape, TypeOK, FridaDeviceTypeOK, FridaIds
<1>. USE DEF ProcessStep
<1>1. CASE UNCHANGED fridaDeviceVars
  BY <1>0, <1>1 DEF fridaDeviceVars
<1>2. CASE pc = "push" /\ StartPush
  <2>1. PICK took \in BOOLEAN : PutFile(op.on, took)
    BY <1>2, CallEffects
  <2>. QED BY <1>0, <2>1 DEF PutFile
<1>3. CASE pc = "launch" /\ StartLaunch
  <2>1. PICK took \in BOOLEAN : LaunchServer(op.on, took)
    BY <1>3, CallEffects
  <2>2. /\ UNCHANGED <<clients, outside>>
        /\ \/ started' = started + 1 /\ servers' = servers \cup {[id |-> started + 1, by |-> op.on]}
           \/ UNCHANGED <<started, servers>>
    BY <2>1 DEF LaunchServer
  <2>3. pc' # pc
    BY <1>3, StartEffects DEF Goes
  <2>. QED BY <1>0, <1>3, <2>2, <2>3 DEF NewServer
<1>4. CASE pc = "popen" /\ StartClient
  <2>1. LaunchClient
    BY <1>4, CallEffects
  <2>2. pc' # pc
    BY <1>4, StartEffects
  <2>. QED BY <1>0, <1>4, <2>1, <2>2 DEF LaunchClient, NewClient
<1>5. ASSUME NEW n, NEW took \in BOOLEAN, Kill(n, took)
      PROVE  /\ UNCHANGED <<started, outside>> /\ servers' \subseteq servers /\ clients' \subseteq clients
             /\ \A x \in servers : x \in servers' \/ x.id = n
             /\ \A m \in clients : m \in clients' \/ m = n
  BY <1>5 DEF Kill
<1>6. CASE pc = "dropClient" /\ StartDropClient
  <2>. DEFINE n == IF op.ids["client"] = 0 /\ op.client \in clients THEN op.client ELSE 0
  <2>1. CASE Kill(n, TRUE)
    <3>1. /\ UNCHANGED <<started, outside>> /\ servers' \subseteq servers /\ clients' \subseteq clients
          /\ \A x \in servers : x \in servers' \/ x.id = n
          /\ \A m \in clients : m \in clients' \/ m = n
      BY <1>5, <2>1
    <3>2. n = 0 \/ (op.ids["client"] = 0 /\ n = op.client /\ op.client \in clients)
      OBVIOUS
    <3>. HIDE DEF n
    <3>3. 0 \notin clients /\ \A x \in servers : x.id # 0
      BY <1>0
    <3>. QED BY <1>0, <1>6, <3>1, <3>2, <3>3 DEF KilledBy
  <2>. HIDE DEF ProcessStep
  <2>. QED BY <1>1, <1>6, <2>1, CallEffects
<1>7. CASE pc = "apply" /\ Apply
  <2>1. ASSUME NEW took \in BOOLEAN, Effect(Action, took) PROVE ProcessStep
    <3>1. CASE Action.kind = "file"
      BY <1>0, <2>1, <3>1 DEF Effect, RemoveFile
    <3>2. CASE Action.kind # "file"
      <4>1. Kill(Action.proc, took)
        BY <2>1, <3>2 DEF Effect
      <4>2. /\ UNCHANGED <<started, outside>> /\ servers' \subseteq servers /\ clients' \subseteq clients
            /\ \A x \in servers : x \in servers' \/ x.id = Action.proc
            /\ \A m \in clients : m \in clients' \/ m = Action.proc
        BY <1>5, <4>1
      <4>. QED BY <1>0, <1>7, <3>2, <4>2 DEF KilledBy
    <3>. QED BY <3>1, <3>2
  <2>. HIDE DEF ProcessStep
  <2>. QED BY <1>1, <1>7, <2>1, CallEffects
<1>8. CASE Interference
  <2>0. FridaEnvironment /\ pc' = pc
    BY <1>8, CallEffects DEF Interference
  <2>1. CASE OutsiderStartsServer
    BY <1>0, <1>8, <2>0, <2>1 DEF OutsiderStartsServer, Happens, NewServer
  <2>2. ASSUME NEW x \in servers, ServerExits(x) PROVE ProcessStep
    BY <1>0, <1>8, <2>2 DEF ServerExits, Happens
  <2>3. ASSUME NEW n \in clients, ClientExits(n) PROVE ProcessStep
    BY <1>0, <1>8, <2>3 DEF ClientExits, Happens
  <2>4. ASSUME NEW taken \in SUBSET {x.id : x \in servers}, Reboot(taken) PROVE ProcessStep
    <3>1. servers' = {} /\ UNCHANGED <<clients, started>> /\ outside' = outside + 1
      BY <2>4, Zenon DEF Reboot, Happens
    <3>. QED BY <1>0, <1>8, <3>1
  <2>5. ASSUME NEW n \in FridaIds, FridaPidReused(n) PROVE ProcessStep
    BY <1>0, <1>8, <2>5 DEF FridaPidReused, Happens
  <2>. HIDE DEF ProcessStep
  <2>6. /\ \A x \in servers : ServerExits(x) => ProcessStep
        /\ \A n \in clients : ClientExits(n) => ProcessStep
        /\ \A taken \in SUBSET {x.id : x \in servers} : Reboot(taken) => ProcessStep
        /\ \A n \in FridaIds : FridaPidReused(n) => ProcessStep
    BY <2>2, <2>3, <2>4, <2>5
  <2>. QED BY <2>0, <2>1, <2>6, Zenon DEF FridaEnvironment
<1>. QED BY <1>1, <1>2, <1>3, <1>4, <1>6, <1>7, <1>8, DeviceSteps DEF DeviceStep

\* A PID is handed out again only after its process ended.
OccupiedStep ==
  \A n \in occupied' : n \in occupied \/ (n <= started /\ n \notin clients' /\ (\A x \in servers' : x.id # n))
\* A PID that is handed out anew belongs to a process that is gone.
LEMMA OccupiedSteps == ASSUME Shape, Numbers, [Next]_fridaVars PROVE OccupiedStep
<1>. USE DEF OccupiedStep
<1>0. started \in Nat
  BY Constants DEF Shape, TypeOK, FridaDeviceTypeOK
<1>1. CASE Interference
  <2>0. FridaEnvironment
    BY <1>1, CallEffects
  <2>1. CASE OutsiderStartsServer
    BY <2>1 DEF OutsiderStartsServer
  <2>2. ASSUME NEW x \in servers, ServerExits(x) PROVE OccupiedStep
    BY <2>2 DEF ServerExits
  <2>3. ASSUME NEW n \in clients, ClientExits(n) PROVE OccupiedStep
    BY <2>3 DEF ClientExits
  <2>4. ASSUME NEW taken \in SUBSET {x.id : x \in servers}, Reboot(taken) PROVE OccupiedStep
    <3>1. servers' = {} /\ UNCHANGED <<clients, started>> /\ occupied' = occupied \cup taken
      BY <2>4, Zenon DEF Reboot
    <3>2. \A n \in taken : \E x \in servers : n = x.id
      BY <2>4
    <3>. QED BY <1>0, <3>1, <3>2 DEF Numbers
  <2>5. ASSUME NEW n \in FridaIds, FridaPidReused(n) PROVE OccupiedStep
    BY <1>0, <2>5, Constants DEF FridaPidReused, Running, Serving, FridaIds
  <2>. HIDE DEF OccupiedStep
  <2>6. /\ \A x \in servers : ServerExits(x) => OccupiedStep
        /\ \A n \in clients : ClientExits(n) => OccupiedStep
        /\ \A taken \in SUBSET {x.id : x \in servers} : Reboot(taken) => OccupiedStep
        /\ \A n \in FridaIds : FridaPidReused(n) => OccupiedStep
    BY <2>2, <2>3, <2>4, <2>5
  <2>. QED BY <2>0, <2>1, <2>6, Zenon DEF FridaEnvironment
<1>2. \A n, took : Kill(n, took) => UNCHANGED occupied
  BY DEF Kill
<1>3. ~Interference => UNCHANGED occupied
  BY <1>2, DeviceSteps, CallEffects DEF DeviceStep, fridaDeviceVars, PutFile, LaunchServer, LaunchClient, Effect, RemoveFile
<1>. QED BY <1>1, <1>3

\* Every step keeps Numbers.
LEMMA NumbersStep == ASSUME Shape, Numbers, [Next]_fridaVars PROVE Numbers'
<1>0. started \in Nat /\ clients \subseteq Nat /\ occupied \subseteq Nat /\ (\A x \in servers : x.id \in Nat) /\ ProcessStep /\ OccupiedStep
  BY ProcessSteps, OccupiedSteps, Constants DEF Shape, TypeOK, FridaDeviceTypeOK, FridaIds
<1>1. \A x \in servers' : x \in servers \/ (x.id = started + 1 /\ started' = started + 1)
  BY <1>0 DEF ProcessStep, NewServer
<1>2. \A n \in clients' : n \in clients \/ (n = started + 1 /\ started' = started + 1)
  BY <1>0 DEF ProcessStep, NewClient
<1>3. \A x, n : ~(NewServer(x) /\ NewClient(n))
  BY DEF NewServer, NewClient
<1>4. \A n \in occupied' : n <= started /\ n \in Nat
                          /\ (n \in occupied \/ (n \notin clients' /\ \A x \in servers' : x.id # n))
  <2>1. occupied' \subseteq Nat
    BY DeviceTypes, Constants DEF FridaDeviceTypeOK, FridaIds
  <2>. QED BY <1>0, <2>1 DEF OccupiedStep, Numbers
<1>5. started' \in {started, started + 1}
  BY <1>0 DEF ProcessStep
<1>6. ASSUME NEW x \in servers' PROVE x.id <= started' /\ x.id \notin clients' /\ x.id \notin occupied'
  <2>1. CASE x \in servers
    <3>1. x.id <= started /\ x.id \notin clients /\ x.id \notin occupied /\ x.id \in Nat
      BY <1>0, <2>1 DEF Numbers
    <3>2. x.id <= started' /\ x.id \notin clients'
      BY <1>0, <1>2, <1>5, <3>1
    <3>3. x.id \notin occupied'
      BY <1>4, <3>1
    <3>. QED BY <3>2, <3>3
  <2>2. CASE NewServer(x)
    <3>1. x.id = started + 1 /\ started' = started + 1 /\ started + 1 \notin clients
      BY <1>0, <2>2 DEF Numbers, NewServer
    <3>2. \A n \in clients' : n \in clients
      BY <1>0, <1>3, <2>2 DEF ProcessStep
    <3>. QED BY <1>0, <1>4, <3>1, <3>2
  <2>. QED BY <1>0, <2>1, <2>2 DEF ProcessStep
<1>7. ASSUME NEW n \in clients' PROVE n <= started' /\ n \notin occupied'
  <2>1. n \in clients => n <= started /\ n \notin occupied
    BY DEF Numbers
  <2>2. n <= started'
    <3>1. n \in clients => n \in Nat /\ n <= started
      BY <1>0, <2>1
    <3>2. n \in clients \/ (n = started + 1 /\ started' = started + 1)
      BY <1>2
    <3>3. started \in Nat
      BY <1>0
    <3>. QED BY <1>5, <3>1, <3>2, <3>3
  <2>3. n \notin occupied'
    <3>1. \A m \in occupied' : m <= started /\ (m \in occupied \/ m \notin clients')
      BY <1>4
    <3>2. n \in occupied' => n \in occupied /\ n <= started
      BY <3>1
    <3>. QED BY <1>0, <1>2, <2>1, <3>2
  <2>. QED BY <2>2, <2>3
<1>8. \A x, y \in servers' : x.id = y.id => x = y
  <2>1. \A x, y : NewServer(x) /\ NewServer(y) => x = y
    BY <1>0 DEF NewServer
  <2>2. \A x, y : NewServer(x) /\ y \in servers => x.id # y.id
    BY <1>0 DEF NewServer, Numbers
  <2>. QED BY <1>0, <2>1, <2>2 DEF ProcessStep, Numbers
<1>9. \A n \in occupied' : n <= started'
  BY <1>0, <1>4, <1>5
<1>. QED BY <1>6, <1>7, <1>8, <1>9 DEF Numbers

(***************************************************************************)
(* What a start makes                                                      *)
(***************************************************************************)
\* What becomes of what a start has made.
Nothing == op'.server = 0 /\ op'.client = 0 /\ ~op'.owned /\ op'.ids = NoEntryIds /\ pc' \in {"idle", "probe", "stop", "cleanup"}
NoMore ==
  /\ op'.server = op.server /\ op'.client = op.client /\ op'.owned = op.owned /\ op'.on = op.on
  /\ pc' = "recordServer" => pc = "recordServer"
Uses ==
  /\ pc = "probe" /\ pc' = "popen" /\ UNCHANGED fridaDeviceVars /\ \E x \in servers : op'.server = x.id
  /\ op'.client = op.client /\ op'.owned = op.owned /\ op'.on = op.on /\ ~op.owned
Owns ==
  /\ pc = "probe" /\ pc' = "recordFile" /\ UNCHANGED fridaDeviceVars
  /\ op'.server = op.server /\ op.server = 0 /\ op'.client = op.client /\ op'.on = op.on
Launches ==
  /\ pc = "launch" /\ pc' = "recordServer" /\ StartLaunch /\ op'.server = started + 1 /\ started' = started + 1
  /\ servers' = servers \cup {[id |-> started + 1, by |-> op.on]} /\ UNCHANGED clients
  /\ op'.client = op.client /\ op'.owned = op.owned /\ op'.on = op.on
Runs ==
  /\ pc = "popen" /\ pc' = "handshake" /\ StartClient /\ op'.client = started + 1 /\ started' = started + 1
  /\ UNCHANGED servers /\ clients' = clients \cup {started + 1}
  /\ op'.server = op.server /\ op'.owned = op.owned /\ op'.on = op.on
MadeStep == Nothing \/ NoMore \/ Uses \/ Owns \/ Launches \/ Runs

\* Every step changes what a start has made in one of these ways.
LEMMA MadeSteps == ASSUME Shape, [Next]_fridaVars PROVE MadeStep
<1>. USE DEF MadeStep
<1>1. ASSUME StartsOn PROVE MadeStep
  <2>1. CASE StartProbe
    <3>1. UNCHANGED fridaDeviceVars
      BY <2>1 DEF StartProbe
    <3>2. pc = "probe" => ~op.owned /\ op.server = 0
      BY StartFitsParts DEF Shape, SoFar, StartLabels
    <3>. QED BY <2>1, <3>1, <3>2, StartEffects DEF Uses, Owns, Makes, SameCall
  <2>2. CASE StartLaunch
    <3>1. \/ /\ servers' = servers \cup {[id |-> started + 1, by |-> op.on]} /\ started' = started + 1
             /\ UNCHANGED clients
          \/ Goes("rollback")
      BY <2>2 DEF StartLaunch, LaunchServer, Goes
    <3>2. ~Goes("rollback")
      BY <1>1 DEF StartsOn, Goes, StartLabels
    <3>. QED BY <2>2, <3>1, <3>2, StartEffects DEF Launches, Makes, SameCall
  <2>3. CASE StartClient
    <3>1. LaunchClient
      BY <2>3, CallEffects
    <3>. QED BY <2>3, <3>1, StartEffects DEF Runs, Makes, SameCall, LaunchClient
  <2>4. ASSUME NEW k, NEW n, NEW b, NEW from, NEW to, Records(k, n, b, from, to), to # "recordServer" PROVE NoMore
    BY <2>4 DEF Records, NoMore, Makes, SameCall, Goes
  <2>5. StartRecordFile \/ StartRecordServer \/ StartRecordClient => NoMore
    <3>1. Records("file", 0, TRUE, "recordFile", "push") => NoMore
      BY <2>4
    <3>2. Records("server", op.server, FALSE, "recordServer", "identify") => NoMore
      BY <2>4
    <3>3. Records("client", op.client, TRUE, "recordClient", "running") => NoMore
      BY <2>4
    <3>. QED BY <3>1, <3>2, <3>3, RecordEffects
  <2>6. StartPush \/ StartHandshake \/ StartIdentify => NoMore
    BY StartEffects, IdentifyEffect DEF NoMore, Goes
  <2>7. Goes("rollback") \/ Goes("dropClient") => NoMore
    BY DEF Goes, NoMore
  <2>8. Returned => Nothing
    BY DEF Returned, Nothing, NoOp
  <2>9. StartRefused \/ StartRunning \/ StartRaises \/ RollbackNothing \/ EndRollback \/ StartDropClient => Nothing \/ NoMore
    BY <2>7, <2>8, StartEffects
  <2>10. ~BeginRollback
    BY <1>1, BeginEffects DEF StartsOn, StartLabels
  <2>11. StartStep => MadeStep
    BY <2>1, <2>2, <2>3, <2>5, <2>6, <2>9, <2>10 DEF StartStep
  <2>12. ~StopStep /\ ~CleanupStep /\ ~Decide /\ ~Apply /\ ~Mark
    <3>1. pc \in StartLabels
      BY <1>1 DEF StartsOn
    <3>2. ~StopBegin /\ ~StopEvidence /\ ~StopPersist /\ ~StopActivate /\ ~StopRaises
      BY <3>1, BeginEffects, StopEffects DEF StartLabels
    <3>. QED BY <3>1, <3>2, BeginEffects, StopEffects, DecideEffect, ApplyEffect, MarkStep DEF StartLabels, StopStep, CleanupStep
  <2>13. Crash => Nothing
    BY <2>8, StopEffects
  <2>14. ASSUME NEW s \in Sessions, StartLock(s) \/ StopLock(s) \/ CleanupLock(s) PROVE FALSE
    BY <1>1, <2>14, Locks DEF StartsOn, Begun, StartLabels
  <2>15. Interference \/ UNCHANGED fridaVars => NoMore
    BY DEF Interference, NoMore, fridaVars
  <2>. QED BY <2>11, <2>12, <2>13, <2>14, <2>15 DEF Next, OperationStep
<1>2. Returned => Nothing
  BY DEF Returned, Nothing, NoOp
<1>3. \A s \in Sessions : Calls(s) => Nothing
  BY DEF Calls, Begun, Nothing
<1>4. UNCHANGED <<pc, op>> => NoMore
  BY DEF NoMore
<1>5. Rolls \/ Drops \/ Activates \/ Cleans => NoMore
  BY DEF Rolls, Drops, Activates, Cleans, Goes, NoMore
<1>6. RollsOn \/ StopsOn \/ CleansOn \/ Decides \/ Applies \/ Marks \/ Registers => NoMore
  BY DEF RollsOn, StopsOn, CleansOn, Decides, Applies, Marks, Registers, Walks, SameSoFar, NoMore, AfterActions
<1>. QED BY <1>1, <1>2, <1>3, <1>4, <1>5, <1>6, OpSteps DEF OpStep

\* What an operation and state.json say of processes.
Names ==
  /\ op.server <= started /\ op.client <= started
  /\ op.server \notin clients /\ \A x \in servers : x.id # op.client
  /\ op.owned => \A x \in servers : x.id = op.server => x.by = op.on
  /\ \A s \in Sessions : observer[s].server <= started
  /\ pc = "recordServer" => \A t \in Sessions : observer[t].server # op.server

\* What a ledger says of processes.
EntryFits(s, i) ==
  /\ ledger[s][i].proc <= started
  /\ ledger[s][i].kind = "file" => ledger[s][i].proc = 0
  /\ ledger[s][i].kind = "server" =>
       ledger[s][i].proc \notin clients /\ \A x \in servers : x.id = ledger[s][i].proc => x.by = s
  /\ ledger[s][i].kind = "client" => \A x \in servers : x.id # ledger[s][i].proc
\* All entries fit.
EntriesFit == \A s \in Sessions : \A i \in Indices(s) : EntryFits(s, i)

\* state.json changes its server only when a start succeeds.
LEMMA ObserverServers ==
  ASSUME Shape, [Next]_fridaVars
  PROVE  \A s \in Sessions : observer'[s].server = observer[s].server
                             \/ (pc = "running" /\ s = op.on /\ observer'[s].server = op.server)
<1>0. observer \in [Sessions -> Observers]
  BY ShapeParts
<1>1. RunningObserver.server = op.server
  BY DEF RunningObserver
<1>2. \A o \in Observers : \A v, r : StoppedObserver(o, v, r).server = o.server
  BY DEF StoppedObserver, Observers
<1>3. ASSUME NEW v, NEW r, observer' = [observer EXCEPT ![op.on] = StoppedObserver(@, v, r)]
      PROVE  \A s \in Sessions : observer'[s].server = observer[s].server
  BY <1>0, <1>2, <1>3
<1>. QED BY <1>0, <1>1, <1>3, ObserverSteps DEF ObserverStep

\* Processes have positive numbers.
LEMMA NumberTypes ==
  ASSUME Shape
  PROVE  /\ started \in Nat /\ clients \subseteq Nat \ {0} /\ \A x \in servers : x.id \in Nat \ {0}
         /\ op.server \in Nat /\ op.client \in Nat /\ \A s \in Sessions : observer[s].server \in Nat
         /\ \A s \in Sessions : \A i \in Indices(s) : ledger[s][i].proc \in Nat
<1>1. started \in Nat /\ clients \subseteq Nat \ {0} /\ \A x \in servers : x.id \in Nat \ {0}
  BY Constants DEF Shape, TypeOK, FridaDeviceTypeOK, FridaIds
<1>2. op.server \in 0..MaxProcs /\ op.client \in 0..MaxProcs
  BY ShapeParts DEF Ops
<1>3. \A s \in Sessions : observer[s].server \in 0..MaxProcs
  BY ShapeParts DEF Observers
<1>4. \A s \in Sessions : \A i \in Indices(s) : ledger[s][i].proc \in 0..MaxProcs
  BY LedgerFacts DEF Entries
<1>. QED BY <1>1, <1>2, <1>3, <1>4, Constants

\* A step that makes no process of the framework disturbs none of this.
LEMMA NewProcesses ==
  ASSUME Shape, Numbers, [Next]_fridaVars, NEW n \in Nat, n <= started
  PROVE  /\ n <= started'
         /\ n \notin clients => n \notin clients'
         /\ \A x \in servers' : x.id = n => x \in servers
<1>1. started \in Nat /\ started' \in {started, started + 1}
  BY NumberTypes, ProcessSteps DEF ProcessStep
<1>2. \A m \in clients' : m \in clients \/ m = started + 1
  BY ProcessSteps DEF ProcessStep, NewClient
<1>3. \A x \in servers' : x \in servers \/ x.id = started + 1
  BY ProcessSteps DEF ProcessStep, NewServer
<1>. QED BY <1>1, <1>2, <1>3

\* Every step keeps Names.
LEMMA NamesStep == ASSUME Shape, Numbers, Names, [Next]_fridaVars PROVE Names'
<1>0. /\ started \in Nat /\ started' \in {started, started + 1} /\ op.server \in Nat /\ op.client \in Nat
      /\ \A s \in Sessions : observer[s].server \in Nat
  BY NumberTypes, ProcessSteps DEF ProcessStep
<1>1. /\ op.server <= started' /\ op.client <= started' /\ op.server \notin clients'
      /\ \A x \in servers' : x.id # op.client
      /\ op.owned => \A x \in servers' : x.id = op.server => x.by = op.on
  BY <1>0, NewProcesses DEF Names
<1>2. \A s \in Sessions : observer'[s].server <= started'
  BY <1>0, ObserverServers DEF Names
<1>3. 0 \notin clients' /\ (\A x \in servers' : x.id # 0) /\ 0 <= started'
  BY <1>0, DeviceTypes, Constants DEF FridaDeviceTypeOK, FridaIds
<1>4. CASE Nothing
  BY <1>2, <1>3, <1>4 DEF Nothing, Names
<1>5. CASE NoMore
  <2>1. pc' = "recordServer" => \A t \in Sessions : observer'[t].server # op.server
    BY <1>5, ObserverServers DEF NoMore, Names
  <2>. QED BY <1>1, <1>2, <1>5, <2>1 DEF NoMore, Names
<1>6. CASE Uses
  <2>1. PICK x \in servers : op'.server = x.id
    BY <1>6 DEF Uses
  <2>2. x.id <= started /\ x.id \notin clients /\ UNCHANGED <<started, clients>>
    BY <1>6, <2>1 DEF Uses, fridaDeviceVars, Numbers
  <2>. QED BY <1>1, <1>2, <1>6, <2>1, <2>2 DEF Uses, Names
<1>7. CASE Owns
  BY <1>1, <1>2, <1>3, <1>7 DEF Owns, Names
<1>8. CASE Launches
  <2>1. /\ op'.server = started' /\ started' = started + 1 /\ UNCHANGED clients
        /\ servers' = servers \cup {[id |-> started + 1, by |-> op.on]} /\ op'.on = op.on /\ op'.client = op.client
        /\ op'.owned = op.owned
    BY <1>8 DEF Launches
  <2>2. started + 1 \notin clients /\ \A x \in servers : x.id # started + 1
    BY <1>0 DEF Numbers
  <2>3. \A t \in Sessions : observer'[t].server # started + 1
    BY <1>0, ObserverServers DEF Names
  <2>. QED BY <1>0, <1>1, <1>2, <2>1, <2>2, <2>3 DEF Names
<1>9. CASE Runs
  <2>1. /\ op'.client = started' /\ started' = started + 1 /\ UNCHANGED servers
        /\ op'.server = op.server /\ op'.owned = op.owned /\ op'.on = op.on /\ pc' # "recordServer"
    BY <1>9 DEF Runs
  <2>2. \A x \in servers : x.id # started + 1
    BY <1>0 DEF Numbers
  <2>. QED BY <1>0, <1>1, <1>2, <2>1, <2>2 DEF Names
<1>. QED BY <1>4, <1>5, <1>6, <1>7, <1>8, <1>9, MadeSteps DEF MadeStep

\* Every step keeps EntriesFit.
LEMMA EntriesFitStep == ASSUME Shape, Numbers, Names, EntriesFit, [Next]_fridaVars PROVE EntriesFit'
<1>. SUFFICES ASSUME NEW s \in Sessions, NEW i \in Indices(s)' PROVE EntryFits(s, i)'
  BY DEF EntriesFit
<1>. DEFINE e == ledger[s][i]
            f == ledger'[s][i]
<1>1. CASE i \in Indices(s) /\ f.kind = e.kind /\ f.proc = e.proc
  <2>1. EntryFits(s, i) /\ e.proc \in Nat
    BY <1>1, NumberTypes DEF EntriesFit
  <2>2. /\ e.proc <= started' /\ (e.proc \notin clients => e.proc \notin clients')
        /\ \A x \in servers' : x.id = e.proc => x \in servers
    BY <2>1, NewProcesses DEF EntryFits
  <2>. QED BY <1>1, <2>1, <2>2 DEF EntryFits
<1>2. CASE Added(s, i)
  <2>1. \/ pc = "recordFile" /\ StartRecordFile /\ f.kind = "file" /\ f.proc = 0
        \/ pc = "recordServer" /\ StartRecordServer /\ f.kind = "server" /\ f.proc = op.server
        \/ pc = "recordClient" /\ StartRecordClient /\ f.kind = "client" /\ f.proc = op.client
    BY <1>2 DEF Added, NewEntry
  <2>2. UNCHANGED fridaDeviceVars
    BY <2>1 DEF StartRecordFile, StartRecordServer, StartRecordClient, StartRecord
  <2>3. pc = "recordServer" => op.owned
    BY StartFitsParts DEF Shape, SoFar
  <2>4. started \in Nat /\ s = op.on
    BY <1>2, NumberTypes DEF Added
  <2>. QED BY <2>1, <2>2, <2>3, <2>4 DEF EntryFits, Names, fridaDeviceVars
<1>. QED BY <1>1, <1>2, EntrySteps DEF EntryStep, Marked, Completed

(***************************************************************************)
(* Actions in hand, and settled actions                                    *)
(***************************************************************************)
\* How an action comes to be in hand, or stays there.
LEMMA HandedOn ==
  ASSUME Shape, [Next]_fridaVars, pc' \in {"apply", "mark"}
  PROVE  Decide \/ Apply \/ (Interference /\ UNCHANGED <<status, ledger, observer, pc, op, faults, crashes, spared>>)
         \/ UNCHANGED fridaVars
<1>1. ~Returned /\ ~(pc' \in StartLabels)
  BY DEF Returned, StartLabels
<1>2. \A s \in Sessions : ~StartLock(s) /\ ~StopLock(s) /\ ~CleanupLock(s)
  BY Locks
<1>3. ~StartProbe /\ ~StartRefused /\ ~StartPush /\ ~StartLaunch /\ ~StartClient /\ ~StartHandshake
      /\ ~StartRunning /\ ~StartRaises /\ ~RollbackNothing /\ ~EndRollback /\ ~StartDropClient
  BY <1>1, StartEffects DEF Goes
<1>4. ~StartRecordFile /\ ~StartRecordServer /\ ~StartRecordClient
  BY RecordEffects DEF Records, Goes
<1>5. ~StartIdentify
  BY IdentifyEffect
<1>6. ~BeginRollback /\ ~StopBegin /\ ~BeginCleanup
  BY BeginEffects
<1>7. ~StopEvidence /\ ~StopPersist /\ ~StopActivate /\ ~StopRaises /\ ~ReturnCleaned /\ ~EndCleanup /\ ~Crash
  BY <1>1, StopEffects DEF Goes
<1>8. ~Mark
  BY MarkStep DEF AfterActions
<1>9. Interference => UNCHANGED <<status, ledger, observer, pc, op, faults, crashes, spared>>
  BY DEF Interference
<1>. QED BY <1>2, <1>3, <1>4, <1>5, <1>6, <1>7, <1>8, <1>9
     DEF Next, OperationStep, StartStep, StopStep, CleanupStep

\* Process n does not run, and does not run after the step.
Absent(n) == n \notin clients /\ \A x \in servers : x.id # n
AbsentNext(n) == n \notin clients' /\ \A x \in servers' : x.id # n

\* A process is absent when it does not run.
LEMMA Absence == /\ \A n : Running(n) <=> ~Absent(n)
                 /\ \A n : Running(n)' <=> ~AbsentNext(n)
                 /\ \A n : Absent(n)' <=> AbsentNext(n)
  BY DEF Running, Serving, Absent, AbsentNext

\* A process that was started before and is gone does not come back.
LEMMA StaysAbsent ==
  ASSUME Shape, Numbers, [Next]_fridaVars, NEW n \in Nat, n <= started, Absent(n)
  PROVE  AbsentNext(n)
  BY NewProcesses DEF Absent, AbsentNext

\* The process of an action of kind k is gone, or is a client that passed for ended.
Over(k, n) == Absent(n) \/ (k = "client" /\ n \in spared)
OverNext(k, n) == AbsentNext(n) \/ (k = "client" /\ n \in spared')

\* What is over stays over.
LEMMA StaysOver ==
  ASSUME Shape, Numbers, [Next]_fridaVars, NEW k, NEW n \in Nat, n <= started, Over(k, n)
  PROVE  OverNext(k, n)
  BY StaysAbsent, SmallTypes DEF Over, OverNext

\* A verdict that settles an action is true of the device, and a kill about to
\* be made goes to no process of somebody else.
GivenBack ==
  /\ pc = "mark" /\ op.verdict \in Settled =>
       /\ Action.kind # "file" => Over(Action.kind, Action.proc)
       /\ Action.kind = "file" /\ faults = 0 => op.on \notin file
  /\ pc = "apply" /\ Action.kind # "file" => Action.proc \notin occupied

\* Every step keeps GivenBack.
LEMMA GivenBackStep == ASSUME Shape, Numbers, EntriesFit, GivenBack, [Next]_fridaVars PROVE GivenBack'
<1>1. CASE pc' \notin {"apply", "mark"}
  BY <1>1 DEF GivenBack
<1>2. CASE Decide
  <2>1. /\ op.on \in Sessions /\ op'.on = op.on /\ ledger' = ledger /\ UNCHANGED fridaDeviceVars /\ op'.current \in op.todo
        /\ \E e \in Entries : e = ledger[op.on][op'.current] /\
              \/ op'.verdict = "failed" /\ pc' = "mark" /\ UNCHANGED <<faults, crashes, spared>>
              \/ Verdict(e) = "apply" /\ op'.verdict = "completed" /\ pc' = "apply" /\ UNCHANGED <<faults, crashes, spared>>
              \/ Verdict(e) # "apply" /\ op'.verdict = Verdict(e) /\ pc' = "mark" /\ UNCHANGED <<faults, crashes, spared>>
              \/ op'.verdict \in FailedRead(e) /\ pc' = "mark" /\ Fault
              \/ e.kind = "client" /\ pc' = "mark" /\ Spare(e.proc)
    <3>1. pc = "next"
      BY <1>2, DecideEffect
    <3>. QED BY <1>2, <3>1, DecideEffect, ShapeParts DEF Walks, SameSoFar
  <2>2. PICK e \in Entries : e = ledger[op.on][op'.current] /\
              \/ op'.verdict = "failed" /\ pc' = "mark" /\ UNCHANGED <<faults, crashes, spared>>
              \/ Verdict(e) = "apply" /\ op'.verdict = "completed" /\ pc' = "apply" /\ UNCHANGED <<faults, crashes, spared>>
              \/ Verdict(e) # "apply" /\ op'.verdict = Verdict(e) /\ pc' = "mark" /\ UNCHANGED <<faults, crashes, spared>>
              \/ op'.verdict \in FailedRead(e) /\ pc' = "mark" /\ Fault
              \/ e.kind = "client" /\ pc' = "mark" /\ Spare(e.proc)
    BY <2>1
  <2>3. Action' = e
    BY <2>1, <2>2 DEF Action
  <2>4. (e.kind # "file" /\ Verdict(e) = "apply") => e.proc \notin occupied
    <3>1. e.kind # "file" /\ Verdict(e) = "apply" => Running(e.proc)
      BY DEF Verdict, ProcessVerdict
    <3>2. \A n : Running(n) => n \notin occupied
      BY DEF Numbers, Running, Serving
    <3>. QED BY <3>1, <3>2
  <2>5. (e.kind # "file" /\ Verdict(e) \in Settled) => Absent(e.proc)
    <3>1. e.kind # "file" /\ Verdict(e) \in Settled => ~Running(e.proc)
      BY DEF Verdict, ProcessVerdict, Settled
    <3>. QED BY <3>1, Absence
  <2>6. (e.kind = "file" /\ Verdict(e) # "apply") => op.on \notin file
    BY DEF Verdict
  <2>7. e.kind # "file" /\ op'.verdict \in FailedRead(e) => op'.verdict \notin Settled
    BY DEF FailedRead, Settled
  <2>8. Fault => faults' # 0
    BY DEF Fault, Shape, TypeOK
  <2>9. UNCHANGED <<servers, clients, occupied, file>>
    BY <2>1 DEF fridaDeviceVars
  <2>10. /\ Absent(e.proc) => OverNext(e.kind, e.proc)
         /\ e.kind = "client" /\ Spare(e.proc) => OverNext(e.kind, e.proc)
    BY <2>9 DEF Absent, AbsentNext, OverNext, Spare
  <2>11. "failed" \notin Settled /\ "apply" \notin Settled
    BY DEF Settled
  <2>12. pc' = "mark" /\ op'.verdict \in Settled =>
           /\ Action'.kind # "file" => OverNext(Action'.kind, Action'.proc)
           /\ Action'.kind = "file" /\ faults' = 0 => op'.on \notin file'
    BY <2>1, <2>2, <2>3, <2>5, <2>6, <2>7, <2>8, <2>9, <2>10, <2>11
  <2>13. pc' = "apply" /\ Action'.kind # "file" => Action'.proc \notin occupied'
    BY <2>2, <2>3, <2>4, <2>9
  <2>. QED BY <2>12, <2>13 DEF GivenBack, Over, OverNext, Absent, AbsentNext
<1>3. CASE Apply
  <2>1. /\ pc = "apply" /\ pc' = "mark" /\ ledger' = ledger /\ op'.on = op.on /\ op'.current = op.current
        /\ op'.verdict = "failed" \/ Effect(Action, TRUE) \/ (Action.kind = "client" /\ Spare(Action.proc))
    BY <1>3, ApplyEffect DEF Walks, SameSoFar
  <2>2. Action' = Action
    BY <2>1 DEF Action
  <2>3. /\ Effect(Action, TRUE) /\ Action.kind # "file" => OverNext(Action.kind, Action.proc)
        /\ Action.kind = "client" /\ Spare(Action.proc) => OverNext(Action.kind, Action.proc)
    BY DEF Effect, Kill, AbsentNext, OverNext, Spare
  <2>4. Effect(Action, TRUE) /\ Action.kind = "file" => op.on \notin file'
    BY DEF Effect, RemoveFile
  <2>5. "failed" \notin Settled
    BY DEF Settled
  <2>6. pc' = "mark" /\ op'.verdict \in Settled =>
           /\ Action'.kind # "file" => OverNext(Action'.kind, Action'.proc)
           /\ Action'.kind = "file" /\ faults' = 0 => op'.on \notin file'
    BY <2>1, <2>2, <2>3, <2>4, <2>5
  <2>. QED BY <2>1, <2>6 DEF GivenBack, Over, OverNext, Absent, AbsentNext
<1>4. CASE Interference /\ UNCHANGED <<status, ledger, observer, pc, op, faults, crashes, spared>> /\ pc' \in {"apply", "mark"}
  <2>1. Action' = Action /\ UNCHANGED <<pc, op, faults>>
    BY <1>4 DEF Action
  <2>2. op.on \in Sessions /\ op.current \in Indices(op.on) /\ Action = ledger[op.on][op.current]
    BY <1>4, InHand DEF ExecutingLabels, Action
  <2>3. Action.proc \in Nat /\ Action.proc <= started
    BY <2>2, NumberTypes DEF EntriesFit, EntryFits
  <2>4. Over(Action.kind, Action.proc) => OverNext(Action.kind, Action.proc)
    BY <2>3, StaysOver
  <2>5. UNCHANGED file
    BY <1>4 DEF Interference, FridaEnvironment, OutsiderStartsServer, ServerExits, ClientExits, Reboot, FridaPidReused
  <2>6. pc = "apply" => Action.proc \notin occupied' \ occupied
    BY <1>4 DEF Interference
  <2>7. pc' = "mark" /\ op'.verdict \in Settled =>
           /\ Action'.kind # "file" => OverNext(Action'.kind, Action'.proc)
           /\ Action'.kind = "file" /\ faults' = 0 => op'.on \notin file'
    BY <2>1, <2>4, <2>5 DEF GivenBack
  <2>8. pc' = "apply" /\ Action'.kind # "file" => Action'.proc \notin occupied'
    BY <2>1, <2>6 DEF GivenBack
  <2>. QED BY <2>7, <2>8 DEF GivenBack, Over, OverNext, Absent, AbsentNext
<1>5. CASE UNCHANGED fridaVars
  BY <1>5 DEF fridaVars, fridaDeviceVars, GivenBack, Over, Absent, Action
<1>. QED BY <1>1, <1>2, <1>3, <1>4, <1>5, HandedOn

\* A settled process is gone, or passed for ended.
SettledGone ==
  \A s \in Sessions : \A i \in Indices(s) :
    ledger[s][i].status \in Settled /\ ledger[s][i].kind # "file" => Over(ledger[s][i].kind, ledger[s][i].proc)

\* Every step keeps SettledGone.
LEMMA SettledGoneStep == ASSUME Shape, Numbers, EntriesFit, GivenBack, SettledGone, [Next]_fridaVars PROVE SettledGone'
<1>. SUFFICES ASSUME NEW s \in Sessions, NEW i \in Indices(s)', ledger'[s][i].status \in Settled, ledger'[s][i].kind # "file"
             PROVE OverNext(ledger'[s][i].kind, ledger'[s][i].proc)
  BY DEF SettledGone, Over, OverNext, Absent, AbsentNext
<1>1. CASE i \in Indices(s) /\ ledger[s][i].status \in Settled /\ ledger'[s][i].kind = ledger[s][i].kind
           /\ ledger'[s][i].proc = ledger[s][i].proc
  <2>1. Over(ledger[s][i].kind, ledger[s][i].proc) /\ ledger[s][i].proc \in Nat /\ ledger[s][i].proc <= started
    BY <1>1, NumberTypes DEF SettledGone, EntriesFit, EntryFits
  <2>. QED BY <1>1, <2>1, StaysOver
<1>2. CASE Marked(s, i)
  <2>1. /\ pc = "mark" /\ ledger[s][i] = Action /\ op.verdict \in Settled /\ Action.kind # "file"
        /\ ledger'[s][i].proc = Action.proc /\ ledger'[s][i].kind = Action.kind /\ i \in Indices(s)
    BY <1>2 DEF Marked, Action
  <2>2. Over(Action.kind, Action.proc) /\ Action.proc \in Nat /\ Action.proc <= started
    BY <2>1, NumberTypes DEF GivenBack, EntriesFit, EntryFits
  <2>. QED BY <2>1, <2>2, StaysOver
<1>3. ~Added(s, i)
  BY DEF Added, NewEntry, Settled
<1>. QED BY <1>1, <1>2, <1>3, EntrySteps DEF EntryStep, Completed

(***************************************************************************)
(* Sessions apart                                                          *)
(***************************************************************************)
\* Nothing else was ended so far.
NotStray == ~stray

\* Every step keeps NotStray: a kill goes to the process that was identified.
LEMMA NotStrayStep == ASSUME Shape, Numbers, GivenBack, NotStray, [Next]_fridaVars PROVE NotStray'
<1>1. \A n, took : Kill(n, took) /\ ~(n \in occupied /\ ~Running(n)) => ~stray'
  BY DEF Kill, NotStray
<1>2. CASE pc = "dropClient" /\ StartDropClient
  <2>. DEFINE n == IF op.ids["client"] = 0 /\ op.client \in clients THEN op.client ELSE 0
  <2>1. Kill(n, TRUE) \/ UNCHANGED stray
    BY <1>2, CallEffects DEF fridaDeviceVars
  <2>2. 0 \notin occupied
    BY DEF Shape, TypeOK, FridaDeviceTypeOK, FridaIds
  <2>3. op.client \in clients => op.client \notin occupied
    BY DEF Numbers
  <2>4. n \notin occupied
    BY <2>2, <2>3
  <2>. HIDE DEF n
  <2>. QED BY <1>1, <2>1, <2>4 DEF NotStray
<1>3. CASE pc = "apply" /\ Apply
  <2>1. (\E took \in BOOLEAN : Effect(Action, took)) \/ UNCHANGED stray
    BY <1>3, CallEffects DEF fridaDeviceVars
  <2>2. Action.kind # "file" => Action.proc \notin occupied
    BY <1>3 DEF GivenBack
  <2>. QED BY <1>1, <2>1, <2>2 DEF Effect, RemoveFile, NotStray
<1>4. CASE Interference
  <2>1. FridaEnvironment
    BY <1>4, CallEffects
  <2>2. UNCHANGED stray
    BY <2>1 DEF FridaEnvironment, OutsiderStartsServer, ServerExits, ClientExits, Reboot, FridaPidReused, Happens
  <2>. QED BY <2>2 DEF NotStray
<1>5. UNCHANGED fridaDeviceVars \/ StartPush \/ StartLaunch \/ StartClient => UNCHANGED stray
  BY CallEffects DEF fridaDeviceVars, PutFile, LaunchServer, LaunchClient
<1>. QED BY <1>2, <1>3, <1>4, <1>5, DeviceSteps DEF DeviceStep, NotStray

\* No process of session s runs, but for clients that passed for ended.
Gone(s) == \A i \in Indices(s) : ledger[s][i].kind # "file" => Over(ledger[s][i].kind, ledger[s][i].proc)
\* No other session than the one that starts has processes that run, a cleaned
\* session has none, and a running observation uses no server that another
\* session still has to end.
Apart ==
  /\ \A s, t \in Sessions : s # t /\ observer[t].status = "running" =>
       \A i \in Indices(s) : ledger[s][i].kind = "server" /\ ledger[s][i].proc = observer[t].server =>
         Absent(ledger[s][i].proc)
  /\ pc \in StartLabels => \A s \in Sessions \ {op.on} : Gone(s)
  /\ \A s \in Sessions : status[s] = "cleaned" => Gone(s)

\* Where an observation that is called running comes from.
LEMMA RunningObservers ==
  ASSUME Shape, [Next]_fridaVars
  PROVE  \A t \in Sessions : observer'[t].status = "running" =>
           \/ observer[t].status = "running" /\ observer'[t].server = observer[t].server
           \/ pc = "running" /\ StartRunning /\ t = op.on /\ observer'[t].server = op.server
<1>0. observer \in [Sessions -> Observers]
  BY ShapeParts
<1>1. RunningObserver.server = op.server
  BY DEF RunningObserver
<1>2. \A o \in Observers : \A v, r : StoppedObserver(o, v, r).server = o.server /\ StoppedObserver(o, v, r).status = v
  BY DEF StoppedObserver, Observers
<1>3. ASSUME NEW v \in {"stop_failed", "stopped"}, NEW r, observer' = [observer EXCEPT ![op.on] = StoppedObserver(@, v, r)]
      PROVE  \A s \in Sessions : observer'[s].status = "running" =>
               observer'[s].server = observer[s].server /\ observer[s].status = "running"
  BY <1>0, <1>2, <1>3
<1>. QED BY <1>0, <1>1, <1>3, ObserverSteps DEF ObserverStep

\* A session becomes cleaned only when all its actions are settled.
LEMMA CleanedSteps ==
  ASSUME Shape, [Next]_fridaVars, NEW s \in Sessions, status'[s] = "cleaned"
  PROVE  status[s] = "cleaned" \/ (EndCleanup /\ s = op.on /\ Unsettled(s) = {})
<1>0. status \in [Sessions -> Statuses]
  BY ShapeParts DEF Statuses
<1>1. CASE EndCleanup
  <2>1. status' = [status EXCEPT ![op.on] = IF Unsettled(op.on) = {} THEN "cleaned" ELSE "cleanup_failed"]
    BY <1>1 DEF EndCleanup, SetStatus
  <2>. QED BY <1>0, <1>1, <2>1
<1>2. ASSUME NEW v, v # "cleaned", status' = [status EXCEPT ![op.on] = v] PROVE status[s] = "cleaned"
  BY <1>0, <1>2
<1>3. StartRecordFile \/ StartRecordServer \/ StartRecordClient => status[s] = "cleaned"
  BY <1>2, RecordEffects DEF Records
<1>4. EndRollback => status[s] = "cleaned"
  BY <1>2 DEF EndRollback, SetStatus
<1>5. StartStep => status[s] = "cleaned"
  BY <1>3, <1>4
     DEF StartStep, StartProbe, StartRefused, StartPush, StartLaunch,
         StartIdentify, StartClient, StartHandshake,
         StartRunning, StartRaises, BeginRollback, RollbackNothing, StartDropClient
<1>6. StopActivate \/ BeginCleanup => status[s] = "cleaned"
  BY <1>2 DEF StopActivate, BeginCleanup, SetStatus
<1>7. StopStep \/ CleanupStep => status[s] = "cleaned" \/ EndCleanup
  BY <1>6 DEF StopStep, CleanupStep, StopBegin, StopEvidence, StopPersist, StopRaises, ReturnCleaned
<1>8. Decide \/ Apply \/ Mark \/ Crash \/ Interference => UNCHANGED status
  BY DEF Decide, Apply, Mark, Crash, Interference
<1>9. \A t \in Sessions : StartLock(t) \/ StopLock(t) \/ CleanupLock(t) => UNCHANGED status
  BY DEF StartLock, StopLock, CleanupLock
<1>. QED BY <1>1, <1>5, <1>7, <1>8, <1>9 DEF Next, OperationStep, fridaVars

\* A session to which nothing is recorded stays gone.
LEMMA StaysGone ==
  ASSUME Shape, Numbers, EntriesFit, [Next]_fridaVars, NEW s \in Sessions, Gone(s),
         s # op.on \/ status[s] = "cleaned"
  PROVE  \A i \in Indices(s)' : ledger'[s][i].kind # "file" => OverNext(ledger'[s][i].kind, ledger'[s][i].proc)
<1>. SUFFICES ASSUME NEW i \in Indices(s)', ledger'[s][i].kind # "file"
             PROVE  OverNext(ledger'[s][i].kind, ledger'[s][i].proc)
  OBVIOUS
<1>1. ~Added(s, i)
  BY DEF Added
<1>2. i \in Indices(s) /\ ledger'[s][i].kind = ledger[s][i].kind /\ ledger'[s][i].proc = ledger[s][i].proc
  BY <1>1, EntrySteps DEF EntryStep, Marked, Completed
<1>3. Over(ledger[s][i].kind, ledger[s][i].proc) /\ ledger[s][i].proc \in Nat /\ ledger[s][i].proc <= started
  BY <1>2, NumberTypes DEF Gone, EntriesFit, EntryFits
<1>. QED BY <1>2, <1>3, StaysOver

\* When all actions of a session are settled, none of its processes runs.
LEMMA SettledIsGone ==
  ASSUME SettledGone, NEW s \in Sessions, Unsettled(s) = {}
  PROVE  Gone(s)
  BY DEF SettledGone, Gone, Unsettled

\* Every step keeps Apart.
LEMMA ApartStep ==
  ASSUME Shape, Numbers, Names, EntriesFit, SettledGone, Apart, [Next]_fridaVars
  PROVE  Apart'
<1>1. ASSUME NEW s \in Sessions, NEW t \in Sessions, s # t, observer'[t].status = "running",
             NEW i \in Indices(s)', ledger'[s][i].kind = "server", ledger'[s][i].proc = observer'[t].server
      PROVE  AbsentNext(ledger'[s][i].proc)
  <2>1. CASE pc = "running" /\ t = op.on
    <3>1. s # op.on /\ Gone(s)
      BY <1>1, <2>1 DEF Apart, StartLabels
    <3>. QED BY <1>1, <3>1, StaysGone DEF OverNext
  <2>2. CASE observer[t].status = "running" /\ observer'[t].server = observer[t].server
    <3>1. CASE Added(s, i)
      <4>1. pc = "recordServer" /\ ledger'[s][i].proc = op.server
        BY <1>1, <3>1 DEF Added, NewEntry
      <4>. QED BY <1>1, <2>2, <4>1 DEF Names
    <3>2. CASE i \in Indices(s) /\ ledger'[s][i].kind = ledger[s][i].kind /\ ledger'[s][i].proc = ledger[s][i].proc
      <4>1. Absent(ledger[s][i].proc) /\ ledger[s][i].proc \in Nat /\ ledger[s][i].proc <= started
        BY <1>1, <2>2, <3>2, NumberTypes DEF Apart, EntriesFit, EntryFits
      <4>. QED BY <3>2, <4>1, StaysAbsent
    <3>. QED BY <3>1, <3>2, EntrySteps DEF EntryStep, Marked, Completed
  <2>. QED BY <1>1, <2>1, <2>2, RunningObservers
<1>2. ASSUME pc' \in StartLabels, NEW s \in Sessions, s # op'.on
      PROVE  \A i \in Indices(s)' : ledger'[s][i].kind # "file" => OverNext(ledger'[s][i].kind, ledger'[s][i].proc)
  <2>1. CASE pc \in StartLabels /\ op'.on = op.on
    <3>1. Gone(s)
      BY <1>2, <2>1 DEF Apart
    <3>. QED BY <1>2, <2>1, <3>1, StaysGone
  <2>2. ASSUME NEW r \in Sessions, StartLock(r)
        PROVE  \A i \in Indices(s)' : ledger'[s][i].kind # "file" => OverNext(ledger'[s][i].kind, ledger'[s][i].proc)
    <3>1. SlotFree(r) /\ op'.on = r /\ UNCHANGED <<ledger, fridaDeviceVars>> /\ pc = "idle"
      BY <2>2, Locks DEF StartLock, Begun
    <3>2. Gone(s)
      BY <1>2, <3>1, SettledIsGone DEF SlotFree, Apart
    <3>3. op.on = NoSession
      BY <3>1 DEF Shape, OpFits, NoOp
    <3>. QED BY <3>2, <3>3, StaysGone, Constants
  <2>3. (pc \in StartLabels /\ op'.on = op.on) \/ \E r \in Sessions : StartLock(r)
    <3>1. ~Rolls /\ ~Drops /\ ~RollsOn /\ ~StopsOn /\ ~CleansOn /\ ~Decides /\ ~Applies /\ ~Marks /\ ~Registers
          /\ ~Activates /\ ~Cleans /\ ~Returned
      BY <1>2 DEF StartLabels, Rolls, Drops, RollsOn, StopsOn, CleansOn, Decides, Applies, Marks, Registers,
                  Activates, Cleans, Returned, Goes, AfterActions
    <3>2. StartsOn \/ UNCHANGED <<pc, op>> => pc \in StartLabels /\ op'.on = op.on
      BY <1>2 DEF StartsOn, Makes, SameCall
    <3>3. ASSUME NEW r \in Sessions, Calls(r) PROVE StartLock(r)
      <4>1. pc' = "probe" /\ Begun("start", r)
        BY <1>2, <3>3 DEF Calls, StartLabels, Begun
      <4>2. pc = "idle" /\ op'.job = "start" /\ op'.on = r
        BY <4>1 DEF Begun
      <4>3. ~OperationStep
        <5>1. ~StartStep
          <6>1. ~StartProbe /\ ~StartRefused /\ ~StartPush /\ ~StartLaunch /\ ~StartClient /\ ~StartHandshake
                /\ ~StartRunning /\ ~StartRaises /\ ~RollbackNothing /\ ~EndRollback /\ ~StartDropClient
            BY <4>2, StartEffects DEF StartLabels
          <6>2. ~StartRecordFile /\ ~StartRecordServer /\ ~StartRecordClient /\ ~StartIdentify /\ ~BeginRollback
            BY <4>2, RecordCases, IdentifyEffect, BeginEffects
          <6>. QED BY <6>1, <6>2 DEF StartStep
        <5>2. ~StopStep /\ ~CleanupStep
          BY <4>2, StopEffects, BeginEffects DEF StopStep, CleanupStep
        <5>. QED BY <4>2, <5>1, <5>2, DecideEffect, ApplyEffect, MarkStep DEF OperationStep
      <4>4. ~Crash /\ ~Interference /\ ~UNCHANGED fridaVars
        BY <4>1, <4>2 DEF Crash, Interference, fridaVars
      <4>5. \E q \in Sessions : StartLock(q) \/ StopLock(q) \/ CleanupLock(q)
        BY <4>3, <4>4 DEF Next
      <4>6. PICK q \in Sessions : StartLock(q)
        BY <4>1, <4>5, Locks
      <4>. QED BY <4>2, <4>6, Locks DEF Begun
    <3>. QED BY <3>1, <3>2, <3>3, OpSteps DEF OpStep
  <2>. QED BY <2>1, <2>2, <2>3
<1>3. ASSUME NEW s \in Sessions, status'[s] = "cleaned"
      PROVE  \A i \in Indices(s)' : ledger'[s][i].kind # "file" => OverNext(ledger'[s][i].kind, ledger'[s][i].proc)
  <2>1. CASE status[s] = "cleaned"
    BY <2>1, StaysGone DEF Apart
  <2>2. CASE EndCleanup /\ s = op.on /\ Unsettled(s) = {}
    <3>1. Gone(s) /\ UNCHANGED <<ledger, fridaDeviceVars, spared>>
      BY <2>2, SettledIsGone DEF EndCleanup, SetStatus, NoFault
    <3>. QED BY <3>1 DEF Gone, Over, OverNext, Absent, AbsentNext, Indices, fridaDeviceVars
  <2>. QED BY <1>3, <2>1, <2>2, CleanedSteps
<1>. QED BY <1>1, <1>2, <1>3 DEF Apart, Gone, Over, OverNext, Absent, AbsentNext

(***************************************************************************)
(* Causes of failure                                                       *)
(***************************************************************************)
\* Failures and deaths are counted and never taken back.
LEMMA FaultCounts ==
  ASSUME Shape, [Next]_fridaVars
  PROVE  /\ faults \in Nat /\ crashes \in Nat /\ faults' \in Nat /\ crashes' \in Nat
         /\ faults' = 0 => faults = 0 /\ ~Fault /\ \A n : ~Spare(n)
         /\ crashes' = 0 => crashes = 0
         /\ Fault => faults' = faults + 1 /\ crashes' = crashes
<1>1. faults \in Nat /\ crashes \in Nat
  BY Constants DEF Shape, TypeOK
<1>2. faults' \in Nat /\ crashes' \in Nat /\ faults <= faults' /\ crashes <= crashes'
  BY SmallTypes, Constants
<1>. QED BY <1>1, <1>2 DEF Fault, Spare

\* Without a failed call nothing passed for ended.
Unspared == faults = 0 => spared = {}
\* Every step keeps Unspared.
LEMMA UnsparedStep == ASSUME Shape, Unspared, [Next]_fridaVars PROVE Unspared'
  BY FaultCounts, CountSteps DEF Unspared, CountStep

\* Only a failed call makes the device look away.
ReadyMeans == ~op.ready => faults > 0
\* Every step keeps ReadyMeans.
LEMMA ReadyStep == ASSUME Shape, ReadyMeans, [Next]_fridaVars PROVE ReadyMeans'
<1>0. /\ faults \in Nat /\ faults' \in Nat /\ faults <= faults' /\ (Fault => faults' > 0) /\ op \in Ops /\ op' \in Ops
  BY FaultCounts, SmallTypes, OpTypes, ShapeParts
<1>1. NoOp.ready
  BY DEF NoOp
<1>2. Returned \/ (\E s \in Sessions : Calls(s)) => op'.ready
  BY <1>1 DEF Returned, Calls, Begun
<1>3. StartsOn \/ Rolls \/ Drops \/ Activates \/ Cleans \/ UNCHANGED <<pc, op>> => op'.ready = op.ready
  BY DEF StartsOn, Makes, SameCall, Rolls, Drops, Activates, Cleans, Goes
<1>4. BeginRollback \/ StopBegin \/ BeginCleanup => op'.ready \/ Fault
  BY BeginEffects
<1>5. Decide \/ Apply \/ Mark \/ StopEvidence => op'.ready = op.ready
  BY DecideEffect, ApplyEffect, MarkStep, StopEffects
<1>6. ASSUME NEW s \in Sessions, StartLock(s) \/ StopLock(s) \/ CleanupLock(s) PROVE op'.ready
  BY <1>6, Locks DEF Begun
<1>7. Returned => op'.ready
  BY <1>2
<1>8. \A l : Goes(l) => op'.ready = op.ready
  BY DEF Goes
<1>9. Makes => op'.ready = op.ready
  BY DEF Makes, SameCall
<1>10. StartStep => op'.ready \/ Fault \/ op'.ready = op.ready
  <2>1. StartRecordFile \/ StartRecordServer \/ StartRecordClient => op'.ready = op.ready
    BY <1>8, <1>9, RecordEffects DEF Records
  <2>2. StartIdentify => op'.ready = op.ready
    BY IdentifyEffect
  <2>3. StartProbe \/ StartPush \/ StartLaunch \/ StartClient \/ StartHandshake \/ StartRunning \/ StartRaises
        \/ RollbackNothing \/ EndRollback \/ StartDropClient \/ StartRefused => op'.ready \/ op'.ready = op.ready
    BY <1>7, <1>8, <1>9, StartEffects
  <2>. QED BY <1>4, <2>1, <2>2, <2>3 DEF StartStep
<1>11. StopStep \/ CleanupStep \/ Crash => op'.ready \/ Fault \/ op'.ready = op.ready
  BY <1>4, <1>5, <1>7, <1>8, StopEffects DEF StopStep, CleanupStep
<1>12. Interference \/ UNCHANGED fridaVars => op'.ready = op.ready
  BY DEF Interference, fridaVars
<1>13. op'.ready \/ Fault \/ op'.ready = op.ready
  BY <1>5, <1>6, <1>10, <1>11, <1>12 DEF Next, OperationStep
<1>. QED BY <1>0, <1>13 DEF ReadyMeans

\* A server whose identity is not recorded was left by a death or a failure.
Identified ==
  faults = 0 /\ crashes = 0 => \A s \in Sessions : \A i \in Indices(s) :
    ~ledger[s][i].identified /\ ~Absent(ledger[s][i].proc) => pc = "identify" /\ op.on = s /\ op.ids["server"] = i

\* Every step keeps Identified.
LEMMA IdentifiedStep ==
  ASSUME Shape, Numbers, Names, EntriesFit, Identified, [Next]_fridaVars
  PROVE  Identified'
<1>. SUFFICES ASSUME faults' = 0, crashes' = 0, NEW s \in Sessions, NEW i \in Indices(s)',
                    ~ledger'[s][i].identified, ~AbsentNext(ledger'[s][i].proc)
             PROVE  pc' = "identify" /\ op'.on = s /\ op'.ids["server"] = i
  BY DEF Identified, Absent, AbsentNext
<1>0. faults = 0 /\ crashes = 0 /\ ~Fault
  BY FaultCounts
<1>1. CASE Added(s, i)
  <2>1. pc = "recordServer" /\ StartRecordServer /\ s = op.on /\ i = Len(ledger[op.on]) + 1
    BY <1>1 DEF Added, NewEntry
  <2>2. pc' = "identify" /\ op'.on = op.on /\ op'.ids = [op.ids EXCEPT !["server"] = Len(ledger[op.on]) + 1]
    BY <1>0, <2>1, RecordEffects DEF Records, Makes, SameCall
  <2>3. op.ids \in [FridaKinds -> 0..MaxActions] /\ "server" \in FridaKinds
    BY ShapeParts, KindFacts DEF Ops
  <2>. QED BY <2>1, <2>2, <2>3
<1>2. CASE i \in Indices(s) /\ ledger'[s][i].proc = ledger[s][i].proc /\ ledger'[s][i].identified = ledger[s][i].identified
  <2>1. ~Absent(ledger[s][i].proc)
    BY <1>2, NumberTypes, StaysAbsent DEF EntriesFit, EntryFits
  <2>2. pc = "identify" /\ op.on = s /\ op.ids["server"] = i
    BY <1>0, <1>2, <2>1 DEF Identified
  <2>3. CASE UNCHANGED <<pc, op>>
    BY <2>2, <2>3
  <2>4. CASE StartIdentify
    <3>1. \/ Serving(op.server) /\ Changed(i, [ledger[s][i] EXCEPT !.identified = TRUE])
          \/ ~Serving(op.server)
      BY <1>0, <2>2, <2>4, IdentifyEffect
    <3>2. ~Changed(i, [ledger[s][i] EXCEPT !.identified = TRUE])
      <4>1. [ledger[s][i] EXCEPT !.identified = TRUE].identified
        BY <1>2, LedgerFacts DEF Entries
      <4>. QED BY <2>2, <4>1 DEF Changed
    <3>3. ledger[s][i].proc = op.server
      BY <1>2, <2>2, KindFacts, StartFitsParts, NumberTypes DEF Shape, IdFits, Made, Indices
    <3>4. Absent(op.server)
      BY <3>1, <3>2 DEF Names, Absent, Serving
    <3>. QED BY <2>1, <3>3, <3>4
  <2>5. UNCHANGED <<pc, op>> \/ StartIdentify
    <3>1. ~Crash
      BY <1>0 DEF Crash
    <3>2. \A t \in Sessions : ~StartLock(t) /\ ~StopLock(t) /\ ~CleanupLock(t)
      BY <2>2 DEF StartLock, StopLock, CleanupLock
    <3>3. ~StopStep /\ ~CleanupStep /\ ~Decide /\ ~Apply /\ ~Mark
      BY <2>2 DEF StopStep, StopBegin, StopEvidence, StopPersist, StopActivate, StopRaises,
                  CleanupStep, ReturnCleaned, BeginCleanup, EndCleanup, Decide, Apply, Mark
    <3>4. StartStep => StartIdentify
      BY <2>2 DEF StartStep, StartProbe, StartRefused, StartRecordFile, StartPush, StartLaunch,
         StartRecordServer, StartClient, StartHandshake, StartRecordClient,
         StartRunning, StartRaises, BeginRollback, RollbackNothing, EndRollback, StartDropClient
    <3>5. Interference \/ UNCHANGED fridaVars => UNCHANGED <<pc, op>>
      BY DEF Interference, fridaVars
    <3>. QED BY <3>1, <3>2, <3>3, <3>4, <3>5 DEF Next, OperationStep
  <2>. QED BY <2>3, <2>4, <2>5
<1>. QED BY <1>1, <1>2, EntrySteps DEF EntryStep, Marked, Completed

\* An action on a process that runs failed because nobody knows who that is.
FailCause ==
  pc = "mark" /\ op.verdict = "failed" /\ faults = 0 /\ ~Absent(Action.proc) => ~Action.identified /\ crashes > 0

\* Every step keeps FailCause.
LEMMA FailCauseStep ==
  ASSUME Shape, Numbers, EntriesFit, ReadyMeans, Identified, FailCause, [Next]_fridaVars
  PROVE  FailCause'
<1>. SUFFICES ASSUME pc' = "mark", op'.verdict = "failed", faults' = 0, ~AbsentNext(Action'.proc)
             PROVE  ~Action'.identified /\ crashes' > 0
  BY DEF FailCause, Absent, AbsentNext
<1>0. faults = 0 /\ ~Fault /\ (\A n : ~Spare(n)) /\ crashes \in Nat /\ crashes <= crashes' /\ crashes' \in Nat
  BY FaultCounts, SmallTypes
<1>1. CASE Decide
  <2>0. pc = "next" /\ op.ready
    BY <1>0, <1>1, DecideEffect, ShapeParts DEF ReadyMeans, Ops
  <2>1. /\ op.on \in Sessions /\ op'.on = op.on /\ ledger' = ledger /\ UNCHANGED fridaDeviceVars
        /\ op'.current \in Indices(op.on)
        /\ \E e \in Entries : e = ledger[op.on][op'.current] /\ Verdict(e) # "apply" /\ op'.verdict = Verdict(e)
    BY <1>0, <1>1, <2>0, DecideEffect, InHand DEF Walks, SameSoFar, ExecutingLabels
  <2>2. PICK e \in Entries : e = ledger[op.on][op'.current] /\ Verdict(e) # "apply" /\ op'.verdict = Verdict(e)
    BY <2>1
  <2>3. Action' = e
    BY <2>1, <2>2 DEF Action
  <2>4. ~Absent(e.proc)
    BY <2>1, <2>3 DEF Absent, AbsentNext, fridaDeviceVars
  <2>5. Verdict(e) = "failed" /\ Running(e.proc)
    BY <2>2, <2>4, Absence
  <2>6. ~e.identified
    BY <2>5 DEF Verdict, ProcessVerdict
  <2>7. crashes # 0
    BY <1>0, <2>0, <2>1, <2>2, <2>4, <2>6 DEF Identified
  <2>. QED BY <1>0, <2>3, <2>6, <2>7
<1>2. CASE Apply
  <2>1. /\ pc = "apply" /\ ledger' = ledger /\ op'.on = op.on /\ op'.current = op.current /\ Effect(Action, TRUE)
    BY <1>0, <1>2, ApplyEffect DEF Walks, SameSoFar
  <2>2. Action' = Action
    BY <2>1 DEF Action
  <2>3. Action.kind # "file" => AbsentNext(Action.proc)
    BY <2>1 DEF Effect, Kill, AbsentNext
  <2>4. Action.kind = "file" => AbsentNext(Action.proc)
    <3>1. op.on \in Sessions /\ op.current \in Indices(op.on)
      BY <2>1, InHand DEF ExecutingLabels
    <3>2. Action.kind = "file" => Action.proc = 0
      BY <3>1 DEF Action, EntriesFit, EntryFits
    <3>. QED BY <3>2, DeviceTypes DEF FridaDeviceTypeOK, FridaIds, AbsentNext
  <2>. QED BY <2>2, <2>3, <2>4
<1>3. CASE UNCHANGED <<ledger, pc, op>>
  <2>1. Action' = Action /\ pc = "mark" /\ op.verdict = "failed"
    BY <1>3 DEF Action
  <2>2. op.on \in Sessions /\ op.current \in Indices(op.on)
    BY <2>1, InHand DEF ExecutingLabels
  <2>3. Action.proc \in Nat /\ Action.proc <= started
    BY <2>2, NumberTypes DEF Action, EntriesFit, EntryFits
  <2>4. ~Absent(Action.proc)
    BY <2>1, <2>3, StaysAbsent
  <2>. QED BY <1>0, <2>1, <2>4 DEF FailCause
<1>. QED BY <1>1, <1>2, <1>3, HandedOn DEF fridaVars

(***************************************************************************)
(* What the ledgers owe                                                    *)
(***************************************************************************)
\* Owes and the rest, in the next state.
OwesNext(s, k, n) ==
  \E i \in Indices(s)' : ledger'[s][i].status \notin Settled /\ ledger'[s][i].kind = k /\ ledger'[s][i].proc = n
\* Owes in the next state.
LEMMA OwesPrimed == \A s, k, n : Owes(s, k, n)' <=> OwesNext(s, k, n)
  BY DEF Owes, OwesNext, Unsettled

\* A debt stays until its action is settled.
LEMMA OwesKept ==
  ASSUME Shape, [Next]_fridaVars, NEW s \in Sessions, NEW k, NEW n, Owes(s, k, n), ~OwesNext(s, k, n)
  PROVE  pc = "mark" /\ Mark /\ s = op.on /\ op.verdict \in Settled /\ Action.kind = k /\ Action.proc = n
<1>1. PICK i \in Indices(s) : ledger[s][i].status \notin Settled /\ ledger[s][i].kind = k /\ ledger[s][i].proc = n
  BY DEF Owes, Unsettled
<1>2. i \in Indices(s)' /\ ledger'[s][i].kind = k /\ ledger'[s][i].proc = n
  BY <1>1, LedgerStep DEF LedgersKept
<1>3. ledger'[s][i].status \in Settled
  BY <1>2 DEF OwesNext
<1>4. Marked(s, i)
  BY <1>1, <1>2, <1>3, EntrySteps DEF EntryStep, Completed, Added
<1>. QED BY <1>1, <1>3, <1>4 DEF Marked, Action

\* A process that runs is owed until it is gone or passes for ended.
LEMMA OwesProcess ==
  ASSUME Shape, Numbers, EntriesFit, GivenBack, [Next]_fridaVars, NEW s \in Sessions, NEW k, NEW n,
         k # "file", Owes(s, k, n), ~Over(k, n)
  PROVE  OwesNext(s, k, n)
<1>. SUFFICES ASSUME ~OwesNext(s, k, n) PROVE FALSE
  OBVIOUS
<1>1. pc = "mark" /\ op.verdict \in Settled /\ Action.kind = k /\ Action.proc = n
  BY OwesKept
<1>. QED BY <1>1 DEF GivenBack

\* What a start has recorded is owed, or settled.
LEMMA IdOwes ==
  ASSUME Shape, NEW k \in FridaKinds, op.on \in Sessions, op.ids[k] # 0
  PROVE  /\ Owes(op.on, k, Made(k)) \/ ledger[op.on][op.ids[k]].status \in Settled
         /\ op.ids[k] \in Indices(op.on) /\ ledger[op.on][op.ids[k]].kind = k
         /\ ledger[op.on][op.ids[k]].proc = Made(k)
         /\ pc \in StartLabels => Owes(op.on, k, Made(k))
<1>1. /\ op.ids[k] \in Indices(op.on)
      /\ ledger[op.on][op.ids[k]].kind = k /\ ledger[op.on][op.ids[k]].proc = Made(k)
      /\ pc \in StartLabels => ledger[op.on][op.ids[k]].status = "pending"
  BY StartFitsParts DEF Shape, IdFits
<1>2. "pending" \notin Settled
  BY DEF Settled
<1>. QED BY <1>1, <1>2 DEF Owes, Unsettled

\* A file gets on the device by a push only.
LEMMA FileSteps ==
  ASSUME Shape, [Next]_fridaVars, NEW s \in file', s \notin file
  PROVE  pc = "push" /\ StartPush /\ s = op.on
<1>1. StartPush => s = op.on
  BY CallEffects DEF PutFile
<1>2. UNCHANGED fridaDeviceVars \/ StartLaunch \/ StartClient \/ StartDropClient => UNCHANGED file
  BY CallEffects DEF fridaDeviceVars, LaunchServer, LaunchClient, Kill
<1>3. Apply => file' \subseteq file
  <2>1. \A n, took : Kill(n, took) => UNCHANGED file
    BY DEF Kill
  <2>. QED BY <2>1, CallEffects DEF Effect, RemoveFile, fridaDeviceVars
<1>4. Interference => UNCHANGED file
  BY CallEffects DEF FridaEnvironment, OutsiderStartsServer, ServerExits, ClientExits, Reboot, FridaPidReused
<1>. QED BY <1>1, <1>2, <1>3, <1>4, DeviceSteps DEF DeviceStep

\* Every step keeps FilesAreOwed.
LEMMA FilesAreOwedStep ==
  ASSUME Shape, EntriesFit, GivenBack, FilesAreOwed, [Next]_fridaVars
  PROVE  FilesAreOwed'
<1>. SUFFICES ASSUME faults' = 0, NEW s \in file' PROVE OwesNext(s, "file", 0)
  BY OwesPrimed DEF FilesAreOwed
<1>0. faults = 0 /\ s \in Sessions
  BY FaultCounts, DeviceTypes DEF FridaDeviceTypeOK
<1>1. CASE s \in file
  <2>1. Owes(s, "file", 0)
    BY <1>0, <1>1 DEF FilesAreOwed
  <2>2. ~(s = op.on /\ pc = "mark" /\ op.verdict \in Settled /\ Action.kind = "file")
    BY <1>0, <1>1 DEF GivenBack
  <2>. QED BY <1>0, <2>1, <2>2, OwesKept
<1>2. CASE s \notin file
  <2>1. pc = "push" /\ s = op.on
    BY <1>2, FileSteps
  <2>2. op.ids["file"] # 0 /\ "file" \in FridaKinds /\ Made("file") = 0
    BY <2>1, StartFitsParts, KindFacts DEF Shape, SoFar, StartLabels, Made
  <2>3. Owes(s, "file", 0)
    BY <1>0, <2>1, <2>2, IdOwes DEF StartLabels
  <2>. QED BY <1>0, <2>1, <2>3, OwesKept
<1>. QED BY <1>1, <1>2

(***************************************************************************)
(* Processes that nobody knows                                             *)
(***************************************************************************)
\* How a start lets go of the client it made.
LEMMA LettingGo ==
  ASSUME Shape, [Next]_fridaVars, op.client # 0, op'.client # op.client
  PROVE  (StartRunning /\ pc = "running") \/ (StartDropClient /\ pc = "dropClient") \/ (Crash /\ crashes' = crashes + 1)
<1>0. op.job = "start" /\ pc # "idle" /\ pc \notin {"probe", "launch", "popen"}
  BY StartFitsParts DEF Shape, OpFits, SoFar, NoOp
<1>1. Walks \/ Goes("rollback") \/ Goes("dropClient") \/ UNCHANGED op => FALSE
  BY DEF Walks, SameSoFar, Goes
<1>2. \A s \in Sessions : ~StartLock(s) /\ ~StopLock(s) /\ ~CleanupLock(s)
  BY <1>0 DEF StartLock, StopLock, CleanupLock
<1>3. StartStep => (StartRunning /\ pc = "running") \/ (StartDropClient /\ pc = "dropClient")
  <2>1. ~StartProbe /\ ~StartRefused /\ ~StartLaunch /\ ~StartClient
    BY <1>0 DEF StartProbe, StartRefused, StartLaunch, StartClient
  <2>2. ~StartPush /\ ~StartHandshake /\ ~StartIdentify
    BY <1>1 DEF StartPush, StartHandshake, StartIdentify
  <2>3. ~StartRaises /\ ~RollbackNothing /\ ~EndRollback
    BY <1>1 DEF StartRaises, RollbackNothing, EndRollback
  <2>4. ~BeginRollback
    BY <1>1, BeginEffects
  <2>5. ~StartRecordFile /\ ~StartRecordServer /\ ~StartRecordClient
    BY <1>1, RecordEffects DEF Records
  <2>6. (StartRunning => pc = "running") /\ (StartDropClient => pc = "dropClient")
    BY DEF StartRunning, StartDropClient
  <2>. QED BY <2>1, <2>2, <2>3, <2>4, <2>5, <2>6 DEF StartStep
<1>4. ~StopStep /\ ~CleanupStep
  <2>1. ~StopBegin /\ ~BeginCleanup /\ ~StopEvidence
    BY <1>1, BeginEffects, StopEffects
  <2>2. ~StopPersist /\ ~StopActivate /\ ~StopRaises /\ ~ReturnCleaned /\ ~EndCleanup
    <3>1. pc \notin {"stopped", "activate", "cleanup", "endCleanup"} /\ (pc = "mark" => op.phase # "stop")
      BY <1>0 DEF Shape, OpFits, StopLabels, CleanupLabels, ExecutingLabels
    <3>. QED BY <3>1 DEF StopPersist, StopActivate, StopRaises, ReturnCleaned, EndCleanup
  <2>. QED BY <2>1, <2>2 DEF StopStep, CleanupStep
<1>5. ~Decide /\ ~Apply /\ ~Mark
  BY <1>1, DecideEffect, ApplyEffect, MarkStep
<1>6. ~Interference /\ ~UNCHANGED fridaVars
  BY <1>1 DEF Interference, fridaVars
<1>7. Crash => crashes' = crashes + 1
  BY DEF Crash
<1>. QED BY <1>2, <1>3, <1>4, <1>5, <1>6, <1>7 DEF Next, OperationStep

\* A client becomes an orphan only when the start that made it dies.
LEMMA NewOrphanClient ==
  ASSUME Shape, Numbers, Names, EntriesFit, GivenBack, SettledGone, [Next]_fridaVars,
         NEW n \in OrphanClients', n \notin OrphanClients
  PROVE  n = op.client /\ crashes' = crashes + 1
<1>0. n \in clients' /\ n \notin spared' /\ (\A s \in Sessions : ~OwesNext(s, "client", n)) /\ op'.client # n
  BY OwesPrimed DEF OrphanClients
<1>1. n \in clients
  <2>1. ~NewClient(n)
    BY <1>0, StartEffects DEF NewClient
  <2>. QED BY <1>0, <2>1, ProcessSteps DEF ProcessStep
<1>2. ~Over("client", n) /\ n \notin spared
  BY <1>0, <1>1, SmallTypes DEF Over, Absent
<1>3. ASSUME NEW s \in Sessions PROVE ~Owes(s, "client", n)
  BY <1>0, <1>2, OwesProcess
<1>4. op.client = n
  BY <1>1, <1>2, <1>3 DEF OrphanClients
<1>5. op.client # 0 /\ op'.client # op.client
  BY <1>0, <1>1, <1>4, NumberTypes
<1>6. op.on \in Sessions
  BY <1>5 DEF Shape, OpFits, NoOp
<1>7. op.ids["client"] = 0
  <2>1. Made("client") = n /\ "client" \in FridaKinds
    BY <1>4, KindFacts DEF Made
  <2>2. op.ids["client"] # 0 => Over("client", n)
    BY <1>3, <1>6, <2>1, IdOwes DEF SettledGone
  <2>. QED BY <1>2, <2>2
<1>8. ~(StartRunning /\ pc = "running")
  BY <1>7, StartFitsParts DEF Shape, SoFar
<1>9. ~(StartDropClient /\ pc = "dropClient")
  <2>1. StartDropClient => Kill(n, TRUE) \/ Spare(n)
    BY <1>1, <1>4, <1>7, CallEffects
  <2>. QED BY <1>0, <2>1 DEF Kill, Spare
<1>. QED BY <1>4, <1>5, <1>8, <1>9, LettingGo

\* One more element, at most.
LEMMA OneMore ==
  ASSUME NEW S, NEW T, NEW x, IsFiniteSet(S), T \subseteq S \cup {x}
  PROVE  IsFiniteSet(T) /\ Cardinality(T) <= Cardinality(S) + 1 /\ Cardinality(T) \in Nat /\ Cardinality(S) \in Nat
<1>1. IsFiniteSet(S \cup {x}) /\ Cardinality(S \cup {x}) = IF x \in S THEN Cardinality(S) ELSE Cardinality(S) + 1
  BY FS_AddElement
<1>2. IsFiniteSet(T) /\ Cardinality(T) <= Cardinality(S \cup {x})
  BY <1>1, FS_Subset
<1>3. Cardinality(T) \in Nat /\ Cardinality(S) \in Nat
  BY <1>2, FS_CardinalityType
<1>. QED BY <1>1, <1>2, <1>3
\* No more elements.
LEMMA NoMoreOf ==
  ASSUME NEW S, NEW T, IsFiniteSet(S), T \subseteq S
  PROVE  IsFiniteSet(T) /\ Cardinality(T) <= Cardinality(S) /\ Cardinality(T) \in Nat /\ Cardinality(S) \in Nat
<1>1. IsFiniteSet(T) /\ Cardinality(T) <= Cardinality(S)
  BY FS_Subset
<1>2. Cardinality(T) \in Nat /\ Cardinality(S) \in Nat
  BY <1>1, FS_CardinalityType
<1>. QED BY <1>1, <1>2

\* One orphaned client for each death.
ClientsCounted == IsFiniteSet(OrphanClients) /\ Cardinality(OrphanClients) <= crashes
\* Every step keeps ClientsCounted.
LEMMA ClientsCountedStep ==
  ASSUME Shape, Numbers, Names, EntriesFit, GivenBack, SettledGone, ClientsCounted, [Next]_fridaVars
  PROVE  ClientsCounted'
<1>0. crashes \in Nat /\ crashes' \in Nat /\ crashes <= crashes'
  BY FaultCounts, SmallTypes
<1>1. \A n \in OrphanClients' : n \in OrphanClients \/ (n = op.client /\ crashes' = crashes + 1)
  BY NewOrphanClient
<1>2. CASE crashes' = crashes + 1
  <2>1. OrphanClients' \subseteq OrphanClients \cup {op.client}
    BY <1>1
  <2>2. IsFiniteSet(OrphanClients') /\ Cardinality(OrphanClients') <= Cardinality(OrphanClients) + 1
        /\ Cardinality(OrphanClients') \in Nat /\ Cardinality(OrphanClients) \in Nat
    BY <2>1, OneMore DEF ClientsCounted
  <2>. QED BY <1>0, <1>2, <2>2 DEF ClientsCounted
<1>3. CASE crashes' # crashes + 1
  <2>1. OrphanClients' \subseteq OrphanClients
    BY <1>1, <1>3
  <2>2. IsFiniteSet(OrphanClients') /\ Cardinality(OrphanClients') <= Cardinality(OrphanClients)
        /\ Cardinality(OrphanClients') \in Nat /\ Cardinality(OrphanClients) \in Nat
    BY <2>1, NoMoreOf DEF ClientsCounted
  <2>. QED BY <1>0, <2>2 DEF ClientsCounted
<1>. QED BY <1>2, <1>3

\* Servers of the framework that no ledger and no step about to record them knows.
Unclaimed == {x \in servers : /\ x.by # Outsider /\ ~Owes(x.by, "server", x.id)
                              /\ ~(pc = "recordServer" /\ op.server = x.id)}
\* The server that the operation under way has made.
Stranded == [id |-> op.server, by |-> op.on]

\* A server becomes unclaimed only when the start that made it fails or dies.
LEMMA NewUnclaimed ==
  ASSUME Shape, Numbers, Names, EntriesFit, GivenBack, [Next]_fridaVars,
         NEW x \in Unclaimed', x \notin Unclaimed
  PROVE  /\ x \in {Stranded, [id |-> started + 1, by |-> op.on]} /\ (pc = "launch" => x # Stranded)
         /\ pc = "recordServer" => x = Stranded
         /\ pc \in {"launch", "recordServer"}
         /\ Fault \/ (crashes' = crashes + 1 /\ UNCHANGED faults)
<1>0. /\ x \in servers' /\ x.by # Outsider /\ ~OwesNext(x.by, "server", x.id)
      /\ ~(pc' = "recordServer" /\ op'.server = x.id)
  BY OwesPrimed DEF Unclaimed
<1>1. CASE NewServer(x)
  <2>1. pc = "launch" /\ StartLaunch /\ x = [id |-> started + 1, by |-> op.on] /\ started' = started + 1
    BY <1>0, <1>1 DEF NewServer
  <2>2. x.id = started + 1
    BY <2>1
  <2>3. Goes("rollback")
    BY <1>0, <2>1, <2>2, StartEffects
  <2>4. Fault
    BY <2>1, <2>3 DEF StartLaunch, Goes
  <2>5. op.server = 0 /\ started \in Nat
    BY <2>1, StartFitsParts, NumberTypes DEF Shape, SoFar
  <2>6. x # Stranded
    BY <2>2, <2>5 DEF Stranded
  <2>. QED BY <2>1, <2>4, <2>6
<1>2. CASE x \in servers
  <2>1. x.by \in Sessions /\ x = [id |-> x.id, by |-> x.by] /\ ~Absent(x.id)
    BY <1>0, <1>2 DEF Shape, TypeOK, FridaDeviceTypeOK, Absent
  <2>2. ~Owes(x.by, "server", x.id)
    BY <1>0, <2>1, OwesProcess DEF Over
  <2>3. pc = "recordServer" /\ op.server = x.id
    BY <1>0, <1>2, <2>2 DEF Unclaimed
  <2>4. x = Stranded
    <3>1. op.owned
      BY <2>3, StartFitsParts DEF Shape, SoFar
    <3>. QED BY <1>2, <2>1, <2>3, <3>1 DEF Names, Stranded
  <2>5. ~(UNCHANGED <<pc, op>>)
    BY <1>0, <2>3
  <2>6. StartRecordServer => FALSE
    <3>1. ASSUME StartRecordServer PROVE Appended("server", op.server, FALSE)
      BY <3>1, RecordEffects DEF Records
    <3>2. ASSUME Appended("server", op.server, FALSE) PROVE OwesNext(op.on, "server", op.server)
      <4>1. op.on \in Sessions
        BY <2>3, ShapeParts
      <4>3. \A s \in Sessions : s = op.on => Len(ledger[op.on]) + 1 \in Indices(s)'
        BY <3>2 DEF Appended
      <4>4. LET e == ledger'[op.on][Len(ledger[op.on]) + 1] IN
              e.kind = "server" /\ e.proc = op.server /\ e.status \notin Settled
        BY <3>2 DEF Appended, Settled
      <4>5. ASSUME NEW s \in Sessions, s = op.on PROVE OwesNext(s, "server", op.server)
        BY <4>3, <4>4, <4>5 DEF OwesNext
      <4>. QED BY <4>1, <4>5
    <3>. QED BY <1>0, <2>3, <2>4, <3>1, <3>2 DEF Stranded
  <2>7. Fault \/ (crashes' = crashes + 1 /\ UNCHANGED faults)
    <3>1. \A s \in Sessions : ~StartLock(s) /\ ~StopLock(s) /\ ~CleanupLock(s)
      BY <2>3 DEF StartLock, StopLock, CleanupLock
    <3>2. ~StopStep /\ ~CleanupStep /\ ~Decide /\ ~Apply /\ ~Mark
      BY <2>3 DEF StopStep, StopBegin, StopEvidence, StopPersist, StopActivate, StopRaises,
                  CleanupStep, ReturnCleaned, BeginCleanup, EndCleanup, Decide, Apply, Mark
    <3>3. StartStep => StartRaises
      BY <2>3, <2>6 DEF StartStep, StartProbe, StartRefused, StartRecordFile, StartPush, StartLaunch,
         StartIdentify, StartClient, StartHandshake, StartRecordClient,
         StartRunning, BeginRollback, RollbackNothing, EndRollback, StartDropClient
    <3>4. StartRaises => Fault
      BY <2>3 DEF StartRaises
    <3>5. Interference \/ UNCHANGED fridaVars => UNCHANGED <<pc, op>>
      BY DEF Interference, fridaVars
    <3>6. Crash => crashes' = crashes + 1 /\ UNCHANGED faults
      BY DEF Crash
    <3>. QED BY <2>5, <3>1, <3>2, <3>3, <3>4, <3>5, <3>6 DEF Next, OperationStep
  <2>. QED BY <2>3, <2>4, <2>7
<1>. QED BY <1>0, <1>1, <1>2, ProcessSteps DEF ProcessStep

\* Arithmetic of one more element for one more event.
LEMMA OneMoreSum ==
  ASSUME NEW a \in Nat, NEW b \in Nat, NEW c \in Nat, NEW f \in Nat, NEW c1 \in Nat, NEW f1 \in Nat,
         b <= a + 1, a <= c + f, c1 + f1 = c + f + 1
  PROVE  b <= c1 + f1
OBVIOUS
\* One unclaimed server for each death or failure.
ServersCounted == IsFiniteSet(Unclaimed) /\ Cardinality(Unclaimed) <= crashes + faults
\* Every step keeps ServersCounted.
LEMMA ServersCountedStep ==
  ASSUME Shape, Numbers, Names, EntriesFit, GivenBack, ServersCounted, [Next]_fridaVars
  PROVE  ServersCounted'
<1>0. /\ crashes \in Nat /\ crashes' \in Nat /\ crashes <= crashes'
      /\ faults \in Nat /\ faults' \in Nat /\ faults <= faults'
  BY FaultCounts, SmallTypes
<1>1. ASSUME NEW y, Unclaimed' \subseteq Unclaimed \cup {y}, crashes' + faults' = crashes + faults + 1
      PROVE  ServersCounted'
  <2>1. IsFiniteSet(Unclaimed') /\ Cardinality(Unclaimed') <= Cardinality(Unclaimed) + 1
        /\ Cardinality(Unclaimed') \in Nat /\ Cardinality(Unclaimed) \in Nat
    BY <1>1, OneMore DEF ServersCounted
  <2>2. Cardinality(Unclaimed) <= crashes + faults
    BY DEF ServersCounted
  <2>3. crashes' + faults' = crashes + faults + 1
    BY <1>1
  <2>4. Cardinality(Unclaimed') <= crashes' + faults'
    BY <1>0, <2>1, <2>2, <2>3, OneMoreSum
  <2>. QED BY <2>1, <2>4 DEF ServersCounted
<1>2. CASE Unclaimed' \subseteq Unclaimed
  <2>1. IsFiniteSet(Unclaimed') /\ Cardinality(Unclaimed') <= Cardinality(Unclaimed)
        /\ Cardinality(Unclaimed') \in Nat /\ Cardinality(Unclaimed) \in Nat
    BY <1>2, NoMoreOf DEF ServersCounted
  <2>. QED BY <1>0, <2>1 DEF ServersCounted
<1>3. CASE \E x \in Unclaimed' : x \notin Unclaimed
  <2>1. PICK x \in Unclaimed' : x \notin Unclaimed
    BY <1>3
  <2>2. Fault \/ (crashes' = crashes + 1 /\ UNCHANGED faults)
    BY <2>1, NewUnclaimed
  <2>3. crashes' + faults' = crashes + faults + 1
    <3>1. CASE Fault
      BY <1>0, <3>1 DEF Fault
    <3>2. CASE crashes' = crashes + 1 /\ UNCHANGED faults
      BY <1>0, <3>2
    <3>. QED BY <2>2, <3>1, <3>2
  <2>4. CASE pc = "launch"
    <3>. DEFINE y == [id |-> started + 1, by |-> op.on]
    <3>1. ASSUME NEW z \in Unclaimed', z \notin Unclaimed PROVE z = y
      <4>1. z \in {Stranded, y} /\ (pc = "launch" => z # Stranded)
        BY <3>1, NewUnclaimed
      <4>. QED BY <2>4, <4>1
    <3>. HIDE DEF y
    <3>2. Unclaimed' \subseteq Unclaimed \cup {y}
      BY <3>1
    <3>. QED BY <1>1, <2>3, <3>2
  <2>5. CASE pc = "recordServer"
    <3>1. ASSUME NEW z \in Unclaimed', z \notin Unclaimed PROVE z = Stranded
      BY <2>5, <3>1, NewUnclaimed
    <3>2. Unclaimed' \subseteq Unclaimed \cup {Stranded}
      BY <3>1
    <3>. QED BY <1>1, <2>3, <3>2
  <2>6. pc \in {"launch", "recordServer"}
    BY <2>1, NewUnclaimed
  <2>. QED BY <2>4, <2>5, <2>6
<1>. QED BY <1>2, <1>3

(***************************************************************************)
(* Observations that run are alive                                         *)
(***************************************************************************)
\* A recorded client belongs to one session.
ClientsOwned ==
  \A s \in Sessions : \A i \in Indices(s) : ledger[s][i].kind = "client" =>
    /\ ledger[s][i].proc = op.client /\ op.client # 0 => s = op.on
    /\ \A t \in Sessions : \A j \in Indices(t) :
         ledger[t][j].kind = "client" /\ ledger[t][j].proc = ledger[s][i].proc => s = t

\* Where client entries come from.
LEMMA ClientEntries ==
  ASSUME Shape, [Next]_fridaVars, NEW s \in Sessions, NEW i \in Indices(s)', ledger'[s][i].kind = "client"
  PROVE  \/ i \in Indices(s) /\ ledger[s][i].kind = "client" /\ ledger'[s][i].proc = ledger[s][i].proc
         \/ s = op.on /\ pc = "recordClient" /\ ledger'[s][i].proc = op.client
<1>1. EntryStep(s, i)
  BY EntrySteps
<1>2. Added(s, i) => s = op.on /\ pc = "recordClient" /\ ledger'[s][i].proc = op.client
  BY DEF Added, NewEntry
<1>. QED BY <1>1, <1>2 DEF EntryStep, Marked, Completed

\* Every step keeps ClientsOwned.
LEMMA ClientsOwnedStep ==
  ASSUME Shape, Numbers, EntriesFit, ClientsOwned, [Next]_fridaVars
  PROVE  ClientsOwned'
<1>1. ASSUME NEW s \in Sessions, NEW i \in Indices(s)', ledger'[s][i].kind = "client",
             ledger'[s][i].proc = op'.client, op'.client # 0
      PROVE  s = op'.on
  <2>1. CASE op'.client = op.client /\ op'.on = op.on
    BY <1>1, <2>1, ClientEntries DEF ClientsOwned
  <2>2. CASE Runs
    <3>1. pc = "popen" /\ op'.client = started + 1
      BY <2>2 DEF Runs
    <3>2. PICK j \in Indices(s) : ledger[s][j].proc = started + 1
      BY <1>1, <3>1, ClientEntries
    <3>3. ledger[s][j].proc <= started
      BY DEF EntriesFit, EntryFits
    <3>4. started \in Nat
      BY NumberTypes
    <3>. QED BY <3>2, <3>3, <3>4
  <2>. QED BY <1>1, <2>1, <2>2, MadeSteps DEF MadeStep, Nothing, NoMore, Uses, Owns, Launches
<1>2. ASSUME NEW s \in Sessions, NEW i \in Indices(s)', ledger'[s][i].kind = "client",
             NEW t \in Sessions, NEW j \in Indices(t)', ledger'[t][j].kind = "client",
             ledger'[t][j].proc = ledger'[s][i].proc
      PROVE  s = t
  <2>0. pc = "recordClient" => op.client # 0
    BY StartFitsParts DEF Shape, SoFar
  <2>1. CASE i \in Indices(s) /\ ledger[s][i].kind = "client" /\ ledger'[s][i].proc = ledger[s][i].proc
    BY <1>2, <2>0, <2>1, ClientEntries DEF ClientsOwned
  <2>2. CASE s = op.on /\ pc = "recordClient" /\ ledger'[s][i].proc = op.client
    BY <1>2, <2>0, <2>2, ClientEntries DEF ClientsOwned
  <2>. QED BY <1>2, <2>1, <2>2, ClientEntries
<1>. QED BY <1>1, <1>2 DEF ClientsOwned

\* Nothing fails, dies or happens on its own.
Quiet == faults = 0 /\ crashes = 0 /\ outside = 0
\* A step after which all is quiet is a step of an operation, or none.
LEMMA QuietSteps ==
  ASSUME Shape, [Next]_fridaVars, Quiet'
  PROVE  /\ Quiet /\ outside' = outside /\ ~Fault /\ ~Crash /\ ~Interference
         /\ (\E s \in Sessions : StartLock(s) \/ StopLock(s) \/ CleanupLock(s))
            \/ OperationStep \/ UNCHANGED fridaVars
<1>0. faults' = 0 /\ crashes' = 0 /\ outside' = 0
  BY DEF Quiet
<1>1. faults = 0 /\ crashes = 0 /\ ~Fault
  BY <1>0, FaultCounts
<1>2. outside = 0 /\ outside' = outside
  BY <1>0, ProcessSteps DEF ProcessStep
<1>3. Crash => crashes' = 1
  BY <1>1 DEF Crash
<1>4. Interference => outside' = 1
  BY <1>2 DEF Interference, FridaEnvironment, OutsiderStartsServer, ServerExits, ClientExits, Reboot,
              FridaPidReused, Happens
<1>. QED BY <1>0, <1>1, <1>2, <1>3, <1>4 DEF Next, Quiet

\* The steps of a start that has its server, and its client.
Serves == {"recordServer", "identify", "popen", "handshake", "recordClient", "running"}
Holds == {"handshake", "recordClient", "running"}
ServingNext(n) == \E x \in servers' : x.id = n
\* Serving in the next state.
LEMMA ServingPrimed == \A n : Serving(n)' <=> ServingNext(n)
  BY DEF Serving, ServingNext

\* Once a start uses a server it goes on with it, and so with its client.
LEMMA Keeping ==
  ASSUME Shape, [Next]_fridaVars, pc' \in Serves
  PROVE  \/ /\ pc \in Serves /\ op'.server = op.server
            /\ pc' \in Holds => op'.client \in clients' \/ (pc \in Holds /\ op'.client = op.client)
         \/ pc' \notin Holds /\ ServingNext(op'.server)
<1>. DEFINE Goal == \/ /\ pc \in Serves /\ op'.server = op.server
                       /\ pc' \in Holds => op'.client \in clients' \/ (pc \in Holds /\ op'.client = op.client)
                    \/ pc' \notin Holds /\ ServingNext(op'.server)
<1>1. StartProbe => Goal
  <2>1. ASSUME StartProbe PROVE UNCHANGED servers
    BY <2>1 DEF StartProbe, fridaDeviceVars
  <2>2. StartProbe => pc' = "popen" /\ \E x \in servers : op'.server = x.id
    BY StartEffects DEF Serves
  <2>. QED BY <2>1, <2>2 DEF ServingNext, Holds
<1>2. StartLaunch => Goal
  <2>1. ASSUME StartLaunch PROVE servers' = servers \cup {[id |-> started + 1, by |-> op.on]}
    BY <2>1 DEF StartLaunch, LaunchServer, Serves
  <2>2. StartLaunch => pc' = "recordServer" /\ op'.server = started + 1
    BY StartEffects DEF Goes, Serves
  <2>3. [id |-> started + 1, by |-> op.on].id = started + 1
    OBVIOUS
  <2>4. StartLaunch => ServingNext(started + 1)
    BY <2>1, <2>3 DEF ServingNext
  <2>. QED BY <2>2, <2>4 DEF Holds
<1>3. StartClient => Goal
  BY StartEffects, CallEffects DEF LaunchClient, Serves, Holds
<1>4. StartHandshake \/ StartIdentify => Goal
  BY StartEffects, IdentifyEffect DEF Goes, Serves, Holds
<1>5. StartRecordServer \/ StartRecordClient => Goal
  BY RecordEffects DEF Records, Goes, Serves, Holds
<1>6. ~StartRecordFile /\ ~StartPush
  BY RecordEffects, StartEffects DEF Records, Goes, Serves
<1>7. ~StartRefused /\ ~StartRunning /\ ~StartRaises /\ ~BeginRollback /\ ~RollbackNothing
      /\ ~EndRollback /\ ~StartDropClient
  BY StartEffects, BeginEffects DEF Goes, Serves, Returned
<1>8. ~StopStep /\ ~CleanupStep /\ ~Crash
  <2>1. ~StopBegin /\ ~BeginCleanup
    BY BeginEffects DEF Serves
  <2>2. ~StopEvidence /\ ~StopPersist /\ ~StopActivate /\ ~StopRaises /\ ~ReturnCleaned /\ ~EndCleanup /\ ~Crash
    BY StopEffects DEF Goes, Serves, Returned
  <2>. QED BY <2>1, <2>2 DEF StopStep, CleanupStep
<1>9. ~Decide /\ ~Apply /\ ~Mark
  BY DecideEffect, ApplyEffect, MarkStep DEF Serves, AfterActions
<1>10. \A s \in Sessions : ~StartLock(s) /\ ~StopLock(s) /\ ~CleanupLock(s)
  BY Locks DEF Serves
<1>11. Interference \/ UNCHANGED fridaVars => Goal
  <2>1. Interference \/ UNCHANGED fridaVars => UNCHANGED <<pc, op>>
    BY DEF Interference, fridaVars
  <2>2. UNCHANGED <<pc, op>> => Goal
    OBVIOUS
  <2>. QED BY <2>1, <2>2
<1>. HIDE DEF Goal
<1>12. Goal
  BY <1>1, <1>2, <1>3, <1>4, <1>5, <1>6, <1>7, <1>8, <1>9, <1>10, <1>11 DEF Next, OperationStep, StartStep
<1>. QED BY <1>12 DEF Goal

\* A stop on its way to what it writes to state.json.
GivingBack == pc = "stop" \/ (op.phase = "stop" /\ pc \in ExecutingLabels \cup {"evidence", "stopped"})
GivingBackNext == pc' = "stop" \/ (op'.phase = "stop" /\ pc' \in ExecutingLabels \cup {"evidence", "stopped"})
\* Server and client of session s run, and its ledger covers the client.
Alive(s) == Serving(observer[s].server) /\ \E n \in clients : Owes(s, "client", n)
AliveNext(s) == ServingNext(observer'[s].server) /\ \E n \in clients' : OwesNext(s, "client", n)

\* While all is quiet, an observation that state.json calls running is alive or
\* being stopped, and a start still has the server and the client it is to use.
Observing == Quiet =>
  /\ \A s \in Sessions : observer[s].status = "running" => Alive(s) \/ (op.on = s /\ GivingBack)
  /\ pc # "idle" /\ ~GivingBack => observer[op.on].status # "running"
  /\ pc \in Serves => Serving(op.server)
  /\ pc \in Holds => op.client \in clients

\* A stop goes on until state.json says that it is over.
LEMMA GivingBackGoesOn ==
  ASSUME Shape, [Next]_fridaVars, Quiet', GivingBack
  PROVE  (GivingBackNext /\ op'.on = op.on) \/ (op.on \in Sessions /\ observer'[op.on].status # "running")
<1>. DEFINE Goal == (GivingBackNext /\ op'.on = op.on) \/ (op.on \in Sessions /\ observer'[op.on].status # "running")
<1>0. pc \in {"stop", "next", "apply", "mark", "evidence", "stopped"} /\ (pc # "stop" => op.phase = "stop")
      /\ ~Fault /\ ~Crash /\ ~Interference
  BY QuietSteps DEF GivingBack, ExecutingLabels
<1>1. StopBegin => Goal
  BY BeginEffects DEF GivingBackNext, ExecutingLabels, Walks, SameSoFar
<1>2. StopEvidence => Goal
  BY <1>0, StopEffects DEF GivingBackNext, Walks, SameSoFar
<1>3. StopPersist => Goal
  <2>1. ASSUME StopPersist PROVE /\ op.on \in Sessions
                                 /\ observer'[op.on].status = IF op.errors THEN "stop_failed" ELSE "stopped"
    <3>1. op.on \in Sessions /\ observer \in [Sessions -> Observers]
      BY <1>0, ShapeParts
    <3>. QED BY <2>1, <3>1 DEF StopPersist, Observers
  <2>. QED BY <2>1
<1>4. Decide => Goal
  BY <1>0, DecideEffect DEF GivingBackNext, ExecutingLabels, Walks, SameSoFar
<1>5. Apply => Goal
  BY <1>0, ApplyEffect DEF GivingBackNext, ExecutingLabels, Walks, SameSoFar
<1>6. Mark => Goal
  BY <1>0, MarkStep DEF GivingBackNext, ExecutingLabels, Walks, SameSoFar, AfterActions
<1>7. ~StartStep
  <2>1. ~StartRecordFile /\ ~StartRecordServer /\ ~StartRecordClient /\ ~StartIdentify
    BY <1>0, RecordEffects, IdentifyEffect DEF Records
  <2>2. ~BeginRollback
    BY <1>0, BeginEffects
  <2>3. ~StartRaises
    BY <1>0, StartEffects DEF StartLabels
  <2>4. ~StartProbe /\ ~StartRefused /\ ~StartPush /\ ~StartLaunch /\ ~StartClient /\ ~StartHandshake /\ ~StartRunning
        /\ ~RollbackNothing /\ ~EndRollback /\ ~StartDropClient
    BY <1>0, StartEffects
  <2>. QED BY <2>1, <2>2, <2>3, <2>4 DEF StartStep
<1>8. ~StopActivate /\ ~StopRaises /\ ~CleanupStep
  <2>1. ~StopRaises
    BY <1>0 DEF StopRaises
  <2>2. ~StopActivate /\ ~ReturnCleaned /\ ~EndCleanup /\ ~BeginCleanup
    BY <1>0, StopEffects, BeginEffects
  <2>. QED BY <2>1, <2>2 DEF CleanupStep
<1>9. \A s \in Sessions : ~StartLock(s) /\ ~StopLock(s) /\ ~CleanupLock(s)
  BY <1>0, Locks DEF Begun
<1>10. UNCHANGED fridaVars => Goal
  BY <1>0 DEF fridaVars, GivingBackNext, ExecutingLabels
<1>. HIDE DEF Goal
<1>11. Goal
  BY <1>1, <1>2, <1>3, <1>4, <1>5, <1>6, <1>7, <1>8, <1>9, <1>10, QuietSteps DEF OperationStep, StopStep
<1>. QED BY <1>11 DEF Goal

\* An operation works on one session.
LEMMA SameSession ==
  ASSUME Shape, [Next]_fridaVars, pc # "idle", pc' # "idle"
  PROVE  op'.on = op.on
<1>1. Walks \/ Makes => op'.on = op.on
  BY DEF Walks, SameSoFar, Makes, SameCall
<1>2. \A s \in Sessions : ~Calls(s)
  BY DEF Calls, Begun
<1>3. ~Returned
  BY DEF Returned
<1>4. Goes("rollback") \/ Goes("dropClient") \/ Goes("activate") \/ Goes("cleanup") => op'.on = op.on
  BY DEF Goes
<1>. QED BY <1>1, <1>2, <1>3, <1>4, OpSteps
     DEF OpStep, StartsOn, Rolls, Drops, RollsOn, StopsOn, CleansOn, Decides, Applies, Marks, Registers, Activates, Cleans

\* Only a stop, or a cleanup that stops first, is called for a running observation.
LEMMA CalledForRunning ==
  ASSUME Shape, [Next]_fridaVars, pc = "idle", pc' # "idle", op'.on \in Sessions,
         observer[op'.on].status = "running"
  PROVE  GivingBackNext
<1>1. ASSUME NEW s \in Sessions, StartLock(s) PROVE FALSE
  <2>1. observer[s].status # "running" /\ op'.on = s
    BY <1>1, Locks DEF StartLock, Begun
  <2>. QED BY <2>1
<1>2. ASSUME NEW s \in Sessions, StopLock(s) PROVE pc' = "stop"
  BY <1>2 DEF StopLock
<1>3. ASSUME NEW s \in Sessions, CleanupLock(s) PROVE pc' = "stop"
  <2>1. op'.on = s
    BY <1>3, Locks DEF Begun
  <2>. QED BY <1>3, <2>1 DEF CleanupLock
<1>4. ~OperationStep
  <2>1. ~StartStep
    <3>1. ~StartRecordFile /\ ~StartRecordServer /\ ~StartRecordClient /\ ~StartIdentify
      BY RecordEffects, IdentifyEffect DEF Records
    <3>2. ~BeginRollback
      BY BeginEffects
    <3>3. ~StartRaises
      BY StartEffects DEF StartLabels
    <3>4. ~StartProbe /\ ~StartRefused /\ ~StartPush /\ ~StartLaunch /\ ~StartClient /\ ~StartHandshake /\ ~StartRunning
          /\ ~RollbackNothing /\ ~EndRollback /\ ~StartDropClient
      BY StartEffects
    <3>. QED BY <3>1, <3>2, <3>3, <3>4 DEF StartStep
  <2>2. ~StopStep /\ ~CleanupStep
    BY StopEffects, BeginEffects DEF StopStep, CleanupStep
  <2>. QED BY <2>1, <2>2, DecideEffect, ApplyEffect, MarkStep DEF OperationStep
<1>5. ~Crash /\ ~Interference /\ ~UNCHANGED fridaVars
  BY DEF Crash, Interference, fridaVars
<1>. QED BY <1>1, <1>2, <1>3, <1>4, <1>5 DEF Next, GivingBackNext

\* A quiet step ends no process but for an action in hand or an unrecorded client.
LEMMA QuietEnds ==
  ASSUME Shape, [Next]_fridaVars, Quiet'
  PROVE  /\ \A x \in servers : x \in servers' \/ KilledBy(x.id)
         /\ \A n \in clients : n \in clients' \/ KilledBy(n)
  BY QuietSteps, ProcessSteps DEF ProcessStep

\* A kill hits the server or the client that its operation's ledger names.
LEMMA KillsOwn ==
  ASSUME Shape, Names, EntriesFit, ClientsOwned, Apart, Numbers, [Next]_fridaVars, NEW s \in Sessions,
         s # op.on, observer[s].status = "running"
  PROVE  /\ \A x \in servers : x.id = observer[s].server => ~KilledBy(x.id)
         /\ \A n \in clients : Owes(s, "client", n) => ~KilledBy(n)
<1>1. ASSUME pc = "apply", Action.kind # "file"
      PROVE  /\ op.on \in Sessions /\ op.current \in Indices(op.on)
             /\ Action.kind \in {"server", "client"} /\ EntryFits(op.on, op.current)
  <2>1. op.on \in Sessions /\ op.current \in Indices(op.on) /\ Action \in Entries
    BY <1>1, InHand DEF ExecutingLabels
  <2>2. Action.kind \in FridaKinds
    BY <2>1 DEF Entries
  <2>. QED BY <1>1, <2>1, <2>2 DEF FridaKinds, EntriesFit
<1>2. ASSUME NEW x \in servers, x.id = observer[s].server, KilledBy(x.id) PROVE FALSE
  <2>1. pc = "apply" /\ Action.kind # "file" /\ x.id = Action.proc
    BY <1>2 DEF KilledBy, Names
  <2>2. Action.kind = "server"
    BY <1>1, <2>1 DEF EntryFits, Action
  <2>3. Absent(Action.proc)
    BY <1>1, <1>2, <2>1, <2>2 DEF Apart, Action
  <2>. QED BY <2>1, <2>3 DEF Absent
<1>3. ASSUME NEW n \in clients, Owes(s, "client", n), KilledBy(n) PROVE FALSE
  <2>1. PICK i \in Indices(s) : ledger[s][i].kind = "client" /\ ledger[s][i].proc = n
    BY <1>3 DEF Owes, Unsettled
  <2>2. CASE pc = "apply" /\ Action.kind # "file" /\ n = Action.proc
    <3>1. Action.kind = "client"
      BY <1>1, <1>3, <2>2 DEF EntryFits, Action
    <3>. QED BY <1>1, <2>1, <2>2, <3>1 DEF ClientsOwned, Action
  <2>3. CASE n = op.client
    <3>1. n # 0
      BY NumberTypes
    <3>. QED BY <2>1, <2>3, <3>1 DEF ClientsOwned
  <2>. QED BY <1>3, <2>2, <2>3 DEF KilledBy
<1>. QED BY <1>2, <1>3

\* An observation stays alive while no operation of its session gives it back.
LEMMA StaysAlive ==
  ASSUME Shape, Numbers, Names, EntriesFit, GivenBack, ClientsOwned, Apart, [Next]_fridaVars, Quiet', spared = {},
         NEW s \in Sessions, s # op.on \/ pc \notin {"apply", "dropClient"},
         observer[s].status = "running", Alive(s), observer'[s].server = observer[s].server
  PROVE  AliveNext(s)
<1>1. PICK x \in servers : x.id = observer[s].server
  BY DEF Alive, Serving
<1>2. PICK n \in clients : Owes(s, "client", n)
  BY DEF Alive
<1>3. ~KilledBy(x.id) /\ ~KilledBy(n)
  <2>1. CASE s # op.on
    BY <1>1, <1>2, <2>1, KillsOwn
  <2>2. CASE pc \notin {"apply", "dropClient"}
    BY <2>2 DEF KilledBy
  <2>. QED BY <2>1, <2>2
<1>4. x \in servers' /\ n \in clients'
  BY <1>3, QuietEnds
<1>5. ~Over("client", n)
  BY DEF Over, Absent
<1>6. OwesNext(s, "client", n)
  BY <1>2, <1>5, OwesProcess
<1>. QED BY <1>1, <1>4, <1>6 DEF AliveNext, ServingNext

\* A start that succeeds leaves an observation that is alive.
LEMMA BecomesAlive ==
  ASSUME Shape, Numbers, EntriesFit, GivenBack, [Next]_fridaVars, pc = "running", StartRunning,
         Serving(op.server), op.client \in clients, spared = {}, NEW s \in Sessions, s = op.on,
         observer'[s].server = op.server
  PROVE  AliveNext(s)
<1>1. UNCHANGED <<servers, clients>>
  BY DEF StartRunning, fridaDeviceVars
<1>2. op.ids["client"] # 0 /\ "client" \in FridaKinds /\ Made("client") = op.client
  BY StartFitsParts, KindFacts DEF Shape, SoFar, Made
<1>3. Owes(s, "client", op.client)
  BY <1>2, IdOwes DEF StartLabels
<1>4. ~Over("client", op.client)
  BY DEF Over, Absent
<1>5. OwesNext(s, "client", op.client)
  BY <1>3, <1>4, OwesProcess
<1>. QED BY <1>1, <1>5 DEF AliveNext, ServingNext, Serving

\* Observing in the next state, where all is quiet.
ObservingNext ==
  /\ \A s \in Sessions : observer'[s].status = "running" => AliveNext(s) \/ (op'.on = s /\ GivingBackNext)
  /\ pc' # "idle" /\ ~GivingBackNext => observer'[op'.on].status # "running"
  /\ pc' \in Serves => ServingNext(op'.server)
  /\ pc' \in Holds => op'.client \in clients'

\* Every step keeps Observing.
LEMMA ObservingStep ==
  ASSUME Shape, Numbers, Names, EntriesFit, GivenBack, ClientsOwned, Apart, Unspared, Observing, [Next]_fridaVars
  PROVE  Observing'
<1>. SUFFICES ASSUME Quiet' PROVE ObservingNext
  <2>1. ObservingNext /\ Quiet' => Observing'
    BY ServingPrimed, OwesPrimed DEF ObservingNext, Observing, Alive, AliveNext, GivingBack, GivingBackNext, ServingNext, Serving
  <2>2. ~Quiet' => Observing'
    BY DEF Observing
  <2>. QED BY <2>1, <2>2
<1>0. /\ Quiet /\ spared = {} /\ ~Fault /\ ~Crash
      /\ \A s \in Sessions : observer[s].status = "running" => Alive(s) \/ (op.on = s /\ GivingBack)
      /\ pc # "idle" /\ ~GivingBack => observer[op.on].status # "running"
      /\ pc \in Serves => Serving(op.server)
      /\ pc \in Holds => op.client \in clients
  BY QuietSteps DEF Observing, Unspared, Quiet
<1>1. ASSUME NEW s \in Sessions, observer'[s].status = "running"
      PROVE  AliveNext(s) \/ (op'.on = s /\ GivingBackNext)
  <2>1. CASE pc = "running" /\ StartRunning /\ s = op.on /\ observer'[s].server = op.server
    BY <1>0, <2>1, BecomesAlive DEF Serves, Holds
  <2>2. CASE observer[s].status = "running" /\ observer'[s].server = observer[s].server
    <3>1. CASE op.on = s /\ GivingBack
      BY <1>1, <3>1, GivingBackGoesOn
    <3>2. CASE ~(op.on = s /\ GivingBack)
      <4>1. Alive(s)
        BY <1>0, <2>2, <3>2
      <4>2. s # op.on \/ pc = "idle"
        BY <1>0, <2>2, <3>2
      <4>. QED BY <1>0, <2>2, <4>1, <4>2, StaysAlive
    <3>. QED BY <3>1, <3>2
  <2>. QED BY <1>1, <2>1, <2>2, RunningObservers
<1>2. ASSUME pc' # "idle", op'.on \in Sessions, ~GivingBackNext, observer'[op'.on].status = "running" PROVE FALSE
  <2>1. CASE pc = "running" /\ StartRunning
    BY <1>0, <1>2, <2>1, StartEffects DEF StartRunning, Return
  <2>2. CASE observer[op'.on].status = "running"
    <3>1. CASE pc = "idle"
      BY <1>2, <2>2, <3>1, CalledForRunning
    <3>2. CASE pc # "idle"
      <4>1. op'.on = op.on
        BY <1>2, <3>2, SameSession
      <4>2. GivingBack
        BY <1>0, <2>2, <3>2, <4>1
      <4>. QED BY <1>2, <4>1, <4>2, GivingBackGoesOn
    <3>. QED BY <3>1, <3>2
  <2>. QED BY <1>2, <2>1, <2>2, RunningObservers
<1>3. pc' # "idle" => op'.on \in Sessions
  BY ShapeStep DEF Shape, OpFits
<1>4. ASSUME pc' \in Serves PROVE ServingNext(op'.server)
  <2>1. CASE pc \in Serves /\ op'.server = op.server
    <3>1. PICK x \in servers : x.id = op.server
      BY <1>0, <2>1 DEF Serving
    <3>2. ~KilledBy(x.id)
      BY <2>1 DEF KilledBy, Serves
    <3>. QED BY <2>1, <3>1, <3>2, QuietEnds DEF ServingNext
  <2>. QED BY <1>4, <2>1, Keeping
<1>5. ASSUME pc' \in Holds PROVE op'.client \in clients'
  <2>1. pc' \in Serves
    BY <1>5 DEF Holds, Serves
  <2>2. CASE pc \in Holds /\ op'.client = op.client
    <3>1. op.client \in clients /\ ~KilledBy(op.client)
      BY <1>0, <2>2 DEF KilledBy, Holds
    <3>. QED BY <2>2, <3>1, QuietEnds
  <2>. QED BY <1>5, <2>1, <2>2, Keeping
<1>. QED BY <1>1, <1>2, <1>3, <1>4, <1>5 DEF ObservingNext

(***************************************************************************)
(* The inductive invariant                                                 *)
(***************************************************************************)
\* All parts together.
IInv ==
  /\ Shape /\ Numbers /\ Names /\ EntriesFit /\ GivenBack /\ SettledGone /\ NotStray /\ Apart
  /\ ReadyMeans /\ Identified /\ FailCause /\ FilesAreOwed /\ ClientsCounted /\ ServersCounted
  /\ ClientsOwned /\ Unspared /\ Observing

\* The invariant holds at first.
LEMMA IInvInit == ASSUME Init PROVE IInv
<1>0. /\ servers = {} /\ clients = {} /\ file = {} /\ occupied = {} /\ started = 0 /\ stray = FALSE
      /\ pc = "idle" /\ op = NoOp /\ faults = 0 /\ crashes = 0 /\ spared = {}
      /\ observer = [s \in Sessions |-> NoObserver] /\ ledger = [s \in Sessions |-> <<>>]
      /\ status = [s \in Sessions |-> "active"]
  BY DEF Init, FridaDeviceInit
<1>1. Shape
  BY ShapeInit
<1>2. NoOp.server = 0 /\ NoOp.client = 0 /\ ~NoOp.owned /\ NoOp.ready
  BY DEF NoOp
<1>3. \A s \in Sessions : Indices(s) = {}
  BY <1>0 DEF Indices
<1>4. \A s \in Sessions : observer[s].server = 0 /\ observer[s].status = "none"
  BY <1>0 DEF NoObserver
<1>5. Numbers
  BY <1>0 DEF Numbers
<1>6. Names
  BY <1>0, <1>2, <1>4 DEF Names
<1>7. EntriesFit /\ SettledGone /\ (\A s \in Sessions : Gone(s))
  BY <1>3 DEF EntriesFit, SettledGone, Gone
<1>8. GivenBack /\ NotStray /\ ReadyMeans /\ FailCause /\ FilesAreOwed
  BY <1>0, <1>2 DEF GivenBack, NotStray, ReadyMeans, FailCause, FilesAreOwed
<1>9. Apart
  BY <1>3, <1>7 DEF Apart
<1>10. Identified
  BY <1>3 DEF Identified
<1>11. OrphanClients = {} /\ Unclaimed = {}
  BY <1>0 DEF OrphanClients, Unclaimed
<1>12. ClientsCounted /\ ServersCounted
  BY <1>0, <1>11, FS_EmptySet DEF ClientsCounted, ServersCounted
<1>13. ClientsOwned /\ Unspared /\ Observing
  BY <1>0, <1>3, <1>4 DEF ClientsOwned, Unspared, Observing, Serves, Holds
<1>. QED BY <1>1, <1>5, <1>6, <1>7, <1>8, <1>9, <1>10, <1>12, <1>13 DEF IInv

\* Every step keeps the invariant.
LEMMA IInvStep == ASSUME IInv, [Next]_fridaVars PROVE IInv'
<1>0. /\ Shape /\ Numbers /\ Names /\ EntriesFit /\ GivenBack /\ SettledGone /\ NotStray /\ Apart
      /\ ReadyMeans /\ Identified /\ FailCause /\ FilesAreOwed /\ ClientsCounted /\ ServersCounted
      /\ ClientsOwned /\ Unspared /\ Observing
  BY DEF IInv
<1>1. Shape' /\ Numbers' /\ Names' /\ EntriesFit'
  BY <1>0, ShapeStep, NumbersStep, NamesStep, EntriesFitStep
<1>2. GivenBack' /\ SettledGone' /\ NotStray'
  BY <1>0, GivenBackStep, SettledGoneStep, NotStrayStep
<1>3. Apart' /\ ReadyMeans' /\ Identified'
  BY <1>0, ApartStep, ReadyStep, IdentifiedStep
<1>4. FailCause' /\ FilesAreOwed'
  BY <1>0, FailCauseStep, FilesAreOwedStep
<1>5. ClientsCounted' /\ ServersCounted'
  BY <1>0, ClientsCountedStep, ServersCountedStep
<1>6. ClientsOwned' /\ Unspared' /\ Observing'
  BY <1>0, ClientsOwnedStep, UnsparedStep, ObservingStep
<1>. QED BY <1>1, <1>2, <1>3, <1>4, <1>5, <1>6 DEF IInv

\* The invariant holds in every reachable state.
THEOREM Invariance == Spec => []IInv
<1>1. Init => IInv
  BY IInvInit
<1>2. IInv /\ [Next]_fridaVars => IInv'
  BY IInvStep
<1>. QED BY <1>1, <1>2, PTL DEF Spec

\* What the ledgers say is so, whatever fails or dies: once an action on a
\* process is settled the process does not run, but for a client for which
\* OpenProcess was refused or the wait for its end ran out, and with no call
\* failing an action on a process that runs can fail only because an operation
\* died before it had recorded who the process is (frida_controller.py,
\* cleanup.py, host_process.py).
THEOREM LedgersAreTruthful == Spec => []LedgerTruthful
<1>1. IInv => LedgerTruthful
  <2>. SUFFICES ASSUME IInv PROVE LedgerTruthful
    OBVIOUS
  <2>0. Shape /\ SettledGone /\ FailCause
    BY DEF IInv
  <2>1. TypeOK
    BY <2>0 DEF Shape
  <2>2. SettledMeansGone
    <3>1. ASSUME NEW s \in Sessions, NEW i \in Indices(s), i \notin Unsettled(s), ledger[s][i].kind # "file"
          PROVE  ~Running(ledger[s][i].proc) \/ (ledger[s][i].kind = "client" /\ ledger[s][i].proc \in spared)
      <4>1. Over(ledger[s][i].kind, ledger[s][i].proc)
        BY <2>0, <3>1 DEF SettledGone, Unsettled
      <4>. QED BY <4>1, Absence DEF Over
    <3>. QED BY <3>1 DEF SettledMeansGone
  <2>3. FailureHasCause
    <3>1. Running(Action.proc) <=> ~Absent(Action.proc)
      BY Absence
    <3>. QED BY <2>0, <3>1 DEF FailureHasCause, FailCause
  <2>. QED BY <2>1, <2>2, <2>3 DEF LedgerTruthful
<1>. QED BY <1>1, Invariance, PTL

\* Processes and files of the framework that no ledger and no operation under
\* way knows are no more than the deaths and failures that explain them; clients
\* that a call of the OS let pass for ended are set apart.
THEOREM LeftoversAreExplained == Spec => []LeftoversHaveCause
<1>1. IInv => LeftoversHaveCause
  <2>. SUFFICES ASSUME IInv PROVE LeftoversHaveCause
    OBVIOUS
  <2>0. Shape /\ FilesAreOwed /\ ClientsCounted /\ ServersCounted
    BY DEF IInv
  <2>1. OrphanServers \subseteq Unclaimed
    BY DEF OrphanServers, Unclaimed
  <2>2. Cardinality(OrphanServers) <= Cardinality(Unclaimed) /\ Cardinality(OrphanServers) \in Nat
        /\ Cardinality(Unclaimed) \in Nat
    BY <2>0, <2>1, NoMoreOf DEF ServersCounted
  <2>3. Cardinality(Unclaimed) <= crashes + faults
    BY <2>0 DEF ServersCounted
  <2>4. crashes \in Nat /\ faults \in Nat
    BY <2>0, Constants DEF Shape, TypeOK
  <2>5. Cardinality(OrphanServers) <= crashes + faults
    BY <2>2, <2>3, <2>4
  <2>. QED BY <2>0, <2>5 DEF LeftoversHaveCause, OrphansHaveCause, ClientsCounted
<1>. QED BY <1>1, Invariance, PTL

\* Whom a step ends.
LEMMA EndedServers ==
  ASSUME IInv, [Next]_fridaVars, outside' = outside, NEW x \in servers, x \notin servers'
  PROVE  /\ x.by = op.on /\ op.on \in Sessions
         /\ \E i \in Indices(op.on) : ledger[op.on][i].kind = "server" /\ ledger[op.on][i].proc = x.id
<1>0. Shape /\ Names /\ EntriesFit
  BY DEF IInv
<1>1. KilledBy(x.id)
  BY <1>0, ProcessSteps DEF ProcessStep
<1>2. pc = "apply" /\ Action.kind # "file" /\ x.id = Action.proc
  BY <1>0, <1>1 DEF KilledBy, Names
<1>3. op.on \in Sessions /\ op.current \in Indices(op.on)
  BY <1>0, <1>2 DEF Shape, OpFits, ExecutingLabels
<1>4. Action.kind \in FridaKinds
  BY <1>0, <1>3 DEF Action, Shape, TypeOK, Entries, Indices
<1>5. EntryFits(op.on, op.current)
  BY <1>0, <1>3 DEF EntriesFit
<1>6. Action.kind = "server"
  BY <1>2, <1>4, <1>5 DEF EntryFits, Action, FridaKinds
<1>. QED BY <1>2, <1>3, <1>5, <1>6 DEF EntryFits, Action

\* No operation ends a process it did not start, also when a PID was handed out
\* again, nor the server that the running observation of another session uses.
THEOREM EndsOwnOnly == Spec => EndsOnlyItsOwn
<1>1. IInv /\ [Next]_fridaVars => OwnServersOnly
  <2>. SUFFICES ASSUME IInv, [Next]_fridaVars PROVE OwnServersOnly
    OBVIOUS
  <2>1. ~stray'
    BY IInvStep DEF IInv, NotStray
  <2>. QED BY <2>1, EndedServers DEF OwnServersOnly
<1>2. IInv /\ [Next]_fridaVars => RunningUndisturbed
  <2>. SUFFICES ASSUME IInv, [Next]_fridaVars, NEW t \in Sessions \ {op.on},
                       observer[t].status = "running", outside' = outside,
                       NEW x \in servers, x.id = observer[t].server
                PROVE  x \in servers' /\ observer'[t].server = observer[t].server
    BY DEF RunningUndisturbed, Undisturbed, Serving
  <2>0. Shape /\ Apart
    BY DEF IInv
  <2>1. observer'[t].server = observer[t].server
    BY <2>0, ObserverServers
  <2>2. ASSUME x \notin servers' PROVE FALSE
    <3>1. PICK i \in Indices(op.on) : ledger[op.on][i].kind = "server" /\ ledger[op.on][i].proc = x.id
      BY <2>2, EndedServers
    <3>2. op.on \in Sessions
      BY <2>2, EndedServers
    <3>3. Absent(x.id)
      BY <2>0, <3>1, <3>2 DEF Apart
    <3>. QED BY <3>3 DEF Absent
  <2>. QED BY <2>1, <2>2
<1>. QED BY <1>1, <1>2, Invariance, PTL DEF Spec, EndsOnlyItsOwn

\* While nothing fails, dies or happens on its own, an observation that
\* state.json calls running has its server and a client that its ledger covers.
THEOREM RunningIsAlive == Spec => []RunningIsLive
<1>1. IInv => RunningIsLive
  <2>. SUFFICES ASSUME IInv, pc = "idle", faults = 0, crashes = 0, outside = 0,
                       NEW s \in Sessions, observer[s].status = "running"
                PROVE  Alive(s)
    BY DEF RunningIsLive, Alive
  <2>1. ~GivingBack
    BY DEF GivingBack, ExecutingLabels
  <2>. QED BY <2>1 DEF IInv, Observing, Quiet
<1>. QED BY <1>1, Invariance, PTL
=============================================================================
