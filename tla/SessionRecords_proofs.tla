------------------------ MODULE SessionRecords_proofs ------------------------
(***************************************************************************)
(* What is kept of a session, for every instance of the models.            *)
(*                                                                         *)
(* Documents: under the state lock reading, changing and writing a whole   *)
(* document is one step to everybody else, and nothing that a call has     *)
(* written is lost.  Findings: no validation is lost, and every verdict    *)
(* rests on evidence that covers it.  Certificates: the ledger is right    *)
(* about what the manager owns, and the manager takes away nothing that    *)
(* was there before it.                                                    *)
(***************************************************************************)
EXTENDS EvidenceIndex, FindingLifecycle, CaOwnership, FiniteSetTheorems, SequenceTheorems, TLAPS

(***************************************************************************)
(*                       The documents of a session                        *)
(***************************************************************************)

\* The bodies a thread is inside, by its place in the call.
DepthFits ==
  \A t \in Threads :
    /\ step[t] \in {"reading", "hashing", "hashed", "nesting"} => held[t] = 1
    /\ step[t] = "writing" => held[t] = (IF Registering(t) THEN 1 ELSE 2)

\* What a thread has read is still what is there when it writes.
ReadIsCurrent ==
  \A t \in Threads :
    step[t] \in {"hashing", "hashed", "nesting", "writing"} =>
      call[t].read.index = index /\ call[t].read.findings = findings

\* A call is about a file that exists, or about a validation.
CallFits ==
  \A t \in Threads :
    /\ step[t] \in {"hashing", "hashed"} => Registering(t)
    /\ step[t] = "nesting" => ~Registering(t)
    /\ step[t] # "idle" /\ Registering(t) => call[t].since \in 1..content[call[t].file]
    /\ step[t] # "idle" /\ ~Registering(t) => call[t].mark \in Marks

\* A hash is at least as new as the call and the entry it replaces, and no newer
\* than the file.
HashFits ==
  \A t \in Threads :
    /\ step[t] = "hashed" =>
         call[t].since <= call[t].from /\ call[t].from <= content[call[t].file]
    /\ step[t] = "writing" /\ Registering(t) =>
         /\ call[t].since <= call[t].from /\ call[t].from <= call[t].to
         /\ call[t].to <= content[call[t].file]
    /\ /\ step[t] = "hashed" \/ (step[t] = "writing" /\ Registering(t))
       /\ index[call[t].file] # NoEntry
       => index[call[t].file].to <= call[t].from

\* The index is not ahead of the files.
IndexBehind == \A f \in Files : index[f] # NoEntry => index[f].to <= content[f]

\* A call that leaves and will return has written.
Written ==
  \A t \in Threads : step[t] = "leaving" /\ call[t].returns =>
    IF Registering(t) THEN index[call[t].file] # NoEntry /\ call[t].since <= index[call[t].file].to
    ELSE marked[call[t].mark] < findings[call[t].mark]

Data == ReadIsCurrent /\ CallFits /\ HashFits /\ IndexBehind /\ Written /\ NothingForgotten
StoreInv == StoreTypeOK /\ BodyHasStateLock /\ DepthFits /\ Data

\* Two threads are never inside.
LEMMA Alone ==
  ASSUME StoreInv, NEW t \in Threads, NEW u \in Threads, step[t] \in Inside, step[u] \in Inside
  PROVE  t = u
  BY DEF StoreInv, BodyHasStateLock

\* The locals of a thread that is in no call.
LEMMA EmptyCall ==
  /\ NoCall \in StoreCall
  /\ NoCall.returns = FALSE /\ NoCall.file = NoEntry
  BY DEF NoCall, StoreCall, Documents

\* What the steps do to the locals of a call keeps their type.
LEMMA CallOfFile ==
  ASSUME NEW c \in StoreCall, NEW f \in Files, NEW n \in Nat, NEW s \in Nat
  PROVE  [c EXCEPT !.file = f, !.number = n, !.since = s, !.returns = TRUE] \in StoreCall
  BY DEF StoreCall

LEMMA CallOfMark ==
  ASSUME NEW c \in StoreCall, NEW m \in Marks
  PROVE  [c EXCEPT !.mark = m, !.returns = TRUE] \in StoreCall
  BY DEF StoreCall

LEMMA CallThatRead ==
  ASSUME NEW c \in StoreCall, NEW d \in Documents
  PROVE  [c EXCEPT !.read = d] \in StoreCall
  BY DEF StoreCall

LEMMA CallThatFailed ==
  ASSUME NEW c \in StoreCall
  PROVE  [c EXCEPT !.returns = FALSE] \in StoreCall
  BY DEF StoreCall

\* Nobody has called.
LEMMA StoreInitInv == ASSUME StoreAssumption, StoreInit PROVE StoreInv
<1>1. StoreTypeOK
  BY EmptyCall DEF StoreInit, StoreAssumption, StoreTypeOK, Steps
<1>2. BodyHasStateLock /\ DepthFits
  BY DEF StoreInit, StoreAssumption, BodyHasStateLock, DepthFits, Inside, Steps
<1>3. Data
  BY DEF StoreInit, Data, ReadIsCurrent, CallFits, HashFits, IndexBehind, Written, NothingForgotten
<1>. QED BY <1>1, <1>2, <1>3 DEF StoreInv

\* Every variable keeps its type.
LEMMA StoreTypeInv == ASSUME StoreAssumption, StoreInv, [StoreNext]_storeVars PROVE StoreTypeOK'
<1>. USE DEF StoreAssumption, storeLock, storeFiles, storeHistory, At, GoTo
<1>t. StoreTypeOK
  BY DEF StoreInv
<1>1. ASSUME NEW t \in Threads, Begin(t) PROVE StoreTypeOK'
  <2>1. \A f \in Files : content[f] \in Nat
    BY <1>t DEF StoreTypeOK
  <2>2. \E c \in StoreCall : call' = [call EXCEPT ![t] = c]
    <3>1. ASSUME NEW f \in Files PROVE
            [NoCall EXCEPT !.file = f, !.number = calls + 1, !.since = content[f], !.returns = TRUE] \in StoreCall
      <4>1. calls + 1 \in Nat
        BY <1>t DEF StoreTypeOK
      <4>. QED BY <2>1, <4>1, CallOfFile, EmptyCall
    <3>2. ASSUME NEW m \in Marks PROVE [NoCall EXCEPT !.mark = m, !.returns = TRUE] \in StoreCall
      BY CallOfMark, EmptyCall
    <3>. QED BY <1>1, <3>1, <3>2 DEF Begin
  <2>3. call' \in [Threads -> StoreCall]
    BY <1>t, <2>2 DEF StoreTypeOK
  <2>4. calls' \in 0..MaxCalls
    <3>1. calls \in 0..MaxCalls /\ calls < MaxCalls /\ calls' = calls + 1
      BY <1>1, <1>t DEF Begin, StoreTypeOK
    <3>. QED BY <3>1
  <2>5. step' \in [Threads -> Steps]
    BY <1>1, <1>t DEF Begin, StoreTypeOK, Steps
  <2>. QED BY <1>1, <1>t, <2>3, <2>4, <2>5 DEF Begin, StoreTypeOK
<1>2. ASSUME NEW t \in Threads, TryLock(t) PROVE StoreTypeOK'
  BY <1>2, <1>t DEF TryLock, EnterLock, StoreTypeOK, Steps, StoreInv, BodyHasStateLock, Inside
<1>3. ASSUME NEW t \in Threads, Busy(t) PROVE StoreTypeOK'
  BY <1>3, <1>t, EmptyCall DEF Busy, StoreTypeOK, Steps
<1>4. ASSUME NEW t \in Threads, ReadDocuments(t) PROVE StoreTypeOK'
  <2>1. [call[t] EXCEPT !.read = [index |-> index, findings |-> findings]] \in StoreCall
    <3>1. call[t] \in StoreCall /\ [index |-> index, findings |-> findings] \in Documents
      BY <1>t DEF StoreTypeOK, Documents
    <3>. QED BY <3>1, CallThatRead
  <2>2. call' \in [Threads -> StoreCall]
    BY <1>4, <1>t, <2>1 DEF ReadDocuments, StoreTypeOK
  <2>. QED BY <1>4, <1>t, <2>2 DEF ReadDocuments, StoreTypeOK, Steps
<1>5. ASSUME NEW t \in Threads, BeginHash(t) PROVE StoreTypeOK'
  <2>1. [call[t] EXCEPT !.from = content[call[t].file]] \in StoreCall
    BY <1>5, <1>t DEF BeginHash, StoreTypeOK, StoreCall, StoreInv, Data, CallFits, Registering
  <2>. QED BY <1>5, <1>t, <2>1 DEF BeginHash, StoreTypeOK, Steps
<1>6. ASSUME NEW t \in Threads, EndHash(t) PROVE StoreTypeOK'
  <2>1. [call[t] EXCEPT !.to = content[call[t].file]] \in StoreCall
    BY <1>6, <1>t DEF EndHash, StoreTypeOK, StoreCall, StoreInv, Data, CallFits, Registering
  <2>. QED BY <1>6, <1>t, <2>1 DEF EndHash, StoreTypeOK, Steps
<1>7. ASSUME NEW t \in Threads, Nest(t) PROVE StoreTypeOK'
  BY <1>7, <1>t DEF Nest, EnterLock, StoreTypeOK, Steps, StoreInv, DepthFits
<1>8. ASSUME NEW t \in Threads, WriteDocument(t) PROVE StoreTypeOK'
  <2>1. CASE Registering(t)
    <3>1. call[t].file \in Files /\ call[t].read.index \in [Files -> IndexEntry \cup {NoEntry}]
      BY <1>t, <2>1 DEF StoreTypeOK, StoreCall, Documents, Registering
    <3>2. NewEntry(t) \in IndexEntry
      BY <1>t, <3>1 DEF StoreTypeOK, StoreCall, NewEntry, IndexEntry
    <3>. QED BY <1>8, <1>t, <2>1, <3>1, <3>2 DEF WriteDocument, StoreTypeOK, Steps
  <2>2. CASE ~Registering(t)
    <3>1. call[t].read.findings \in [Marks -> Nat]
      BY <1>t DEF StoreTypeOK, StoreCall, Documents
    <3>2. findings' = [call[t].read.findings EXCEPT ![call[t].mark] = @ + 1]
      BY <1>8, <2>2 DEF WriteDocument
    <3>3. findings' \in [Marks -> Nat]
      <4>1. call[t].mark \in Marks => call[t].read.findings[call[t].mark] + 1 \in Nat
        BY <3>1
      <4>. QED BY <3>1, <3>2, <4>1
    <3>. QED BY <1>8, <1>t, <2>2, <3>3 DEF WriteDocument, StoreTypeOK, Steps
  <2>. QED BY <2>1, <2>2
<1>9. ASSUME NEW t \in Threads, LeaveLock(t) PROVE StoreTypeOK'
  <2>1. held[t] \in 1..2
    BY <1>9, <1>t DEF LeaveLock, StoreTypeOK, StoreInv, BodyHasStateLock, Inside, Steps
  <2>2. held' \in [Threads -> 0..2] /\ owner' \in Threads \cup {NoThread}
    BY <1>9, <1>t, <2>1 DEF LeaveLock, Exit, StoreTypeOK
  <2>3. CASE held[t] > 1
    BY <1>9, <1>t, <2>2, <2>3 DEF LeaveLock, StoreTypeOK
  <2>4. CASE ~(held[t] > 1)
    <3>1. step' \in [Threads -> Steps] /\ call' \in [Threads -> StoreCall]
      BY <1>9, <1>t, <2>4, EmptyCall DEF LeaveLock, StoreTypeOK, Steps
    <3>2. known' \in [Files -> 0..MaxVersion]
      <4>1. known' = [f \in Files |-> IF call[t].returns /\ f = call[t].file /\ known[f] < call[t].since
                                      THEN call[t].since ELSE known[f]]
        BY <1>9, <2>4 DEF LeaveLock
      <4>2. ASSUME NEW f \in Files, f = call[t].file PROVE call[t].since \in 0..MaxVersion
        <5>1. call[t].since \in 1..content[f] /\ content[f] \in 0..MaxVersion
          BY <1>9, <1>t, <4>2 DEF LeaveLock, StoreTypeOK, StoreInv, Data, CallFits, Registering
        <5>. QED BY <5>1
      <4>. QED BY <1>t, <4>1, <4>2 DEF StoreTypeOK
    <3>3. marked' \in [Marks -> Nat]
      <4>1. marked \in [Marks -> Nat]
        BY <1>t DEF StoreTypeOK
      <4>2. marked' = marked \/ marked' = [marked EXCEPT ![call[t].mark] = @ + 1]
        BY <1>9, <2>4 DEF LeaveLock
      <4>. QED BY <4>1, <4>2
    <3>. QED BY <1>9, <1>t, <2>2, <3>1, <3>2, <3>3 DEF LeaveLock, StoreTypeOK
  <2>. QED BY <2>3, <2>4
<1>10. ASSUME NEW t \in Threads, Fail(t) PROVE StoreTypeOK'
  <2>1. [call[t] EXCEPT !.returns = FALSE] \in StoreCall
    <3>1. call[t] \in StoreCall
      BY <1>t DEF StoreTypeOK
    <3>. QED BY <3>1, CallThatFailed
  <2>2. call' \in [Threads -> StoreCall]
    BY <1>10, <1>t, <2>1 DEF Fail, StoreTypeOK
  <2>3. storeFaults' \in 0..MaxStoreFaults /\ step' \in [Threads -> Steps]
    BY <1>10, <1>t DEF Fail, StoreTypeOK, Steps
  <2>. QED BY <1>10, <1>t, <2>2, <2>3 DEF Fail, StoreTypeOK
<1>11. ASSUME NEW t \in Threads, Die(t) PROVE StoreTypeOK'
  BY <1>11, <1>t, EmptyCall DEF Die, StoreTypeOK, Steps
<1>12. ASSUME NEW f \in Files, Capture(f) PROVE StoreTypeOK'
  BY <1>12, <1>t DEF Capture, StoreTypeOK
<1>13. CASE UNCHANGED storeVars
  BY <1>13, <1>t DEF storeVars, StoreTypeOK
<1>. QED BY <1>1, <1>2, <1>3, <1>4, <1>5, <1>6, <1>7, <1>8, <1>9, <1>10, <1>11, <1>12, <1>13
         DEF StoreNext, ThreadStep

\* Who is inside has the lock, as deep as its bodies.
LEMMA LockInv == ASSUME StoreAssumption, StoreInv, [StoreNext]_storeVars PROVE BodyHasStateLock' /\ DepthFits'
<1>. USE DEF StoreAssumption, storeLock, storeFiles, storeHistory, At, GoTo, BodyHasStateLock, DepthFits,
             Inside, Steps
<1>t. StoreTypeOK /\ BodyHasStateLock /\ DepthFits
  BY DEF StoreInv
<1>h. /\ \A u \in Threads : held[u] \in 0..2 /\ step[u] \in Steps
      /\ held \in [Threads -> 0..2] /\ step \in [Threads -> Steps] /\ call \in [Threads -> StoreCall]
      /\ NoThread \notin Threads
  BY <1>t DEF StoreTypeOK
<1>1. ASSUME NEW t \in Threads, Begin(t) PROVE BodyHasStateLock' /\ DepthFits'
  <2>1. \A u \in Threads \ {t} : call'[u] = call[u]
    BY <1>1, <1>h DEF Begin
  <2>2. step[t] = "idle" /\ step' = [step EXCEPT ![t] = "waiting"] /\ owner' = owner /\ held' = held
    BY <1>1 DEF Begin
  <2>. QED BY <1>t, <1>h, <2>1, <2>2 DEF Registering
<1>2. ASSUME NEW t \in Threads, TryLock(t) PROVE BodyHasStateLock' /\ DepthFits'
  BY <1>2, <1>t, <1>h DEF TryLock, EnterLock, Registering
<1>3. ASSUME NEW t \in Threads, Busy(t) PROVE BodyHasStateLock' /\ DepthFits'
  BY <1>3, <1>t, <1>h DEF Busy, Registering
<1>4. ASSUME NEW t \in Threads, ReadDocuments(t) PROVE BodyHasStateLock' /\ DepthFits'
  BY <1>4, <1>t, <1>h DEF ReadDocuments, Registering
<1>5. ASSUME NEW t \in Threads, BeginHash(t) PROVE BodyHasStateLock' /\ DepthFits'
  BY <1>5, <1>t, <1>h DEF BeginHash, Registering
<1>6. ASSUME NEW t \in Threads, EndHash(t) PROVE BodyHasStateLock' /\ DepthFits'
  BY <1>6, <1>t, <1>h DEF EndHash, Registering, StoreInv, Data, CallFits
<1>7. ASSUME NEW t \in Threads, Nest(t) PROVE BodyHasStateLock' /\ DepthFits'
  BY <1>7, <1>t, <1>h DEF Nest, EnterLock, Registering, StoreInv, Data, CallFits
<1>8. ASSUME NEW t \in Threads, WriteDocument(t) PROVE BodyHasStateLock' /\ DepthFits'
  BY <1>8, <1>t, <1>h DEF WriteDocument, Registering
<1>9. ASSUME NEW t \in Threads, LeaveLock(t) PROVE BodyHasStateLock' /\ DepthFits'
  BY <1>9, <1>t, <1>h DEF LeaveLock, Exit, Registering
<1>10. ASSUME NEW t \in Threads, Fail(t) PROVE BodyHasStateLock' /\ DepthFits'
  BY <1>10, <1>t, <1>h DEF Fail, Registering
<1>11. ASSUME NEW t \in Threads, Die(t) PROVE BodyHasStateLock' /\ DepthFits'
  BY <1>11, <1>t, <1>h DEF Die, Registering
<1>12. ASSUME NEW f \in Files, Capture(f) PROVE BodyHasStateLock' /\ DepthFits'
  BY <1>12, <1>t DEF Capture, Registering
<1>13. CASE UNCHANGED storeVars
  BY <1>13, <1>t DEF storeVars, Registering
<1>. QED BY <1>1, <1>2, <1>3, <1>4, <1>5, <1>6, <1>7, <1>8, <1>9, <1>10, <1>11, <1>12, <1>13
         DEF StoreNext, ThreadStep

\* What the steps of one thread leave of the others' locals.
LEMMA OthersKept ==
  ASSUME StoreInv, NEW t \in Threads, Begin(t) \/ ThreadStep(t) \/ Fail(t) \/ Die(t)
  PROVE  \A u \in Threads \ {t} : step'[u] = step[u] /\ call'[u] = call[u]
<1>1. step \in [Threads -> Steps] /\ call \in [Threads -> StoreCall]
  BY DEF StoreInv, StoreTypeOK
<1>. QED BY <1>1 DEF GoTo, Begin, ThreadStep, TryLock, Busy, ReadDocuments, BeginHash, EndHash, Nest, WriteDocument, LeaveLock, Fail, Die

\* The documents are as they were read.
LEMMA ReadInv == ASSUME StoreAssumption, StoreInv, [StoreNext]_storeVars PROVE ReadIsCurrent'
<1>. USE DEF storeLock, storeFiles, storeHistory, At, GoTo, ReadIsCurrent
<1>t. /\ step \in [Threads -> Steps] /\ call \in [Threads -> StoreCall] /\ ReadIsCurrent
  BY DEF StoreInv, StoreTypeOK, Data
<1>1. ASSUME NEW t \in Threads, WriteDocument(t) PROVE ReadIsCurrent'
  <2>1. \A u \in Threads \ {t} : step[u] \notin Inside
    BY <1>1, Alone DEF WriteDocument, Inside, Steps
  <2>. QED BY <1>1, <1>t, <2>1 DEF WriteDocument, Inside, Steps
<1>2. ASSUME NEW t \in Threads, ReadDocuments(t) PROVE ReadIsCurrent'
  <2>1. call'[t].read = [index |-> index, findings |-> findings]
    BY <1>2, <1>t DEF ReadDocuments, StoreCall
  <2>. QED BY <1>2, <1>t, <2>1, OthersKept DEF ReadDocuments, ThreadStep
<1>3. ASSUME NEW t \in Threads, Begin(t) \/ TryLock(t) \/ Busy(t) \/ LeaveLock(t) \/ Fail(t) \/ Die(t)
      PROVE  ReadIsCurrent'
  <2>1. step'[t] \notin {"hashing", "hashed", "nesting", "writing"}
    BY <1>3, <1>t DEF Begin, TryLock, Busy, LeaveLock, Fail, Die
  <2>2. UNCHANGED <<index, findings>>
    BY <1>3 DEF Begin, TryLock, Busy, LeaveLock, Fail, Die
  <2>. QED BY <1>3, <1>t, <2>1, <2>2, OthersKept DEF ThreadStep
<1>4. ASSUME NEW t \in Threads, BeginHash(t) \/ EndHash(t) \/ Nest(t) PROVE ReadIsCurrent'
  <2>1. call'[t].read = call[t].read /\ step[t] \in {"hashing", "hashed", "nesting"}
    BY <1>4, <1>t DEF BeginHash, EndHash, Nest, StoreCall
  <2>2. UNCHANGED <<index, findings>>
    BY <1>4 DEF BeginHash, EndHash, Nest
  <2>. QED BY <1>4, <1>t, <2>1, <2>2, OthersKept DEF ThreadStep
<1>5. ASSUME NEW f \in Files, Capture(f) PROVE ReadIsCurrent'
  BY <1>5, <1>t DEF Capture
<1>6. CASE UNCHANGED storeVars
  BY <1>6, <1>t DEF storeVars
<1>. QED BY <1>1, <1>2, <1>3, <1>4, <1>5, <1>6 DEF StoreNext, ThreadStep

\* Calls are about what there is.
LEMMA CallInv == ASSUME StoreAssumption, StoreInv, [StoreNext]_storeVars PROVE CallFits'
<1>. USE DEF storeLock, storeFiles, storeHistory, At, GoTo, CallFits, Registering
<1>t. /\ step \in [Threads -> Steps] /\ call \in [Threads -> StoreCall] /\ CallFits
      /\ content \in [Files -> 0..MaxVersion] /\ MaxVersion \in Nat /\ NoEntry \notin Files
  BY DEF StoreInv, StoreTypeOK, Data, StoreAssumption
<1>1. ASSUME NEW t \in Threads, Begin(t) PROVE CallFits'
  <2>1. \/ \E f \in Files : content[f] > 0 /\ call'[t].file = f /\ call'[t].since = content[f]
        \/ call'[t].file = NoEntry /\ call'[t].mark \in Marks
    <3>1. \/ \E f \in Files : content[f] > 0 /\
               call'[t] = [NoCall EXCEPT !.file = f, !.number = calls + 1, !.since = content[f], !.returns = TRUE]
          \/ \E m \in Marks : call'[t] = [NoCall EXCEPT !.mark = m, !.returns = TRUE]
      BY <1>1, <1>t DEF Begin
    <3>2. CASE \E f \in Files : content[f] > 0 /\
                 call'[t] = [NoCall EXCEPT !.file = f, !.number = calls + 1, !.since = content[f], !.returns = TRUE]
      BY <3>2 DEF NoCall
    <3>3. CASE \E m \in Marks : call'[t] = [NoCall EXCEPT !.mark = m, !.returns = TRUE]
      BY <3>3 DEF NoCall
    <3>. QED BY <3>1, <3>2, <3>3
  <2>2. step'[t] = "waiting" /\ content' = content
    BY <1>1, <1>t DEF Begin
  <2>3. /\ call'[t].file # NoEntry => call'[t].since \in 1..content'[call'[t].file]
        /\ call'[t].file = NoEntry => call'[t].mark \in Marks
    BY <1>t, <2>1, <2>2
  <2>. QED BY <1>1, <1>t, <2>2, <2>3, OthersKept
<1>2. ASSUME NEW t \in Threads, ThreadStep(t) \/ Fail(t) PROVE CallFits'
  <2>1. \/ step'[t] = "idle"
        \/ step[t] # "idle" /\ call'[t].file = call[t].file /\ call'[t].mark = call[t].mark /\ call'[t].since = call[t].since
    BY <1>2, <1>t DEF ThreadStep, TryLock, Busy, ReadDocuments, BeginHash, EndHash, Nest, WriteDocument, LeaveLock, Fail, StoreCall
  <2>2. content' = content
    BY <1>2 DEF ThreadStep, TryLock, Busy, ReadDocuments, BeginHash, EndHash, Nest, WriteDocument, LeaveLock, Fail
  <2>3. /\ step'[t] \in {"hashing", "hashed"} => call[t].file # NoEntry
        /\ step'[t] = "nesting" => call[t].file = NoEntry
    BY <1>2, <1>t DEF ThreadStep, TryLock, Busy, ReadDocuments, BeginHash, EndHash, Nest, WriteDocument, LeaveLock, Fail
  <2>. QED BY <1>2, <1>t, <2>1, <2>2, <2>3, OthersKept
<1>3. ASSUME NEW t \in Threads, Die(t) PROVE CallFits'
  <2>1. step'[t] = "idle" /\ content' = content
    BY <1>3, <1>t DEF Die
  <2>. QED BY <1>3, <1>t, <2>1, OthersKept
<1>4. ASSUME NEW f \in Files, Capture(f) PROVE CallFits'
  <2>1. \A g \in Files : content'[g] \in Nat /\ content[g] \in Nat /\ content[g] <= content'[g]
    BY <1>4, <1>t DEF Capture
  <2>2. \A u \in Threads : call[u].file # NoEntry => call[u].file \in Files
    BY <1>t DEF StoreCall
  <2>3. UNCHANGED <<step, call>>
    BY <1>4 DEF Capture
  <2>4. ASSUME NEW u \in Threads, step[u] # "idle", Registering(u)
        PROVE  call[u].since \in 1..content'[call[u].file]
    BY <1>t, <2>1, <2>2, <2>4
  <2>. QED BY <1>t, <2>3, <2>4
<1>5. CASE UNCHANGED storeVars
  BY <1>5, <1>t DEF storeVars
<1>. QED BY <1>1, <1>2, <1>3, <1>4, <1>5 DEF StoreNext

\* A write changes what is there by what its call is about, and by no more.
LEMMA WriteEffect ==
  ASSUME StoreAssumption, StoreInv, NEW t \in Threads, WriteDocument(t)
  PROVE  /\ Registering(t) =>
              /\ call[t].file \in Files
              /\ index' = [index EXCEPT ![call[t].file] = NewEntry(t)]
              /\ NewEntry(t) \in IndexEntry /\ NewEntry(t) # NoEntry
              /\ NewEntry(t).from = call[t].from /\ NewEntry(t).to = call[t].to
              /\ index[call[t].file] # NoEntry => NewEntry(t).id = index[call[t].file].id
              /\ findings' = findings
         /\ ~Registering(t) => call[t].mark \in Marks /\ findings' = [findings EXCEPT ![call[t].mark] = @ + 1] /\ index' = index
<1>1. /\ call[t] \in StoreCall /\ index \in [Files -> IndexEntry \cup {NoEntry}] /\ NoEntry \notin IndexEntry
      /\ step[t] = "writing" /\ call[t].read.index = index /\ call[t].read.findings = findings
      /\ ~Registering(t) => call[t].mark \in Marks
  BY DEF StoreInv, StoreTypeOK, Data, ReadIsCurrent, CallFits, WriteDocument, At, StoreAssumption, IndexEntry
<1>2. CASE Registering(t)
  <2>1. call[t].file \in Files /\ call[t].number \in Nat /\ call[t].from \in Nat /\ call[t].to \in Nat
    BY <1>1, <1>2 DEF StoreCall, Registering
  <2>2. NewEntry(t) = [id |-> IF index[call[t].file] = NoEntry THEN call[t].number ELSE index[call[t].file].id,
                       from |-> call[t].from, to |-> call[t].to]
    BY <1>1 DEF NewEntry
  <2>3. NewEntry(t) \in IndexEntry
    BY <1>1, <2>1, <2>2 DEF IndexEntry
  <2>. QED BY <1>1, <1>2, <2>1, <2>2, <2>3 DEF WriteDocument
<1>3. CASE ~Registering(t)
  BY <1>1, <1>3 DEF WriteDocument
<1>. QED BY <1>2, <1>3

\* Only a write changes the documents, and only a capture the files.
LEMMA DocumentsKept ==
  ASSUME NEW t \in Threads,
         Begin(t) \/ TryLock(t) \/ Busy(t) \/ ReadDocuments(t) \/ BeginHash(t) \/ EndHash(t) \/ Nest(t) \/ LeaveLock(t)
           \/ Fail(t) \/ Die(t)
  PROVE  index' = index /\ findings' = findings /\ content' = content
  BY DEF Begin, TryLock, Busy, ReadDocuments, BeginHash, EndHash, Nest, LeaveLock, Fail, Die, storeFiles

\* A file only gets newer.
LEMMA Newer ==
  ASSUME StoreAssumption, StoreInv, NEW f \in Files, Capture(f)
  PROVE  \A g \in Files : content[g] \in Nat /\ content'[g] \in Nat /\ content[g] <= content'[g]
  BY DEF StoreInv, StoreTypeOK, StoreAssumption, Capture

\* The index stays behind the files.
LEMMA IndexInv == ASSUME StoreAssumption, StoreInv, [StoreNext]_storeVars PROVE IndexBehind'
<1>. USE DEF IndexBehind
<1>t. /\ IndexBehind /\ index \in [Files -> IndexEntry \cup {NoEntry}]
      /\ content \in [Files -> 0..MaxVersion]
  BY DEF StoreInv, Data, StoreTypeOK
<1>1. ASSUME NEW t \in Threads, WriteDocument(t) PROVE IndexBehind'
  <2>1. content' = content /\ (Registering(t) => call[t].to <= content[call[t].file])
    BY <1>1 DEF WriteDocument, At, StoreInv, Data, HashFits
  <2>. QED BY <1>1, <1>t, <2>1, WriteEffect
<1>2. ASSUME NEW f \in Files, Capture(f) PROVE IndexBehind'
  <2>1. index' = index
    BY <1>2 DEF Capture
  <2>2. \A g \in Files : index[g] # NoEntry => index[g].to \in Nat
    BY <1>t DEF IndexEntry
  <2>. QED BY <1>2, <1>t, <2>1, <2>2, Newer
<1>3. CASE UNCHANGED storeVars
  BY <1>3, <1>t DEF storeVars
<1>. QED BY <1>1, <1>2, <1>3, <1>t, DocumentsKept DEF StoreNext, ThreadStep

\* A hash is no older than its call and the entry it replaces.
LEMMA HashInv == ASSUME StoreAssumption, StoreInv, [StoreNext]_storeVars PROVE HashFits'
<1>. USE DEF HashFits, Registering
<1>t. /\ HashFits /\ CallFits /\ IndexBehind /\ index \in [Files -> IndexEntry \cup {NoEntry}]
      /\ content \in [Files -> 0..MaxVersion] /\ step \in [Threads -> Steps] /\ call \in [Threads -> StoreCall]
      /\ MaxVersion \in Nat
  BY DEF StoreInv, Data, StoreTypeOK, StoreAssumption
<1>1. ASSUME NEW t \in Threads, WriteDocument(t) PROVE HashFits'
  <2>1. \A u \in Threads \ {t} : step[u] \notin Inside
    BY <1>1, Alone DEF WriteDocument, At, Inside, Steps
  <2>2. \A u \in Threads : step'[u] \notin {"hashed", "writing"}
    BY <1>1, <1>t, <2>1, OthersKept DEF WriteDocument, GoTo, ThreadStep, Inside, Steps
  <2>. QED BY <2>2
<1>2. ASSUME NEW t \in Threads, BeginHash(t) PROVE HashFits'
  <2>1. /\ call[t].file \in Files /\ step[t] = "hashing" /\ step'[t] = "hashed"
        /\ call'[t].file = call[t].file /\ call'[t].since = call[t].since /\ call'[t].from = content[call[t].file]
    BY <1>2, <1>t DEF BeginHash, At, GoTo, CallFits, StoreCall
  <2>2. call[t].since <= content[call[t].file] /\ content[call[t].file] \in Nat
    BY <1>t, <2>1 DEF CallFits, StoreCall
  <2>3. index[call[t].file] # NoEntry => index[call[t].file].to <= content[call[t].file]
    BY <1>t, <2>1 DEF IndexBehind
  <2>. QED BY <1>2, <1>t, <2>1, <2>2, <2>3, OthersKept, DocumentsKept DEF ThreadStep
<1>3. ASSUME NEW t \in Threads, EndHash(t) PROVE HashFits'
  <2>1. /\ call[t].file \in Files /\ step[t] = "hashed" /\ step'[t] = "writing"
        /\ call'[t].file = call[t].file /\ call'[t].since = call[t].since /\ call'[t].from = call[t].from
        /\ call'[t].to = content[call[t].file]
    BY <1>3, <1>t DEF EndHash, At, GoTo, CallFits, StoreCall
  <2>2. content[call[t].file] \in Nat
    BY <1>t, <2>1
  <2>. QED BY <1>3, <1>t, <2>1, <2>2, OthersKept, DocumentsKept DEF ThreadStep
<1>4. ASSUME NEW t \in Threads, Begin(t) \/ TryLock(t) \/ Busy(t) \/ ReadDocuments(t) \/ LeaveLock(t) \/ Fail(t) \/ Die(t)
      PROVE  HashFits'
  <2>1. step'[t] \notin {"hashed", "writing"}
    BY <1>4, <1>t DEF Begin, TryLock, Busy, ReadDocuments, LeaveLock, Fail, Die, At, GoTo
  <2>. QED BY <1>4, <1>t, <2>1, OthersKept, DocumentsKept DEF ThreadStep
<1>5. ASSUME NEW t \in Threads, Nest(t) PROVE HashFits'
  <2>1. step'[t] = "writing" /\ call'[t] = call[t] /\ call[t].file = NoEntry
    BY <1>5, <1>t DEF Nest, At, GoTo, CallFits
  <2>. QED BY <1>5, <1>t, <2>1, OthersKept, DocumentsKept DEF ThreadStep
<1>6. ASSUME NEW f \in Files, Capture(f) PROVE HashFits'
  <2>1. UNCHANGED <<index, step, call>>
    BY <1>6 DEF Capture
  <2>2. \A u \in Threads : /\ call[u].file # NoEntry => call[u].file \in Files
                           /\ call[u].from \in Nat /\ call[u].to \in Nat
                           /\ step[u] = "hashed" => call[u].file # NoEntry
    BY <1>t DEF StoreCall, CallFits
  <2>3. \A u \in Threads :
          call[u].file # NoEntry => /\ content[call[u].file] \in Nat /\ content'[call[u].file] \in Nat
                                    /\ content[call[u].file] <= content'[call[u].file]
    BY <1>6, <2>2, Newer
  <2>. QED BY <1>t, <2>1, <2>2, <2>3
<1>7. CASE UNCHANGED storeVars
  BY <1>7, <1>t DEF storeVars
<1>. QED BY <1>1, <1>2, <1>3, <1>4, <1>5, <1>6, <1>7 DEF StoreNext, ThreadStep

\* A call that leaves and will return has written.
LEMMA WrittenInv == ASSUME StoreAssumption, StoreInv, [StoreNext]_storeVars PROVE Written'
<1>. USE DEF Written, Registering
<1>t. /\ Written /\ step \in [Threads -> Steps] /\ call \in [Threads -> StoreCall]
      /\ index \in [Files -> IndexEntry \cup {NoEntry}]
      /\ findings \in [Marks -> Nat] /\ marked \in [Marks -> Nat]
  BY DEF StoreInv, Data, StoreTypeOK
<1>1. ASSUME NEW t \in Threads, WriteDocument(t) PROVE Written'
  <2>1. \A u \in Threads \ {t} : step[u] # "leaving"
    BY <1>1, Alone DEF WriteDocument, At, Inside, Steps
  <2>2. step'[t] = "leaving" /\ call'[t] = call[t]
    BY <1>1, <1>t DEF WriteDocument, GoTo
  <2>3. Registering(t) => call[t].since <= NewEntry(t).to
    <3>1. ASSUME Registering(t) PROVE call[t].since <= call[t].from /\ call[t].from <= call[t].to
      BY <1>1, <3>1 DEF WriteDocument, At, StoreInv, Data, HashFits
    <3>2. call[t].since \in Nat /\ call[t].from \in Nat /\ call[t].to \in Nat
      BY <1>t DEF StoreCall
    <3>. QED BY <1>1, <3>1, <3>2, WriteEffect
  <2>4. IF Registering(t) THEN index'[call[t].file] # NoEntry /\ call[t].since <= index'[call[t].file].to
        ELSE marked[call[t].mark] < findings'[call[t].mark]
    <3>1. CASE Registering(t)
      BY <1>1, <1>t, <2>3, <3>1, WriteEffect
    <3>2. CASE ~Registering(t)
      <4>1. call[t].mark \in Marks /\ findings' = [findings EXCEPT ![call[t].mark] = @ + 1]
        BY <1>1, <3>2, WriteEffect
      <4>2. marked[call[t].mark] <= findings[call[t].mark]
        BY <4>1 DEF StoreInv, Data, NothingForgotten
      <4>. QED BY <1>t, <3>2, <4>1, <4>2
    <3>. QED BY <3>1, <3>2
  <2>5. marked' = marked
    BY <1>1 DEF WriteDocument, storeHistory
  <2>. QED BY <1>1, <1>t, <2>1, <2>2, <2>4, <2>5, OthersKept DEF ThreadStep
<1>2. ASSUME NEW t \in Threads,
             Begin(t) \/ TryLock(t) \/ Busy(t) \/ ReadDocuments(t) \/ BeginHash(t) \/ EndHash(t) \/ Nest(t) \/ Die(t)
      PROVE  Written'
  <2>1. step'[t] # "leaving"
    BY <1>2, <1>t DEF Begin, TryLock, Busy, ReadDocuments, BeginHash, EndHash, Nest, Die, GoTo
  <2>2. marked' = marked
    BY <1>2 DEF Begin, TryLock, Busy, ReadDocuments, BeginHash, EndHash, Nest, Die, storeHistory
  <2>. QED BY <1>2, <1>t, <2>1, <2>2, OthersKept, DocumentsKept DEF ThreadStep
<1>3. ASSUME NEW t \in Threads, LeaveLock(t) PROVE Written'
  <2>1. step'[t] = "idle" \/ (step'[t] = step[t] /\ call'[t] = call[t] /\ marked' = marked)
    <3>1. CASE held[t] > 1
      BY <1>3, <3>1 DEF LeaveLock
    <3>2. CASE ~(held[t] > 1)
      <4>1. GoTo(t, "idle")
        BY <1>3, <3>2 DEF LeaveLock
      <4>. QED BY <1>t, <4>1 DEF GoTo
    <3>. QED BY <3>1, <3>2
  <2>2. \A u \in Threads \ {t} : step[u] # "leaving"
    BY <1>3, Alone DEF LeaveLock, At, Inside, Steps
  <2>. QED BY <1>3, <1>t, <2>1, <2>2, OthersKept, DocumentsKept DEF ThreadStep
<1>4. ASSUME NEW t \in Threads, Fail(t) PROVE Written'
  <2>1. call'[t].returns = FALSE /\ marked' = marked
    BY <1>4, <1>t DEF Fail, StoreCall
  <2>. QED BY <1>4, <1>t, <2>1, OthersKept, DocumentsKept
<1>5. ASSUME NEW f \in Files, Capture(f) PROVE Written'
  BY <1>5, <1>t DEF Capture, storeHistory
<1>6. CASE UNCHANGED storeVars
  BY <1>6, <1>t DEF storeVars
<1>. QED BY <1>1, <1>2, <1>3, <1>4, <1>5, <1>6 DEF StoreNext, ThreadStep

\* What a call that returned has written stays.
LEMMA ForgottenInv == ASSUME StoreAssumption, StoreInv, [StoreNext]_storeVars PROVE NothingForgotten'
<1>. USE DEF NothingForgotten, Registering
<1>t. /\ NothingForgotten /\ step \in [Threads -> Steps] /\ call \in [Threads -> StoreCall]
      /\ index \in [Files -> IndexEntry \cup {NoEntry}] /\ known \in [Files -> 0..MaxVersion] /\ MaxVersion \in Nat
      /\ findings \in [Marks -> Nat] /\ marked \in [Marks -> Nat]
  BY DEF StoreInv, Data, StoreTypeOK, StoreAssumption
<1>1. ASSUME NEW t \in Threads, WriteDocument(t) PROVE NothingForgotten'
  <2>1. known' = known /\ marked' = marked
    BY <1>1 DEF WriteDocument, storeHistory
  <2>2. CASE Registering(t)
    <3>1. ASSUME index[call[t].file] # NoEntry PROVE index[call[t].file].to <= NewEntry(t).to
      <4>1. call[t].from <= call[t].to /\ index[call[t].file].to <= call[t].from
        BY <1>1, <2>2, <3>1 DEF WriteDocument, At, StoreInv, Data, HashFits
      <4>2. call[t].file \in Files /\ call[t].from \in Nat /\ call[t].to \in Nat
        BY <1>t, <2>2 DEF StoreCall
      <4>3. index[call[t].file].to \in Nat
        BY <1>t, <3>1, <4>2 DEF IndexEntry
      <4>. QED BY <1>1, <2>2, <4>1, <4>2, <4>3, WriteEffect
    <3>2. call[t].file \in Files /\ NewEntry(t) \in IndexEntry /\ NewEntry(t) # NoEntry /\ findings' = findings
          /\ index' = [index EXCEPT ![call[t].file] = NewEntry(t)]
      BY <1>1, <2>2, WriteEffect
    <3>3. NewEntry(t).to \in Nat /\ \A f \in Files : known[f] \in Nat /\ (index[f] # NoEntry => index[f].to \in Nat)
      BY <1>t, <3>2 DEF IndexEntry
    <3>4. ASSUME NEW f \in Files, known[f] > 0 PROVE index'[f] # NoEntry /\ index'[f].to >= known[f]
      <4>1. index[f] # NoEntry /\ index[f].to >= known[f]
        BY <1>t, <3>4
      <4>. QED BY <1>t, <3>1, <3>2, <3>3, <4>1
    <3>. QED BY <1>t, <2>1, <3>2, <3>4
  <2>3. CASE ~Registering(t)
    <3>1. index' = index /\ findings' = [findings EXCEPT ![call[t].mark] = @ + 1]
      BY <1>1, <2>3, WriteEffect
    <3>2. \A m \in Marks : findings[m] <= findings'[m] /\ findings'[m] \in Nat
      BY <1>t, <3>1
    <3>3. \A m \in Marks : marked'[m] <= findings'[m]
      BY <1>t, <2>1, <3>2
    <3>. QED BY <1>t, <2>1, <3>1, <3>3
  <2>. QED BY <2>2, <2>3
<1>2. ASSUME NEW t \in Threads, LeaveLock(t) PROVE NothingForgotten'
  <2>1. index' = index /\ findings' = findings
    BY <1>2, DocumentsKept
  <2>2. CASE held[t] > 1
    BY <1>2, <1>t, <2>1, <2>2 DEF LeaveLock
  <2>3. CASE ~(held[t] > 1)
    <3>1. step[t] = "leaving"
      BY <1>2 DEF LeaveLock, At
    <3>2. ASSUME NEW m \in Marks PROVE marked'[m] <= findings'[m]
      <4>1. CASE marked' = marked
        BY <1>t, <2>1, <4>1
      <4>2. CASE call[t].returns /\ call[t].file = NoEntry /\ marked' = [marked EXCEPT ![call[t].mark] = @ + 1]
        <5>1. marked[call[t].mark] < findings[call[t].mark]
          BY <3>1, <4>2 DEF StoreInv, Data, Written
        <5>. QED BY <1>t, <2>1, <4>2, <5>1
      <4>. QED BY <1>2, <2>3, <4>1, <4>2 DEF LeaveLock
    <3>3. ASSUME NEW f \in Files, known'[f] > 0 PROVE index'[f] # NoEntry /\ index'[f].to >= known'[f]
      <4>1. known'[f] = IF call[t].returns /\ f = call[t].file /\ known[f] < call[t].since
                        THEN call[t].since ELSE known[f]
        BY <1>2, <2>3 DEF LeaveLock
      <4>2. CASE call[t].returns /\ f = call[t].file /\ known[f] < call[t].since
        <5>1. index[f] # NoEntry /\ call[t].since <= index[f].to
          <6>1. f # NoEntry
            BY DEF StoreAssumption
          <6>. QED BY <3>1, <4>2, <6>1 DEF StoreInv, Data, Written
        <5>2. call[t].since \in Nat /\ index[f].to \in Nat
          BY <1>t, <5>1 DEF StoreCall, IndexEntry
        <5>. QED BY <2>1, <4>1, <4>2, <5>1, <5>2
      <4>3. CASE ~(call[t].returns /\ f = call[t].file /\ known[f] < call[t].since)
        BY <1>t, <2>1, <3>3, <4>1, <4>3
      <4>. QED BY <4>2, <4>3
    <3>. QED BY <3>2, <3>3
  <2>. QED BY <2>2, <2>3
<1>3. ASSUME NEW t \in Threads,
             Begin(t) \/ TryLock(t) \/ Busy(t) \/ ReadDocuments(t) \/ BeginHash(t) \/ EndHash(t) \/ Nest(t) \/ Fail(t) \/ Die(t)
      PROVE  NothingForgotten'
  <2>1. UNCHANGED <<index, findings, known, marked>>
    BY <1>3 DEF Begin, TryLock, Busy, ReadDocuments, BeginHash, EndHash, Nest, Fail, Die, storeFiles, storeHistory
  <2>. QED BY <1>t, <2>1
<1>4. ASSUME NEW f \in Files, Capture(f) PROVE NothingForgotten'
  BY <1>4, <1>t DEF Capture, storeHistory
<1>5. CASE UNCHANGED storeVars
  BY <1>5, <1>t DEF storeVars
<1>. QED BY <1>1, <1>2, <1>3, <1>4, <1>5 DEF StoreNext, ThreadStep

\* StoreInv is inductive.
LEMMA StoreStepInv == ASSUME StoreAssumption, StoreInv, [StoreNext]_storeVars PROVE StoreInv'
<1>1. StoreTypeOK'
  BY StoreTypeInv
<1>2. BodyHasStateLock' /\ DepthFits'
  BY LockInv
<1>3. ReadIsCurrent' /\ CallFits'
  BY ReadInv, CallInv
<1>4. HashFits' /\ IndexBehind'
  BY HashInv, IndexInv
<1>5. Written' /\ NothingForgotten'
  BY WrittenInv, ForgottenInv
<1>. QED BY <1>1, <1>2, <1>3, <1>4, <1>5 DEF StoreInv, Data

\* Under the state lock, and only there, documents are written, and nothing that a
\* call has written is lost, whatever fails or dies: file_lock.py, evidence.py and
\* findings.py.
THEOREM NothingIsLost == ASSUME StoreAssumption PROVE StoreSpec => []WritesKept
<1>1. StoreInit => StoreInv
  BY StoreInitInv
<1>2. StoreInv /\ [StoreNext]_storeVars => StoreInv'
  BY StoreStepInv
<1>3. StoreInv => WritesKept
  BY DEF StoreInv, Data, WritesKept
<1>. QED BY <1>1, <1>2, <1>3, PTL DEF StoreSpec

\* Every step is a step of SharedDocuments or leaves the documents alone.
LEMMA StepRefines ==
  ASSUME StoreAssumption, StoreInv, [StoreNext]_storeVars
  PROVE  [Abstract!Next]_<<index, findings>>
<1>1. ASSUME NEW t \in Threads, WriteDocument(t) PROVE Abstract!Next
  <2>1. CASE Registering(t)
    <3>1. /\ call[t].file \in Files /\ index' = [index EXCEPT ![call[t].file] = NewEntry(t)]
          /\ NewEntry(t) \in IndexEntry /\ findings' = findings
          /\ index[call[t].file] # NoEntry => NewEntry(t).id = index[call[t].file].id
          /\ NewEntry(t).from = call[t].from /\ NewEntry(t).to = call[t].to
      BY <1>1, <2>1, WriteEffect
    <3>2. index \in [Files -> IndexEntry \cup {NoEntry}]
      BY DEF StoreInv, StoreTypeOK
    <3>3. /\ call[t].from <= call[t].to
          /\ index[call[t].file] # NoEntry => index[call[t].file].to <= call[t].from
      BY <1>1, <2>1 DEF WriteDocument, At, StoreInv, Data, HashFits
    <3>4. Abstract!Follows(index'[call[t].file], index[call[t].file])
      BY <3>1, <3>2, <3>3 DEF Abstract!Follows, Abstract!Entry, IndexEntry
    <3>5. index' \in [Files -> Abstract!Entry \cup {NoEntry}]
      BY <3>1, <3>2 DEF Abstract!Entry, IndexEntry
    <3>6. \A g \in Files \ {call[t].file} : index'[g] = index[g]
      BY <3>1, <3>2
    <3>. QED BY <3>1, <3>4, <3>5, <3>6 DEF Abstract!Next, Abstract!Put
  <2>2. CASE ~Registering(t)
    BY <1>1, <2>2, WriteEffect DEF Abstract!Next, Abstract!Mark
  <2>. QED BY <2>1, <2>2
<1>2. ASSUME NEW f \in Files, Capture(f) PROVE UNCHANGED <<index, findings>>
  BY <1>2 DEF Capture
<1>3. CASE UNCHANGED storeVars
  BY <1>3 DEF storeVars
<1>. QED BY <1>1, <1>2, <1>3, DocumentsKept DEF StoreNext, ThreadStep

\* Reading, changing and writing a whole document under the state lock is one step,
\* made to what is there, to everybody else: what register_file and set_validation
\* rely on FileLock for.
THEOREM OneStepToOthers == ASSUME StoreAssumption PROVE StoreSpec => ImplementsDocuments
<1>1. StoreInit => StoreInv /\ Abstract!Init
  BY StoreInitInv DEF StoreInit, Abstract!Init
<1>2. StoreInv /\ [StoreNext]_storeVars => StoreInv' /\ [Abstract!Next]_<<index, findings>>
  BY StoreStepInv, StepRefines
<1>. QED BY <1>1, <1>2, PTL DEF StoreSpec, ImplementsDocuments, Abstract!Spec

(***************************************************************************)
(*                               A finding                                 *)
(***************************************************************************)

Validations == [status : Statuses \cup {"none"}, key : STRING \cup {"none"}]
JobRecord == [e : EvidenceRecord, validation : Validations]
Places == {"idle", "reserved", "acted", "recorded", "evaluating", "returned"}

\* Evidence as the collectors leave it.
Consistent(r, e) ==
  /\ e \in EvidenceRecord /\ (e.static = "absent" => e.candidates = {})
  /\ r = "world_readable" => e.reach \in e.candidates \cup {"none"}

Typed ==
  /\ rule \in Rules /\ lock \in Actors \cup {"free"} /\ attempts \in 0..MaxAttempts /\ acted \in Nat
  /\ finding \in [exists : BOOLEAN, status : Statuses, validation : Validations]
  /\ validator \in [at : Places, result : Validations] /\ recorded \in Validations
  /\ job \in [Actors -> JobRecord \cup {NoJob}]
  /\ judged \in [e : EvidenceRecord, validation : Validations \cup {Unjudged}]

\* Who holds the lock has read the validation there is, and the lock keeps it.
Locked ==
  /\ \A a \in Actors : job[a] # NoJob <=> lock = a
  /\ \A a \in Actors : lock = a =>
       /\ job[a] \in JobRecord /\ job[a].validation = finding.validation
       /\ Consistent(rule, job[a].e) /\ job[a].e.candidates = evidence.candidates
  /\ lock = "validator" <=> validator.at = "evaluating"

\* What the validator has done, by its place.
Progress ==
  /\ finding.validation = recorded
  /\ acted + (IF validator.at = "reserved" THEN 1 ELSE 0) <= attempts
  /\ validator.at \in {"recorded", "evaluating", "returned"} => recorded = validator.result
  /\ validator.at = "returned" => judged.validation = recorded
  /\ validator.at # "idle" => rule \in Validated

\* Only a rule with a validator has a validation, and a call site has to be there
\* to be confirmed.
Sound(r, e, v) ==
  /\ v.status # "none" => r \in Validated
  /\ v.status = "confirmed" /\ r = "world_readable" => e.candidates # {}

\* What a finding says is what the evaluation of the evidence it was judged by says.
Judgement ==
  /\ Consistent(rule, evidence) /\ Consistent(rule, judged.e) /\ judged.e.candidates = evidence.candidates
  /\ Sound(rule, evidence, recorded) /\ Sound(rule, evidence, validator.result)
  /\ Evaluated1 => finding.status = Status(rule, judged.e, finding.validation)
  /\ ConfirmationShows

FindingInv == Typed /\ Locked /\ Progress /\ Judgement

Bys == {"static", "validation", "fallback", "dynamic", "instrumentation", "root_assisted", "gate"}
Verdicts == [status : Statuses, by : Bys]

\* A verdict is a status and a way to it.
LEMMA VerdictIs ==
  ASSUME NEW s \in Statuses, NEW b \in Bys
  PROVE  Verdict(s, b) \in Verdicts /\ Verdict(s, b).status = s /\ Verdict(s, b).by = b
  BY DEF Verdict, Verdicts

\* A session that was scanned without the module a rule needs gives no verdict.
LEMMA GateIs ==
  ASSUME NEW r \in Rules, NEW e \in EvidenceRecord
  PROVE  \/ ExecutionGate(r, e) = {}
         \/ \E s \in {"skipped", "error"} : ExecutionGate(r, e) = {Verdict(s, "gate")}
<1>1. NotExecuted(e.profile, e.root) \in {"skipped", "error"} /\ NotExecuted(e.profile, e.frida) \in {"skipped", "error"}
  BY DEF NotExecuted
<1>. QED BY <1>1 DEF ExecutionGate

\* The same of the rules that have several ways.
LEMMA AlternativeIs ==
  ASSUME NEW e \in EvidenceRecord, NEW ways
  PROVE  \/ AlternativeGate(e, ways) = {}
         \/ \E s \in {"skipped", "error"} : AlternativeGate(e, ways) = {Verdict(s, "gate")}
  BY DEF AlternativeGate

\* Every evaluator gives a verdict, and only the search for behaviours falls back
\* on its candidates by itself.
LEMMA EvaluatedIs ==
  ASSUME NEW r \in Rules, NEW e \in EvidenceRecord
  PROVE  Evaluated(r, e) \in Verdicts /\ (Evaluated(r, e).by = "fallback" => r = "behavior")
<1>. DEFINE Good(v) == \E s \in Statuses, b \in Bys : v = Verdict(s, b) /\ (b = "fallback" => r = "behavior")
<1>a. ASSUME NEW s, NEW b, s \in Statuses, b \in Bys \ {"fallback"} PROVE Good(Verdict(s, b))
  BY <1>a
<1>b. ASSUME Good(Evaluated(r, e)) PROVE Evaluated(r, e) \in Verdicts /\ (Evaluated(r, e).by = "fallback" => r = "behavior")
  <2>1. PICK s \in Statuses, b \in Bys : Evaluated(r, e) = Verdict(s, b) /\ (b = "fallback" => r = "behavior")
    BY <1>b
  <2>. QED BY <2>1, VerdictIs
<1>. SUFFICES Good(Evaluated(r, e))
  BY <1>b
<1>p. e.policy \in Statuses \cup {"none"}
  BY DEF EvidenceRecord, PolicyStatuses, Statuses
<1>i. \A f, l : Inventory(e, f, l) \in Statuses
  BY DEF Inventory, Statuses
<1>. HIDE DEF Good
<1>1. CASE r \in FridaRequired /\ FridaErrors(e)
  BY <1>1, <1>a DEF Evaluated, Statuses, Bys
<1>. SUFFICES ASSUME ~(r \in FridaRequired /\ FridaErrors(e)) PROVE Good(Evaluated(r, e))
  BY <1>1
<1>2. CASE r = "debuggable"
  BY <1>2, <1>a DEF Evaluated, Debuggable, Statuses, Bys
<1>3. CASE r = "policy"
  BY <1>3, <1>a, <1>p DEF Evaluated, Policy, Statuses, Bys
<1>4. CASE r = "component_policy"
  BY <1>4, <1>a, <1>p DEF Evaluated, ComponentPolicy, Policy, Statuses, Bys
<1>5. CASE r = "secret"
  <2>1. PICK t \in Statuses : t = Inventory(e, e.secrets, TRUE)
    BY <1>i
  <2>2. Secret(e) = Verdict(IF t = "error" THEN "inconclusive" ELSE t, "static")
    BY <2>1 DEF Secret
  <2>. QED BY <1>5, <1>a, <2>2 DEF Evaluated, Statuses, Bys
<1>6. CASE r = "cleartext"
  BY <1>6, <1>a DEF Evaluated, Cleartext, Statuses, Bys
<1>7. CASE r = "token"
  BY <1>7, <1>a DEF Evaluated, Token, Statuses, Bys
<1>8. CASE r = "exported"
  BY <1>8, <1>a DEF Evaluated, Exported, Statuses, Bys
<1>9. CASE r = "tls"
  BY <1>9, <1>a DEF Evaluated, Tls, TlsStatus, Statuses, Bys
<1>10. CASE r = "bridge"
  BY <1>10, <1>a DEF Evaluated, Bridge, WebViewBy, Statuses, Bys
<1>11. CASE r = "settings"
  BY <1>11, <1>a DEF Evaluated, Settings, WebViewBy, Statuses, Bys
<1>12. CASE r = "ssl_proceed"
  <2>1. \/ AlternativeGate(e, {<<e.frida, FridaUsable(e)>>}) = {}
        \/ \E s \in {"skipped", "error"} : AlternativeGate(e, {<<e.frida, FridaUsable(e)>>}) = {Verdict(s, "gate")}
    BY AlternativeIs
  <2>2. CASE \E s \in {"skipped", "error"} : SslProceed(e) = Verdict(s, "gate")
    BY <2>2, <1>12, <1>a DEF Evaluated, Statuses, Bys
  <2>3. CASE SslProceed(e) = Verdict(IF "matched_proceed" \in Events(e) THEN "confirmed" ELSE IF ProceedListed(e) THEN "potential" ELSE "inconclusive",
                                     WebViewBy(e))
    BY <2>3, <1>12, <1>a DEF Evaluated, Statuses, Bys, WebViewBy
  <2>. QED BY <2>1, <2>2, <2>3 DEF SslProceed
<1>13. CASE r = "observation"
  BY <1>13, <1>a DEF Evaluated, Observation, Statuses, Bys
<1>14. CASE r = "private_files"
  BY <1>14, <1>a DEF Evaluated, PrivateFiles, Statuses, Bys
<1>15. CASE r = "world_readable"
  BY <1>15, <1>a DEF Evaluated, WorldReadable, Statuses, Bys
<1>16. CASE r = "stored_canary"
  <2>. DEFINE Gate == AlternativeGate(e, {<<e.root, e.storage.present>>, <<e.frida, FridaUsable(e)>>})
  <2>1. Gate = {} \/ \E s \in {"skipped", "error"} : Gate = {Verdict(s, "gate")}
    BY AlternativeIs
  <2>2. CASE \E s \in {"skipped", "error"} : StoredCanary(e) = Verdict(s, "gate")
    BY <2>2, <1>16, <1>a DEF Evaluated, Statuses, Bys
  <2>3. CASE \E s \in Statuses, b \in {"root_assisted", "instrumentation"} : StoredCanary(e) = Verdict(s, b)
    BY <2>3, <1>16, <1>a DEF Evaluated, Bys
  <2>4. CASE Gate # {}
    BY <2>1, <2>2, <2>4 DEF StoredCanary
  <2>5. CASE Gate = {}
    BY <2>3, <2>5 DEF StoredCanary, Statuses
  <2>. QED BY <2>4, <2>5
<1>17. CASE r = "api_policy"
  BY <1>17, <1>a, <1>i DEF Evaluated, ApiPolicy, Statuses, Bys
<1>18. CASE r = "behavior"
  <2>1. \E s \in Statuses : Behavior(e) = Verdict(s, "fallback")
    BY <1>i DEF Behavior, Fallback, Statuses
  <2>. QED BY <1>18, <2>1 DEF Evaluated, Good, Bys
<1>19. CASE r \in Crypto
  BY <1>19, <1>a DEF Evaluated, CryptoRuntime, Crypto, Statuses, Bys
<1>. QED BY <1>2, <1>3, <1>4, <1>5, <1>6, <1>7, <1>8, <1>9, <1>10, <1>11, <1>12, <1>13, <1>14, <1>15, <1>16, <1>17, <1>18, <1>19
     DEF Rules, Crypto

\* A gate decides, or the evaluator does.
LEMMA GatedIs ==
  ASSUME NEW r \in Rules, NEW e \in EvidenceRecord
  PROVE  /\ \/ ExecutionGate(r, e) = {} /\ Gated(r, e) = Evaluated(r, e)
            \/ ExecutionGate(r, e) # {} /\ Gated(r, e).status \in {"skipped", "error"} /\ Gated(r, e).by = "gate"
         /\ Gated(r, e) \in Verdicts
<1>1. CASE ExecutionGate(r, e) = {}
  <2>1. Gated(r, e) = Evaluated(r, e)
    BY <1>1 DEF Gated
  <2>. QED BY <1>1, <2>1, EvaluatedIs
<1>2. CASE ExecutionGate(r, e) # {}
  <2>1. PICK s \in {"skipped", "error"} : ExecutionGate(r, e) = {Verdict(s, "gate")}
    BY <1>2, GateIs
  <2>2. Gated(r, e) = Verdict(s, "gate")
    BY <1>2, <2>1 DEF Gated
  <2>3. s \in Statuses /\ "gate" \in Bys
    BY DEF Statuses, Bys
  <2>. QED BY <1>2, <2>2, <2>3, VerdictIs
<1>. QED BY <1>1, <1>2

\* What the validation of one call site makes of several.
LEMMA StoredIs ==
  ASSUME NEW C, C # {}, NEW g \in Verdicts, NEW v \in Validations
  PROVE  LET s == StorageCandidates(C, g, v).status IN
         /\ s \in Statuses \ {"skipped"}
         /\ s = "pass" <=> C = {v.key} /\ v.status = "pass" /\ g.status # "confirmed"
         /\ s = "confirmed" => v.status = "confirmed" \/ g.status = "confirmed"
         /\ s = "error" => g.status = "error"
<1>. DEFINE outcomes == {Outcome(c, v) : c \in C}
            s == IF "confirmed" \in outcomes THEN "confirmed"
                 ELSE IF "inconclusive" \in outcomes THEN "inconclusive"
                 ELSE IF "not_exercised" \in outcomes THEN "potential"
                 ELSE IF "rejected" \in outcomes
                      THEN (IF g.status = "confirmed" THEN "confirmed" ELSE IF "unresolved" \in outcomes THEN "potential" ELSE "pass")
                 ELSE IF g.status \in {"pass", "skipped"} THEN "potential"
                 ELSE g.status
<1>1. StorageCandidates(C, g, v).status = s
  BY DEF StorageCandidates, Verdict
<1>2. g.status \in Statuses
  BY DEF Verdicts
<1>3. \A c \in C : Outcome(c, v) \in {"unresolved", "confirmed", "rejected", "inconclusive", "not_exercised"}
  BY DEF Outcome
<1>4. s \in Statuses \ {"skipped"}
  BY <1>2 DEF Statuses
<1>5. "confirmed" \in outcomes => v.status = "confirmed"
  BY DEF Outcome
<1>6. ASSUME C = {v.key}, v.status = "pass" PROVE outcomes = {"rejected"}
  BY <1>6 DEF Outcome
<1>7. ASSUME "rejected" \in outcomes, "unresolved" \notin outcomes PROVE C = {v.key} /\ v.status = "pass"
  <2>1. \A c \in C : Outcome(c, v) # "unresolved"
    BY <1>7
  <2>2. \A c \in C : c = v.key
    BY <2>1 DEF Outcome
  <2>3. v.status = "pass"
    BY <1>7 DEF Outcome
  <2>. QED BY <2>2, <2>3
<1>. HIDE DEF outcomes
<1>8. s = "pass" => "rejected" \in outcomes /\ "unresolved" \notin outcomes /\ g.status # "confirmed"
  BY <1>2 DEF Statuses
<1>9. s = "confirmed" => "confirmed" \in outcomes \/ g.status = "confirmed"
  BY <1>2
<1>11. s = "error" => g.status = "error"
  OBVIOUS
<1>10. outcomes = {"rejected"} /\ g.status # "confirmed" => s = "pass"
  OBVIOUS
<1>. QED BY <1>1, <1>4, <1>5, <1>6, <1>7, <1>8, <1>9, <1>10, <1>11

\* How a status comes about when no validation has confirmed the finding.
LEMMA StatusIs ==
  ASSUME NEW r \in Rules, NEW e \in EvidenceRecord, NEW v \in Validations, v.status # "confirmed"
  PROVE  \/ Raises(r, e) /\ Status(r, e, v) = "error"
         \/ ~Raises(r, e) /\ Candidates(r, e) = {} /\ Status(r, e, v) = Gated(r, e).status
         \/ /\ ~Raises(r, e) /\ Candidates(r, e) # {} /\ r = "world_readable"
            /\ Status(r, e, v) = StorageCandidates(Candidates(r, e), Gated(r, e), v).status
         \/ /\ ~Raises(r, e) /\ Candidates(r, e) # {} /\ r # "world_readable"
            /\ Status(r, e, v) \in {"confirmed", "potential"}
            /\ Status(r, e, v) = "confirmed" => Gated(r, e).status = "confirmed"
<1>0. CASE Raises(r, e)
  BY <1>0 DEF Status
<1>. SUFFICES ASSUME ~Raises(r, e)
              PROVE  \/ Candidates(r, e) = {} /\ Status(r, e, v) = Gated(r, e).status
                     \/ /\ Candidates(r, e) # {} /\ r = "world_readable"
                        /\ Status(r, e, v) = StorageCandidates(Candidates(r, e), Gated(r, e), v).status
                     \/ /\ Candidates(r, e) # {} /\ r # "world_readable"
                        /\ Status(r, e, v) \in {"confirmed", "potential"}
                        /\ Status(r, e, v) = "confirmed" => Gated(r, e).status = "confirmed"
  BY <1>0
<1>1. Status(r, e, v) = WithStatic(r, e, Gated(r, e), v).status
  BY DEF Status
<1>2. CASE Candidates(r, e) = {}
  BY <1>1, <1>2 DEF WithStatic
<1>3. CASE Candidates(r, e) # {} /\ r = "world_readable"
  BY <1>1, <1>3 DEF WithStatic
<1>4. CASE Candidates(r, e) # {} /\ r # "world_readable"
  <2>. DEFINE g == Gated(r, e)
  <2>1. WithStatic(r, e, g, v) = IF g.by = "fallback" \/ RuntimePositive(r, e, g) THEN g ELSE Fallback
    BY <1>4 DEF WithStatic
  <2>2. Fallback.status = "potential"
    BY DEF Fallback, Verdict
  <2>3. RuntimePositive(r, e, g) => g.status \in {"confirmed", "potential"}
    BY DEF RuntimePositive
  <2>4. g.by = "fallback" => g.status = "potential"
    <3>1. g.by = "fallback" => g = Evaluated(r, e) /\ r = "behavior"
      BY GatedIs, EvaluatedIs
    <3>2. r = "behavior" => Evaluated(r, e) = Behavior(e)
      BY DEF Evaluated, FridaRequired, Crypto
    <3>3. r = "behavior" => Behavior(e) = Fallback
      BY <1>4 DEF Behavior
    <3>. QED BY <2>2, <3>1, <3>2, <3>3
  <2>. QED BY <1>1, <1>4, <2>1, <2>2, <2>3, <2>4
<1>. QED BY <1>2, <1>3, <1>4

\* A status is one of six.
LEMMA StatusType ==
  ASSUME NEW r \in Rules, NEW e \in EvidenceRecord, NEW v \in Validations
  PROVE  /\ Status(r, e, v) \in Statuses
         /\ v.status = "confirmed" => Status(r, e, v) = "confirmed"
<1>1. CASE v.status = "confirmed"
  BY <1>1 DEF Status, Statuses
<1>2. CASE v.status # "confirmed"
  <2>1. Gated(r, e) \in Verdicts /\ Gated(r, e).status \in Statuses
    BY GatedIs DEF Verdicts
  <2>2. Candidates(r, e) # {} => StorageCandidates(Candidates(r, e), Gated(r, e), v).status \in Statuses
    BY <2>1, StoredIs
  <2>3. {"confirmed", "potential", "error"} \subseteq Statuses
    BY DEF Statuses
  <2>. QED BY <1>2, <2>1, <2>2, <2>3, StatusIs
<1>. QED BY <1>1, <1>2

\* The root module failed where the verdict on the storage is an error.
LEMMA RootFails ==
  ASSUME NEW e \in EvidenceRecord, Gated("world_readable", e).status = "error"
  PROVE  RootModuleFailed(e)
<1>. DEFINE r == "world_readable"
<1>0. r \in Rules /\ r \in RootRequired /\ r \notin FridaRequired
  BY DEF Rules, RootRequired, FridaRequired, Crypto
<1>1. CASE e.storage.present
  <2>1. ExecutionGate(r, e) = {}
    BY <1>0, <1>1 DEF ExecutionGate
  <2>2. WorldReadable(e).status = "error"
    BY <1>0, <2>1, GatedIs DEF Evaluated, FridaRequired, Crypto
  <2>. QED BY <1>1, <2>2 DEF WorldReadable, Verdict, RootModuleFailed
<1>2. CASE ~e.storage.present
  <2>1. Evaluated(r, e).status = "skipped"
    BY <1>0, <1>2 DEF Evaluated, WorldReadable, Verdict, FridaRequired, Crypto
  <2>2. ExecutionGate(r, e) # {}
    BY <1>0, <2>1, GatedIs
  <2>3. Scanned(e)
    BY <2>2 DEF ExecutionGate
  <2>4. ExecutionGate(r, e) = {Verdict(NotExecuted(e.profile, e.root), "gate")}
    BY <1>0, <1>2, <2>3 DEF ExecutionGate
  <2>5. Gated(r, e) = Verdict(NotExecuted(e.profile, e.root), "gate")
    BY <2>4 DEF Gated
  <2>6. NotExecuted(e.profile, e.root) = "error"
    BY <2>5 DEF Verdict
  <2>. QED BY <1>2, <2>3, <2>6 DEF NotExecuted, RootModuleFailed
<1>. QED BY <1>1, <1>2

\* A static candidate is cleared by the validation of the one call site there is,
\* gives way to the error of a failure, or stays.
LEMMA CandidatesStand ==
  ASSUME NEW r \in Rules, NEW e \in EvidenceRecord, NEW v \in Validations, Candidates(r, e) # {}
  PROVE  /\ Status(r, e, v) # "skipped"
         /\ Status(r, e, v) = "pass" => r = "world_readable" /\ Candidates(r, e) = {v.key} /\ v.status = "pass"
         /\ Status(r, e, v) = "error" => Raises(r, e) \/ (r = "world_readable" /\ RootModuleFailed(e))
<1>1. CASE v.status = "confirmed" \/ Raises(r, e)
  BY <1>1, StatusType, StatusIs
<1>2. CASE v.status # "confirmed" /\ ~Raises(r, e)
  <2>1. CASE r # "world_readable"
    BY <1>2, <2>1, StatusIs
  <2>2. CASE r = "world_readable"
    <3>1. Status(r, e, v) = StorageCandidates(Candidates(r, e), Gated(r, e), v).status
      BY <1>2, <2>2, StatusIs
    <3>2. /\ Status(r, e, v) # "skipped"
          /\ Status(r, e, v) = "pass" => Candidates(r, e) = {v.key} /\ v.status = "pass"
          /\ Status(r, e, v) = "error" => Gated(r, e).status = "error"
      BY <3>1, GatedIs, StoredIs
    <3>. QED BY <2>2, <3>2, RootFails
  <2>. QED BY <2>1, <2>2
<1>. QED BY <1>1, <1>2

\* A scan that did not run the module a rule needs gives no verdict.
LEMMA GateStands ==
  ASSUME NEW r \in Rules, NEW e \in EvidenceRecord, NEW v \in Validations,
         v.status # "confirmed", Candidates(r, e) = {}, Scanned(e),
         (r \in FridaRequired /\ ~ObserverRan(e)) \/ (r \in RootRequired /\ ~e.storage.present)
  PROVE  Status(r, e, v) \in {"skipped", "error"}
<1>1. ExecutionGate(r, e) # {}
  BY DEF ExecutionGate
<1>. QED BY <1>1, StatusIs, GatedIs

\* Evidence without what the hooks reported is as it was otherwise.
Silenced(e) == [e EXCEPT !.events = {}, !.operations = <<>>]

LEMMA SilencedIs ==
  ASSUME NEW e \in EvidenceRecord
  PROVE  LET s == Silenced(e) IN
         /\ s \in EvidenceRecord
         /\ s.manifest = e.manifest /\ s.flags = e.flags /\ s.packageFlags = e.packageFlags /\ s.policy = e.policy
         /\ s.ipc = e.ipc /\ s.components = e.components /\ s.static = e.static /\ s.secrets = e.secrets /\ s.apis = e.apis
         /\ s.listed = e.listed /\ s.proceedApi = e.proceedApi /\ s.candidates = e.candidates /\ s.profile = e.profile
         /\ s.root = e.root /\ s.frida = e.frida /\ s.observer = e.observer /\ s.files = e.files
         /\ s.correlation = e.correlation /\ s.scenario = e.scenario /\ s.traffic = e.traffic /\ s.log = e.log
         /\ s.cleartext = e.cleartext /\ s.netConfig = e.netConfig /\ s.storage = e.storage /\ s.raises = e.raises
<1>1. <<>> \in Seq(CryptoOperation)
  OBVIOUS
<1>3. Silenced(e) \in EvidenceRecord
  BY <1>1 DEF EvidenceRecord, Silenced
<1>4. \A f \in DOMAIN e \ {"events", "operations"} : Silenced(e)[f] = e[f]
  BY DEF Silenced
<1>5. /\ {"manifest", "flags", "packageFlags", "policy", "ipc", "components", "static", "secrets", "apis", "listed",
          "proceedApi", "candidates", "profile", "root", "frida", "observer", "files", "correlation", "scenario",
          "traffic", "log", "cleartext", "netConfig", "storage", "raises"} \subseteq DOMAIN e
  BY DEF EvidenceRecord
<1>. QED BY <1>3, <1>4, <1>5

\* One bad file, and what the hooks reported makes no difference.
LEMMA SilencedSame ==
  ASSUME NEW r \in Rules, NEW e \in EvidenceRecord, NEW v \in Validations, FridaErrors(e)
  PROVE  Status(r, Silenced(e), v) = Status(r, e, v)
<1>. PICK s : s = Silenced(e)
  OBVIOUS
<1>1. /\ s.manifest = e.manifest /\ s.flags = e.flags /\ s.packageFlags = e.packageFlags /\ s.policy = e.policy
      /\ s.ipc = e.ipc /\ s.components = e.components /\ s.static = e.static /\ s.secrets = e.secrets /\ s.apis = e.apis
      /\ s.listed = e.listed /\ s.proceedApi = e.proceedApi /\ s.candidates = e.candidates /\ s.profile = e.profile
      /\ s.root = e.root /\ s.frida = e.frida /\ s.observer = e.observer /\ s.files = e.files
      /\ s.correlation = e.correlation /\ s.scenario = e.scenario /\ s.traffic = e.traffic /\ s.log = e.log
      /\ s.cleartext = e.cleartext /\ s.netConfig = e.netConfig /\ s.storage = e.storage /\ s.raises = e.raises
  BY SilencedIs
<1>2. FridaErrors(s)
  BY <1>1 DEF FridaErrors, Scanned
<1>3. Events(s) = {} /\ Events(e) = {}
  BY <1>2 DEF Events
<1>4. FridaUsable(s) = FridaUsable(e) /\ ObserverRan(s) = ObserverRan(e) /\ Scanned(s) = Scanned(e)
  BY <1>1, <1>2 DEF FridaUsable, ObserverRan, Scanned
<1>5. ExecutionGate(r, s) = ExecutionGate(r, e)
  BY <1>1, <1>4 DEF ExecutionGate
<1>6. \A rr : Candidates(rr, s) = Candidates(rr, e)
  BY <1>1 DEF Candidates
<1>7. \A ways : AlternativeGate(s, ways) = AlternativeGate(e, ways)
  BY <1>1 DEF AlternativeGate
<1>8. Traffic(s) = Traffic(e) /\ CanaryTraffic(s) = CanaryTraffic(e) /\ Scenario(s) = Scenario(e)
  BY <1>1 DEF Traffic, Attributed, CanaryTraffic, Signs, Scenario
<1>9. WebViewBy(s) = WebViewBy(e)
  BY <1>3 DEF WebViewBy
<1>10. \A f, l : Inventory(s, f, l) = Inventory(e, f, l)
  BY <1>1 DEF Inventory
<1>11. Evaluated(r, s) = Evaluated(r, e)
  <2>1. CASE r \in FridaRequired
    BY <1>2, <2>1 DEF Evaluated
  <2>2. CASE r = "debuggable"
    BY <2>2, <1>1 DEF Evaluated, Debuggable, Flag, FridaRequired, Crypto
  <2>3. CASE r = "policy"
    BY <2>3, <1>1 DEF Evaluated, Policy, FridaRequired, Crypto
  <2>4. CASE r = "component_policy"
    BY <2>4, <1>1 DEF Evaluated, ComponentPolicy, Routes, Policy, FridaRequired, Crypto
  <2>5. CASE r = "secret"
    BY <2>5, <1>1, <1>10 DEF Evaluated, Secret, FridaRequired, Crypto
  <2>6. CASE r = "cleartext"
    BY <2>6, <1>1, <1>8 DEF Evaluated, Cleartext, FridaRequired, Crypto
  <2>7. CASE r = "token"
    BY <2>7, <1>1, <1>3, <1>8 DEF Evaluated, Token, FridaRequired, Crypto
  <2>8. CASE r = "exported"
    BY <2>8, <1>1 DEF Evaluated, Exported, FridaRequired, Crypto
  <2>9. CASE r = "tls"
    BY <2>9, <1>1, <1>3, <1>8 DEF Evaluated, Tls, TlsStatus, FridaRequired, Crypto
  <2>10. CASE r = "ssl_proceed"
    <3>1. {<<s.frida, FridaUsable(s)>>} = {<<e.frida, FridaUsable(e)>>}
      BY <1>1, <1>4
    <3>2. AlternativeGate(s, {<<s.frida, FridaUsable(s)>>}) = AlternativeGate(e, {<<e.frida, FridaUsable(e)>>})
      BY <1>7, <3>1
    <3>3. ProceedListed(s) = ProceedListed(e)
      BY <1>1 DEF ProceedListed
    <3>. DEFINE G(x) == AlternativeGate(x, {<<x.frida, FridaUsable(x)>>})
    <3>4. CASE ProceedListed(e) \/ G(e) = {}
      BY <1>3, <1>9, <2>10, <3>2, <3>3, <3>4 DEF Evaluated, SslProceed, FridaRequired, Crypto
    <3>5. CASE ~ProceedListed(e) /\ G(e) # {}
      <4>1. PICK t : G(e) = {Verdict(t, "gate")}
        BY <3>5, AlternativeIs
      <4>2. G(s) = {Verdict(t, "gate")}
        BY <3>2, <4>1
      <4>3. SslProceed(e) = Verdict(t, "gate") /\ SslProceed(s) = Verdict(t, "gate")
        BY <3>3, <3>5, <4>1, <4>2 DEF SslProceed
      <4>. QED BY <2>10, <4>3 DEF Evaluated, FridaRequired, Crypto
    <3>. QED BY <3>4, <3>5
  <2>11. CASE r = "private_files"
    BY <2>11, <1>1 DEF Evaluated, PrivateFiles, FridaRequired, Crypto
  <2>12. CASE r = "world_readable"
    BY <2>12, <1>1 DEF Evaluated, WorldReadable, FridaRequired, Crypto
  <2>13. CASE r = "stored_canary"
    <3>1. {<<s.root, s.storage.present>>, <<s.frida, FridaUsable(s)>>} = {<<e.root, e.storage.present>>, <<e.frida, FridaUsable(e)>>}
      BY <1>1, <1>4
    <3>2. AlternativeGate(s, {<<s.root, s.storage.present>>, <<s.frida, FridaUsable(s)>>})
            = AlternativeGate(e, {<<e.root, e.storage.present>>, <<e.frida, FridaUsable(e)>>})
      BY <1>7, <3>1
    <3>. DEFINE G(x) == AlternativeGate(x, {<<x.root, x.storage.present>>, <<x.frida, FridaUsable(x)>>})
    <3>3. CASE G(e) = {}
      BY <1>1, <1>3, <2>13, <3>2, <3>3 DEF Evaluated, StoredCanary, FridaRequired, Crypto
    <3>4. CASE G(e) # {}
      <4>1. PICK t : G(e) = {Verdict(t, "gate")}
        BY <3>4, AlternativeIs
      <4>2. G(s) = {Verdict(t, "gate")}
        BY <3>2, <4>1
      <4>3. StoredCanary(e) = Verdict(t, "gate") /\ StoredCanary(s) = Verdict(t, "gate")
        BY <4>1, <4>2 DEF StoredCanary
      <4>. QED BY <2>13, <4>3 DEF Evaluated, FridaRequired, Crypto
    <3>. QED BY <3>3, <3>4
  <2>14. CASE r = "api_policy"
    <3>1. ApiPolicy(s) = ApiPolicy(e)
      BY <1>1, <1>10 DEF ApiPolicy
    <3>. QED BY <2>14, <3>1 DEF Evaluated, FridaRequired, Crypto
  <2>15. CASE r = "behavior"
    <3>1. Behavior(s) = Behavior(e)
      <4>1. s.listed = e.listed
        BY <1>1
      <4>2. Inventory(s, FALSE, e.listed) = Inventory(e, FALSE, e.listed)
        BY <1>10, Zenon
      <4>3. Candidates("behavior", s) = Candidates("behavior", e)
        BY <1>6, Zenon
      <4>. QED BY <4>1, <4>2, <4>3, Zenon DEF Behavior
    <3>. QED BY <2>15, <3>1 DEF Evaluated, FridaRequired, Crypto
  <2>. QED BY <2>1, <2>2, <2>3, <2>4, <2>5, <2>6, <2>7, <2>8, <2>9, <2>10, <2>11, <2>12, <2>13, <2>14, <2>15
       DEF Rules, FridaRequired, Crypto
<1>12. Gated(r, s) = Gated(r, e)
  BY <1>5, <1>11 DEF Gated
<1>13. \A g : RuntimePositive(r, s, g) = RuntimePositive(r, e, g)
  BY <1>3 DEF RuntimePositive
<1>14. \A g : WithStatic(r, s, g, v) = WithStatic(r, e, g, v)
  BY <1>6, <1>13 DEF WithStatic
<1>15. Raises(r, s) <=> Raises(r, e)
  BY <1>1, <1>2, <1>5 DEF Raises
<1>. QED BY <1>12, <1>14, <1>15 DEF Status

\* Frida evidence with a bad file decides nothing.
LEMMA BadFilesStand ==
  ASSUME NEW r \in Rules, NEW e \in EvidenceRecord, NEW v \in Validations, v.status # "confirmed",
         r \in FridaRequired, FridaErrors(e), Candidates(r, e) = {}
  PROVE  Status(r, e, v) \in {"error", "skipped"}
<1>1. Evaluated(r, e).status = "error"
  BY DEF Evaluated, Verdict
<1>. QED BY <1>1, StatusIs, GatedIs

\* The traffic that counts is the app's own, or carries the canary.
LEMMA OwnTraffic ==
  ASSUME NEW e \in EvidenceRecord, NEW sign
  PROVE  /\ sign \in Attributed(e) <=> OwnSign(e, sign)
         /\ sign \in CanaryTraffic(e) <=> [sign |-> sign, by |-> "validation_canary"] \in e.traffic
<1>1. \A t \in e.traffic : t \in TrafficEvent
  BY DEF EvidenceRecord
<1>2. \A t \in e.traffic : t = [sign |-> t.sign, by |-> t.by] /\ (t.by \in {"target", "validation_canary"} <=> t.by # "other")
  BY <1>1 DEF TrafficEvent, Attributions
<1>3. sign \in Attributed(e) <=> \E t \in e.traffic : t.by \in {"target", "validation_canary"} /\ t.sign = sign
  BY DEF Attributed, Signs
<1>4. sign \in CanaryTraffic(e) <=> \E t \in e.traffic : t.by = "validation_canary" /\ t.sign = sign
  BY DEF CanaryTraffic, Signs
<1>. QED BY <1>2, <1>3, <1>4 DEF OwnSign

\* A verdict that no validation gave is confirmed by what the evaluator saw.
LEMMA ConfirmedStands ==
  ASSUME NEW r \in Rules, NEW e \in EvidenceRecord, NEW v \in Validations,
         v.status # "confirmed", Status(r, e, v) = "confirmed"
  PROVE  /\ r = "cleartext" =>
              OwnSign(e, "cleartext_request") \/ ("cleartext_request" \in e.scenario /\ e.correlation = "good")
         /\ r = "component_policy" => e.ipc.registered /\ e.ipc.intact
         /\ r \in Crypto => \E i \in DOMAIN e.operations : e.operations[i].executed
<1>1. Gated(r, e).status = "confirmed"
  BY StatusIs, StoredIs, GatedIs
<1>2. Evaluated(r, e).status = "confirmed"
  BY <1>1, GatedIs
<1>3. ASSUME r = "cleartext"
      PROVE  OwnSign(e, "cleartext_request") \/ ("cleartext_request" \in e.scenario /\ e.correlation = "good")
  <2>1. Cleartext(e).status = "confirmed"
    BY <1>2, <1>3 DEF Evaluated, FridaRequired, Crypto
  <2>2. e.policy # "confirmed" /\ "cleartext_request" \in Traffic(e)
    BY <2>1 DEF Cleartext, Verdict, EvidenceRecord, PolicyStatuses
  <2>. QED BY <2>2, OwnTraffic DEF Traffic, Scenario
<1>4. ASSUME r = "component_policy" PROVE e.ipc.registered /\ e.ipc.intact
  <2>1. ComponentPolicy(e).status = "confirmed"
    BY <1>2, <1>4 DEF Evaluated, FridaRequired, Crypto
  <2>2. e.policy # "confirmed"
    BY DEF EvidenceRecord, PolicyStatuses
  <2>3. Policy(e).status # "confirmed"
    BY <2>2 DEF Policy, Verdict
  <2>4. Routes(e) # {}
    BY <2>1, <2>3 DEF ComponentPolicy
  <2>. QED BY <2>4 DEF Routes
<1>5. ASSUME r \in Crypto PROVE \E i \in DOMAIN e.operations : e.operations[i].executed
  <2>1. CryptoRuntime(r, e).status = "confirmed"
    BY <1>2, <1>5 DEF Evaluated, FridaRequired, Crypto, Verdict
  <2>2. Matched(r, e)
    BY <2>1 DEF CryptoRuntime, Verdict
  <2>3. PICK i \in Seen(e) : TRUE
    BY <2>2 DEF Matched
  <2>4. i \in DOMAIN Operations(e) /\ Operations(e)[i].executed
    BY <2>3 DEF Seen
  <2>5. Operations(e) = e.operations
    BY <2>4 DEF Operations
  <2>. QED BY <2>4, <2>5
<1>. QED BY <1>3, <1>4, <1>5

\* What an evaluator has to see before it lets the app pass.
LEMMA EvaluatedPasses ==
  ASSUME NEW r \in Rules, NEW e \in EvidenceRecord, Evaluated(r, e).status = "pass"
  PROVE  /\ r \in {"debuggable", "policy", "exported"} => e.manifest
         /\ r = "component_policy" => e.policy = "pass" \/ e.ipc.outcomes = {"rejected"}
         /\ r = "cleartext" => e.manifest /\ e.cleartext = "no" /\ ~OwnSign(e, "cleartext_request")
         /\ r \in {"secret", "api_policy", "behavior"} => e.static = "completed"
         /\ r \in Crypto => /\ e.operations # <<>>
                            /\ \A i \in DOMAIN e.operations : e.correlation # "good" => e.operations[i].parsed
         /\ r = "world_readable" => e.storage.present /\ e.storage.inventory = "completed"
         /\ r = "tls" => [sign : {"canary_request", "certificate_rejected"}, by : {"validation_canary"}] \subseteq e.traffic
         /\ r \notin {"token", "bridge", "settings", "ssl_proceed", "stored_canary"}
<1>. USE DEF Verdict
<1>1. CASE r = "debuggable"
  BY <1>1 DEF Evaluated, Debuggable, FridaRequired, Crypto
<1>2. CASE r = "policy"
  BY <1>2 DEF Evaluated, Policy, FridaRequired, Crypto
<1>3. CASE r = "component_policy"
  <2>1. ComponentPolicy(e).status = "pass"
    BY <1>3 DEF Evaluated, FridaRequired, Crypto
  <2>2. Policy(e).status = "pass" => e.policy = "pass"
    BY DEF Policy
  <2>3. Routes(e) = {"rejected"} => e.ipc.outcomes = {"rejected"}
    BY DEF Routes
  <2>. QED BY <1>3, <2>1, <2>2, <2>3 DEF ComponentPolicy, Crypto
<1>4. CASE r = "secret"
  BY <1>4 DEF Evaluated, Secret, Inventory, FridaRequired, Crypto
<1>5. CASE r = "cleartext"
  BY <1>5, OwnTraffic DEF Evaluated, Cleartext, Traffic, FridaRequired, Crypto
<1>6. CASE r = "token"
  BY <1>6 DEF Evaluated, Token, FridaRequired, Crypto
<1>7. CASE r = "exported"
  BY <1>7 DEF Evaluated, Exported, FridaRequired, Crypto
<1>8. CASE r = "tls"
  <2>1. {"canary_request", "certificate_rejected"} \subseteq CanaryTraffic(e)
    BY <1>8 DEF Evaluated, Tls, TlsStatus, FridaRequired, Crypto
  <2>2. \A x \in {"canary_request", "certificate_rejected"} : [sign |-> x, by |-> "validation_canary"] \in e.traffic
    BY <2>1, OwnTraffic
  <2>. QED BY <1>8, <2>2 DEF Crypto
<1>9. CASE r = "bridge"
  BY <1>9 DEF Evaluated, Bridge, FridaRequired, Crypto
<1>10. CASE r = "settings"
  BY <1>10 DEF Evaluated, Settings, FridaRequired, Crypto
<1>11. CASE r = "ssl_proceed"
  <2>. DEFINE G == AlternativeGate(e, {<<e.frida, FridaUsable(e)>>})
  <2>1. SslProceed(e).status = "pass"
    BY <1>11 DEF Evaluated, FridaRequired, Crypto
  <2>2. G = {} \/ \E s \in {"skipped", "error"} : G = {Verdict(s, "gate")}
    BY AlternativeIs
  <2>3. CASE ProceedListed(e) \/ G = {}
    BY <2>1, <2>3 DEF SslProceed
  <2>4. CASE ~ProceedListed(e) /\ G # {}
    <3>1. PICK s \in {"skipped", "error"} : G = {Verdict(s, "gate")}
      BY <2>2, <2>4
    <3>2. SslProceed(e) = Verdict(s, "gate")
      BY <2>4, <3>1 DEF SslProceed
    <3>. QED BY <2>1, <3>2
  <2>. QED BY <2>3, <2>4
<1>12. CASE r = "observation"
  BY <1>12 DEF Crypto
<1>13. CASE r = "private_files"
  BY <1>13 DEF Crypto
<1>14. CASE r = "world_readable"
  BY <1>14 DEF Evaluated, WorldReadable, FridaRequired, Crypto
<1>15. CASE r = "stored_canary"
  <2>. DEFINE G == AlternativeGate(e, {<<e.root, e.storage.present>>, <<e.frida, FridaUsable(e)>>})
  <2>1. StoredCanary(e).status = "pass"
    BY <1>15 DEF Evaluated, FridaRequired, Crypto
  <2>2. G = {} \/ \E s \in {"skipped", "error"} : G = {Verdict(s, "gate")}
    BY AlternativeIs
  <2>3. CASE G = {}
    BY <2>1, <2>3 DEF StoredCanary
  <2>4. CASE G # {}
    <3>1. PICK s \in {"skipped", "error"} : G = {Verdict(s, "gate")}
      BY <2>2, <2>4
    <3>2. StoredCanary(e) = Verdict(s, "gate")
      BY <2>4, <3>1 DEF StoredCanary
    <3>. QED BY <2>1, <3>2
  <2>. QED BY <2>3, <2>4
<1>16. CASE r = "api_policy"
  BY <1>16 DEF Evaluated, ApiPolicy, Inventory, FridaRequired, Crypto
<1>17. CASE r = "behavior"
  BY <1>17 DEF Evaluated, Behavior, Fallback, Inventory, FridaRequired, Crypto
<1>18. CASE r \in Crypto
  <2>1. CryptoRuntime(r, e).status = "pass" /\ ~FridaErrors(e)
    BY <1>18 DEF Evaluated, FridaRequired, Crypto
  <2>2. Operations(e) = e.operations
    BY <2>1 DEF Operations
  <2>3. ~Unparsed(e) /\ Covered(r, e)
    BY <2>1 DEF CryptoRuntime
  <2>4. Seen(e) # {}
    <3>1. SUFFICES ASSUME Seen(e) = {} PROVE FALSE
      OBVIOUS
    <3>2. CASE r = "reuse"
      <4>1. {i \in Seen(e) : e.operations[i].pair # 0} = {}
        BY <3>1
      <4>2. Cardinality({i \in Seen(e) : e.operations[i].pair # 0}) = 0
        BY <4>1, FS_EmptySet
      <4>3. Cardinality({i \in Seen(e) : e.operations[i].pair # 0}) >= 2
        BY <2>3, <3>2 DEF Covered
      <4>. QED BY <4>2, <4>3
    <3>3. CASE r # "reuse"
      BY <2>3, <3>1, <3>3 DEF Covered
    <3>. QED BY <3>2, <3>3
  <2>5. e.operations # <<>>
    BY <2>2, <2>4 DEF Seen
  <2>6. \A i \in DOMAIN e.operations : e.correlation # "good" => e.operations[i].parsed
    BY <2>2, <2>3 DEF Unparsed
  <2>. QED BY <1>18, <2>5, <2>6 DEF Crypto
<1>. QED BY <1>1, <1>2, <1>3, <1>4, <1>5, <1>6, <1>7, <1>8, <1>9, <1>10, <1>11, <1>12, <1>13, <1>14, <1>15, <1>16, <1>17, <1>18
     DEF Rules, Crypto

\* How a finding comes to pass: its evaluator let it, with no candidate against
\* it, or the validation of the only candidate did.
LEMMA PassesBy ==
  ASSUME NEW r \in Rules, NEW e \in EvidenceRecord, NEW v \in Validations
  PROVE  Status(r, e, v) = "pass" <=>
           /\ v.status # "confirmed" /\ ~Raises(r, e)
           /\ \/ Candidates(r, e) = {} /\ ExecutionGate(r, e) = {} /\ Evaluated(r, e).status = "pass"
              \/ /\ r = "world_readable" /\ Candidates(r, e) = {v.key} /\ v.status = "pass"
                 /\ Gated(r, e).status # "confirmed"
<1>1. CASE v.status = "confirmed"
  BY <1>1, StatusType
<1>2. CASE v.status # "confirmed"
  <2>1. Gated(r, e).status = "pass" <=> ExecutionGate(r, e) = {} /\ Evaluated(r, e).status = "pass"
    BY GatedIs
  <2>0. CASE Raises(r, e)
    BY <1>2, <2>0, StatusIs
  <2>. SUFFICES ASSUME ~Raises(r, e)
                PROVE  Status(r, e, v) = "pass" <=>
                         \/ Candidates(r, e) = {} /\ ExecutionGate(r, e) = {} /\ Evaluated(r, e).status = "pass"
                         \/ /\ r = "world_readable" /\ Candidates(r, e) = {v.key} /\ v.status = "pass"
                            /\ Gated(r, e).status # "confirmed"
    BY <1>2, <2>0
  <2>2. CASE Candidates(r, e) = {}
    <3>1. Status(r, e, v) = Gated(r, e).status
      BY <1>2, <2>2, StatusIs
    <3>. QED BY <2>1, <2>2, <3>1
  <2>3. CASE Candidates(r, e) # {}
    <3>1. Gated(r, e) \in Verdicts
      BY GatedIs
    <3>2. LET s == StorageCandidates(Candidates(r, e), Gated(r, e), v).status IN
          s = "pass" <=> Candidates(r, e) = {v.key} /\ v.status = "pass" /\ Gated(r, e).status # "confirmed"
      BY <2>3, <3>1, StoredIs
    <3>3. CASE r = "world_readable"
      BY <1>2, <2>3, <3>2, <3>3, StatusIs
    <3>4. CASE r # "world_readable"
      BY <1>2, <2>3, <3>4, StatusIs
    <3>. QED BY <3>3, <3>4
  <2>. QED BY <2>2, <2>3
<1>. QED BY <1>1, <1>2

\* Evidence with the same, and maybe one more, sign of a weakness.
BadOperation(pair) == [parsed |-> TRUE, executed |-> TRUE, inWindow |-> TRUE, aspect |-> "bad", pair |-> pair]
Worsened(e, f) ==
  /\ f.manifest = e.manifest /\ f.flags = e.flags /\ f.packageFlags = e.packageFlags /\ f.policy = e.policy
  /\ f.ipc = e.ipc /\ f.static = e.static /\ f.listed = e.listed
  /\ f.proceedApi = e.proceedApi /\ f.candidates = e.candidates /\ f.profile = e.profile
  /\ f.root = e.root /\ f.frida = e.frida /\ f.observer = e.observer /\ f.files = e.files
  /\ f.correlation = e.correlation /\ f.scenario = e.scenario
  /\ f.cleartext = e.cleartext /\ f.netConfig = e.netConfig
  /\ f.raises = e.raises
  /\ e.traffic \subseteq f.traffic /\ f.traffic \subseteq e.traffic \cup [sign : {"cleartext_request", "query_key"}, by : {"target"}]
  /\ e.events \subseteq f.events
  /\ f.events \subseteq e.events \cup {"clear_sink", "matched_proceed", "remote_bridge", "debugging", "custom_trust", "preference"}
  /\ e.components \subseteq f.components /\ (e.secrets => f.secrets) /\ (e.apis => f.apis)
  /\ f.storage.present = e.storage.present /\ f.storage.inventory = e.storage.inventory
  /\ f.storage.plaintext = e.storage.plaintext /\ (e.storage.worldReadable => f.storage.worldReadable)
  /\ \/ f.operations = e.operations
     \/ \E pair \in Nat :
          /\ f.operations = Append(e.operations, BadOperation(pair))
          /\ (pair = 1 /\ Seen(e) = {}) \/ \E i \in Seen(e) : pair = e.operations[i].pair

Fields ==
  {"manifest", "flags", "packageFlags", "policy", "ipc", "components", "static", "secrets", "apis", "listed",
   "proceedApi", "candidates", "profile", "root", "frida", "observer", "files", "events", "operations", "correlation",
   "scenario", "traffic", "log", "cleartext", "netConfig", "storage", "reach", "raises"}

\* What the property calls worse is worse in one of these ways.
LEMMA WorseIs ==
  ASSUME NEW e \in EvidenceRecord, NEW f \in Worse(e)
  PROVE  f \in EvidenceRecord /\ Worsened(e, f)
<1>t. /\ e.traffic \in SUBSET TrafficEvent /\ e.events \in SUBSET EventSigns /\ e.log \in SUBSET LogSigns
      /\ e.components \in SUBSET ComponentEntry /\ e.storage \in StorageInventory /\ e.operations \in Seq(CryptoOperation)
  BY DEF EvidenceRecord
<1>d. DOMAIN e = Fields
  BY DEF EvidenceRecord, Fields
<1>1. ASSUME NEW w \in {"cleartext_request", "query_key"}, f = [e EXCEPT !.traffic = @ \cup {[sign |-> w, by |-> "target"]}]
      PROVE  f \in EvidenceRecord /\ Worsened(e, f)
  <2>0. /\ [sign |-> w, by |-> "target"] \in TrafficEvent
        /\ [sign |-> w, by |-> "target"] \in [sign : {"cleartext_request", "query_key"}, by : {"target"}]
    BY DEF TrafficEvent, TrafficSigns, Attributions
  <2>1. e.traffic \cup {[sign |-> w, by |-> "target"]} \in SUBSET TrafficEvent
    BY <1>t, <2>0
  <2>2. f \in EvidenceRecord
    BY <1>1, <2>1 DEF EvidenceRecord
  <2>3. f.traffic = e.traffic \cup {[sign |-> w, by |-> "target"]} /\ \A j \in Fields \ {"traffic"} : f[j] = e[j]
    BY <1>1, <1>d DEF Fields
  <2>. QED BY <2>0, <2>2, <2>3 DEF Worsened, Fields
<1>2. ASSUME NEW w \in {"clear_sink", "matched_proceed", "remote_bridge", "debugging", "custom_trust", "preference"},
             f = [e EXCEPT !.events = @ \cup {w}]
      PROVE  f \in EvidenceRecord /\ Worsened(e, f)
  <2>1. e.events \cup {w} \in SUBSET EventSigns
    BY <1>t DEF EventSigns
  <2>2. f \in EvidenceRecord
    BY <1>2, <2>1 DEF EvidenceRecord
  <2>3. f.events = e.events \cup {w} /\ \A j \in Fields \ {"events"} : f[j] = e[j]
    BY <1>2, <1>d DEF Fields
  <2>. QED BY <2>2, <2>3 DEF Worsened, Fields
<1>3. ASSUME f = [e EXCEPT !.log = @ \cup {"canary"}] PROVE f \in EvidenceRecord /\ Worsened(e, f)
  <2>1. e.log \cup {"canary"} \in SUBSET LogSigns
    BY <1>t DEF LogSigns
  <2>2. f \in EvidenceRecord
    BY <1>3, <2>1 DEF EvidenceRecord
  <2>3. \A j \in Fields \ {"log"} : f[j] = e[j]
    BY <1>3, <1>d DEF Fields
  <2>. QED BY <2>2, <2>3 DEF Worsened, Fields
<1>4. ASSUME f = [e EXCEPT !.secrets = TRUE] PROVE f \in EvidenceRecord /\ Worsened(e, f)
  <2>2. f \in EvidenceRecord
    BY <1>4 DEF EvidenceRecord
  <2>3. f.secrets = TRUE /\ \A j \in Fields \ {"secrets"} : f[j] = e[j]
    BY <1>4, <1>d DEF Fields
  <2>. QED BY <2>2, <2>3 DEF Worsened, Fields
<1>5. ASSUME f = [e EXCEPT !.apis = TRUE] PROVE f \in EvidenceRecord /\ Worsened(e, f)
  <2>2. f \in EvidenceRecord
    BY <1>5 DEF EvidenceRecord
  <2>3. f.apis = TRUE /\ \A j \in Fields \ {"apis"} : f[j] = e[j]
    BY <1>5, <1>d DEF Fields
  <2>. QED BY <2>2, <2>3 DEF Worsened, Fields
<1>6. ASSUME f = [e EXCEPT !.components = @ \cup {[exported |-> "yes", protected |-> FALSE, launcher |-> FALSE]}]
      PROVE  f \in EvidenceRecord /\ Worsened(e, f)
  <2>1. e.components \cup {[exported |-> "yes", protected |-> FALSE, launcher |-> FALSE]} \in SUBSET ComponentEntry
    <3>1. [exported |-> "yes", protected |-> FALSE, launcher |-> FALSE] \in ComponentEntry
      BY DEF ComponentEntry
    <3>. QED BY <1>t, <3>1
  <2>2. f \in EvidenceRecord
    BY <1>6, <2>1 DEF EvidenceRecord
  <2>3. /\ f.components = e.components \cup {[exported |-> "yes", protected |-> FALSE, launcher |-> FALSE]}
        /\ \A j \in Fields \ {"components"} : f[j] = e[j]
    BY <1>6, <1>d DEF Fields
  <2>. QED BY <2>2, <2>3 DEF Worsened, Fields
<1>7. ASSUME f = [e EXCEPT !.storage.worldReadable = TRUE] PROVE f \in EvidenceRecord /\ Worsened(e, f)
  <2>1. [e.storage EXCEPT !.worldReadable = TRUE] \in StorageInventory
    BY <1>t DEF StorageInventory
  <2>0. f = [e EXCEPT !.storage = [e.storage EXCEPT !.worldReadable = TRUE]]
    BY <1>7
  <2>2. f \in EvidenceRecord
    BY <2>0, <2>1 DEF EvidenceRecord
  <2>3. f.storage = [e.storage EXCEPT !.worldReadable = TRUE] /\ \A j \in Fields \ {"storage"} : f[j] = e[j]
    BY <2>0, <1>d DEF Fields
  <2>4. /\ f.storage.worldReadable = TRUE /\ f.storage.present = e.storage.present
        /\ f.storage.inventory = e.storage.inventory /\ f.storage.plaintext = e.storage.plaintext
    BY <1>t, <2>3 DEF StorageInventory
  <2>. QED BY <2>2, <2>3, <2>4 DEF Worsened, Fields
<1>8. ASSUME NEW pair \in (IF Seen(e) = {} THEN {1} ELSE {e.operations[i].pair : i \in Seen(e)}),
             f = [e EXCEPT !.operations = Append(@, BadOperation(pair))]
      PROVE  f \in EvidenceRecord /\ Worsened(e, f)
  <2>0. \A i \in Seen(e) : i \in DOMAIN e.operations
    BY DEF Seen, Operations
  <2>1. \A i \in Seen(e) : e.operations[i] \in CryptoOperation
    BY <1>t, <2>0
  <2>2. pair \in Nat /\ ((pair = 1 /\ Seen(e) = {}) \/ \E i \in Seen(e) : pair = e.operations[i].pair)
    BY <2>1 DEF CryptoOperation
  <2>3. BadOperation(pair) \in CryptoOperation
    BY <2>2 DEF BadOperation, CryptoOperation
  <2>4. Append(e.operations, BadOperation(pair)) \in Seq(CryptoOperation)
    BY <1>t, <2>3, AppendProperties
  <2>5. f \in EvidenceRecord
    BY <1>8, <2>4 DEF EvidenceRecord
  <2>6. f.operations = Append(e.operations, BadOperation(pair)) /\ \A j \in Fields \ {"operations"} : f[j] = e[j]
    BY <1>8, <1>d DEF Fields
  <2>. QED BY <2>2, <2>5, <2>6 DEF Worsened, Fields
<1>. QED BY <1>1, <1>2, <1>3, <1>4, <1>5, <1>6, <1>7, <1>8 DEF Worse, BadOperation

\* Worse evidence passes the same gates.
LEMMA SameGates ==
  ASSUME NEW r \in Rules, NEW e, NEW f, Worsened(e, f)
  PROVE  /\ FridaErrors(f) <=> FridaErrors(e)
         /\ ExecutionGate(r, f) = ExecutionGate(r, e) /\ Candidates(r, f) = Candidates(r, e)
         /\ Raises(r, f) <=> Raises(r, e)
<1>1. FridaErrors(f) <=> FridaErrors(e)
  BY DEF Worsened, FridaErrors, Scanned
<1>2. ExecutionGate(r, f) = ExecutionGate(r, e)
  BY DEF Worsened, ExecutionGate, Scanned, ObserverRan
<1>3. Candidates(r, f) = Candidates(r, e)
  BY DEF Worsened, Candidates
<1>4. Raises(r, f) <=> Raises(r, e)
  BY <1>1, <1>2 DEF Worsened, Raises
<1>. QED BY <1>1, <1>2, <1>3, <1>4

\* What a worse session's operations would clear, its own clear.
LEMMA CryptoBackwards ==
  ASSUME NEW r \in Crypto, NEW e \in EvidenceRecord, NEW f \in EvidenceRecord, Worsened(e, f),
         ~FridaErrors(e), ~FridaErrors(f), CryptoRuntime(r, f).status = "pass"
  PROVE  CryptoRuntime(r, e).status = "pass"
<1>1. Operations(e) = e.operations /\ Operations(f) = f.operations /\ f.correlation = e.correlation
  BY DEF Operations, Worsened
<1>2. CASE f.operations = e.operations
  <2>1. Seen(f) = Seen(e)
    BY <1>1, <1>2 DEF Seen
  <2>2. Unparsed(f) <=> Unparsed(e)
    BY <1>1, <1>2 DEF Unparsed
  <2>3. Matched(r, f) <=> Matched(r, e)
    BY <1>2, <2>1 DEF Matched
  <2>4. Covered(r, f) <=> Covered(r, e)
    <3>1. {i \in Seen(f) : f.operations[i].pair # 0} = {i \in Seen(e) : e.operations[i].pair # 0}
      BY <1>2, <2>1
    <3>2. r = "reuse" \/ r = "random" \/ (r # "reuse" /\ r # "random")
      OBVIOUS
    <3>. QED BY <1>2, <2>1, <3>1, <3>2 DEF Covered
  <2>. QED BY <2>2, <2>3, <2>4 DEF CryptoRuntime, Verdict
<1>3. ASSUME NEW pair \in Nat, f.operations = Append(e.operations, BadOperation(pair)),
             (pair = 1 /\ Seen(e) = {}) \/ \E i \in Seen(e) : pair = e.operations[i].pair
      PROVE  CryptoRuntime(r, e).status = "pass"
  <2>. PICK n \in Nat : n = Len(e.operations)
    BY LenProperties DEF EvidenceRecord
  <2>0. e.operations \in Seq(CryptoOperation) /\ BadOperation(pair) \in CryptoOperation
    BY DEF EvidenceRecord, BadOperation, CryptoOperation
  <2>1. /\ DOMAIN e.operations = 1..n /\ DOMAIN f.operations = 1..(n + 1)
        /\ f.operations[n + 1] = BadOperation(pair)
        /\ \A i \in 1..n : f.operations[i] = e.operations[i]
    BY <1>3, <2>0, AppendProperties, LenProperties
  <2>2. Seen(f) = Seen(e) \cup {n + 1} /\ Seen(e) \subseteq 1..n
    BY <1>1, <2>1 DEF Seen, BadOperation
  <2>3. /\ ~Matched(r, f) /\ ~Unparsed(f) /\ Covered(r, f)
    BY DEF CryptoRuntime, Verdict
  <2>4. r = "reuse"
    BY <2>1, <2>2, <2>3 DEF Matched, BadOperation
  <2>5. \A i, j \in Seen(f) : i # j => f.operations[i].pair = 0 \/ f.operations[i].pair # f.operations[j].pair
    BY <2>3, <2>4 DEF Matched
  <2>6. CASE Seen(e) = {}
    <3>1. {i \in Seen(f) : f.operations[i].pair # 0} = {n + 1}
      BY <1>3, <2>1, <2>2, <2>6 DEF BadOperation
    <3>2. Cardinality({i \in Seen(f) : f.operations[i].pair # 0}) = 1
      BY <3>1, FS_Singleton
    <3>3. Cardinality({i \in Seen(f) : f.operations[i].pair # 0}) >= 2
      BY <2>3, <2>4 DEF Covered
    <3>. QED BY <3>2, <3>3
  <2>7. CASE Seen(e) # {}
    <3>1. PICK i \in Seen(e) : pair = e.operations[i].pair
      BY <1>3, <2>7
    <3>2. f.operations[i].pair = pair /\ f.operations[n + 1].pair = pair /\ i # n + 1 /\ i \in Seen(f) /\ n + 1 \in Seen(f)
      BY <2>1, <2>2, <3>1 DEF BadOperation
    <3>3. pair = 0
      BY <2>5, <3>2
    <3>4. {j \in Seen(f) : f.operations[j].pair # 0} = {j \in Seen(e) : e.operations[j].pair # 0}
      BY <2>1, <2>2, <3>2, <3>3
    <3>5. Covered(r, e)
      <4>1. Cardinality({j \in Seen(f) : f.operations[j].pair # 0}) >= 2
        BY <2>3, <2>4 DEF Covered
      <4>2. Cardinality({j \in Seen(e) : e.operations[j].pair # 0}) >= 2
        BY <3>4, <4>1
      <4>. QED BY <2>4, <4>2 DEF Covered
    <3>6. ~Unparsed(e)
      BY <1>1, <2>1, <2>3 DEF Unparsed
    <3>7. ~Matched(r, e)
      BY <2>1, <2>2, <2>4, <2>5 DEF Matched
    <3>. QED BY <3>5, <3>6, <3>7 DEF CryptoRuntime, Verdict
  <2>. QED BY <2>6, <2>7
<1>. QED BY <1>2, <1>3 DEF Worsened

\* An evaluator that lets a worse session pass lets this one pass.
LEMMA EvaluatedBackwards ==
  ASSUME NEW r \in Rules, NEW e \in EvidenceRecord, NEW f \in EvidenceRecord, Worsened(e, f),
         Evaluated(r, f).status = "pass"
  PROVE  Evaluated(r, e).status = "pass"
<1>. USE DEF Verdict
<1>g. FridaErrors(f) <=> FridaErrors(e)
  BY SameGates
<1>n. r \notin {"token", "bridge", "settings", "ssl_proceed", "stored_canary"}
  BY EvaluatedPasses
<1>w. /\ f.manifest = e.manifest /\ f.flags = e.flags /\ f.packageFlags = e.packageFlags /\ f.policy = e.policy
      /\ f.ipc = e.ipc /\ f.static = e.static /\ f.listed = e.listed /\ f.candidates = e.candidates
      /\ f.correlation = e.correlation /\ f.scenario = e.scenario
      /\ f.cleartext = e.cleartext /\ f.netConfig = e.netConfig
      /\ e.components \subseteq f.components /\ (e.secrets => f.secrets) /\ (e.apis => f.apis)
      /\ f.storage.present = e.storage.present /\ f.storage.inventory = e.storage.inventory
      /\ f.storage.plaintext = e.storage.plaintext /\ (e.storage.worldReadable => f.storage.worldReadable)
  BY DEF Worsened
<1>1. CASE r = "debuggable"
  BY <1>1, <1>w DEF Evaluated, Debuggable, Flag, FridaRequired, Crypto
<1>2. CASE r = "policy"
  BY <1>2, <1>w DEF Evaluated, Policy, FridaRequired, Crypto
<1>3. CASE r = "component_policy"
  <2>1. ComponentPolicy(f) = ComponentPolicy(e)
    BY <1>w DEF ComponentPolicy, Routes, Policy
  <2>. QED BY <1>3, <2>1 DEF Evaluated, FridaRequired, Crypto
<1>4. CASE r = "secret"
  BY <1>4, <1>w DEF Evaluated, Secret, Inventory, FridaRequired, Crypto
<1>5. CASE r = "cleartext"
  <2>1. Traffic(e) \subseteq Traffic(f)
    BY DEF Worsened, Traffic, Attributed, Signs, Scenario
  <2>. QED BY <1>5, <1>w, <2>1 DEF Evaluated, Cleartext, FridaRequired, Crypto
<1>6. CASE r = "exported"
  BY <1>6, <1>w DEF Evaluated, Exported, FridaRequired, Crypto
<1>7. CASE r = "tls"
  <2>1. CanaryTraffic(f) = CanaryTraffic(e)
    <3>1. \A t \in f.traffic \ e.traffic : t.by = "target"
      BY DEF Worsened
    <3>. QED BY <3>1 DEF Worsened, CanaryTraffic, Signs
  <2>. QED BY <1>7, <2>1 DEF Evaluated, Tls, TlsStatus, FridaRequired, Crypto
<1>8. CASE r = "observation"
  <2>1. "observed" \in f.events <=> "observed" \in e.events
    BY DEF Worsened
  <2>2. "observed" \in Events(f) <=> "observed" \in Events(e)
    BY <1>g, <2>1 DEF Events
  <2>. QED BY <1>8, <1>g, <2>2 DEF Evaluated, Observation, FridaRequired, Crypto
<1>9. CASE r = "private_files"
  BY <1>9, <1>w DEF Evaluated, PrivateFiles, FridaRequired, Crypto
<1>10. CASE r = "world_readable"
  BY <1>10, <1>w DEF Evaluated, WorldReadable, FridaRequired, Crypto
<1>11. CASE r = "api_policy"
  BY <1>11, <1>w DEF Evaluated, ApiPolicy, Inventory, FridaRequired, Crypto
<1>12. CASE r = "behavior"
  BY <1>12, <1>w DEF Evaluated, Behavior, Fallback, Candidates, Inventory, FridaRequired, Crypto
<1>13. CASE r \in Crypto
  <2>1. ~FridaErrors(f) /\ CryptoRuntime(r, f).status = "pass"
    BY <1>13 DEF Evaluated, FridaRequired, Crypto
  <2>2. CryptoRuntime(r, e).status = "pass"
    BY <1>g, <1>13, <2>1, CryptoBackwards
  <2>. QED BY <1>g, <1>13, <2>1, <2>2 DEF Evaluated, FridaRequired, Crypto
<1>. QED BY <1>n, <1>1, <1>2, <1>3, <1>4, <1>5, <1>6, <1>7, <1>8, <1>9, <1>10, <1>11, <1>12, <1>13 DEF Rules, Crypto

\* More signs of a weakness never make a finding pass.
LEMMA WorseStands ==
  ASSUME NEW r \in Rules, NEW e \in EvidenceRecord, NEW v \in Validations, Status(r, e, v) # "pass", NEW f \in Worse(e)
  PROVE  Status(r, f, v) # "pass"
<1>1. f \in EvidenceRecord /\ Worsened(e, f)
  BY WorseIs
<1>2. ExecutionGate(r, f) = ExecutionGate(r, e) /\ Candidates(r, f) = Candidates(r, e) /\ (Raises(r, f) <=> Raises(r, e))
  BY <1>1, SameGates
<1>3. r = "world_readable" => Gated(r, e).status # "confirmed"
  <2>1. r = "world_readable" => Evaluated(r, e).status # "confirmed"
    BY DEF Evaluated, WorldReadable, Verdict, FridaRequired, Crypto
  <2>. QED BY <2>1, GatedIs
<1>4. Evaluated(r, f).status = "pass" => Evaluated(r, e).status = "pass"
  BY <1>1, EvaluatedBackwards
<1>5. SUFFICES ASSUME Status(r, f, v) = "pass" PROVE FALSE
  OBVIOUS
<1>6. /\ v.status # "confirmed" /\ ~Raises(r, f)
      /\ \/ Candidates(r, f) = {} /\ ExecutionGate(r, f) = {} /\ Evaluated(r, f).status = "pass"
         \/ r = "world_readable" /\ Candidates(r, f) = {v.key} /\ v.status = "pass"
  BY <1>1, <1>5, PassesBy
<1>7. Status(r, e, v) = "pass"
  BY <1>2, <1>3, <1>4, <1>6, PassesBy
<1>. QED BY <1>7

\* A job in hand is not the absence of one.
LEMMA JobIsNoNoJob == \A j \in JobRecord : j # NoJob
<1>1. SUFFICES ASSUME NEW j \in JobRecord, j = NoJob PROVE FALSE
  OBVIOUS
<1>2. DOMAIN j = {"e", "validation"}
  BY DEF JobRecord
<1>3. DOMAIN j = {"e"}
  BY <1>1 DEF NoJob
<1>. QED BY <1>2, <1>3

LEMMA NoValidationIs ==
  /\ NoValidation \in Validations /\ NoValidation.status = "none" /\ Unjudged \notin Validations
  /\ \A r, e : Sound(r, e, NoValidation)
  BY DEF NoValidation, Validations, Unjudged, Sound, Statuses

\* What a validator may answer: a validation, over evidence that differs in what it saw.
LEMMA AnswersAre ==
  ASSUME rule \in Validated, NEW e, Consistent(rule, e), NEW a \in Answers(e)
  PROVE  /\ a.validation \in Validations /\ Consistent(rule, a.e) /\ a.e.candidates = e.candidates
         /\ Sound(rule, e, a.validation)
<1>t. e \in EvidenceRecord /\ e.reach \in STRING /\ e.traffic \in SUBSET TrafficEvent
  BY DEF Consistent, EvidenceRecord
<1>d. /\ DOMAIN e = Fields
  BY <1>t DEF EvidenceRecord, Fields
<1>1. ASSUME NEW s \in Statuses, NEW x, x \in EvidenceRecord, x.candidates = e.candidates, x.static = e.static, x.reach = e.reach,
             rule = "world_readable" => s # "confirmed", a = Answer(s, x)
      PROVE  /\ a.validation \in Validations /\ Consistent(rule, a.e) /\ a.e.candidates = e.candidates
             /\ Sound(rule, e, a.validation)
  BY <1>1 DEF Answer, Validations, Consistent, Sound
<1>2. ASSUME NEW s \in Statuses, NEW x, x \in EvidenceRecord, x.candidates = e.candidates, x.static = e.static, x.reach = e.reach,
             e.reach # "none", a = KeyAnswer(s, x)
      PROVE  /\ a.validation \in Validations /\ Consistent(rule, a.e) /\ a.e.candidates = e.candidates
             /\ Sound(rule, e, a.validation)
  BY <1>1, <1>2, <1>t DEF KeyAnswer, Validations, Consistent, Sound
<1>3. ASSUME NEW S \in SUBSET TrafficEvent
      PROVE  LET x == [e EXCEPT !.traffic = S] IN
             x \in EvidenceRecord /\ x.candidates = e.candidates /\ x.static = e.static /\ x.reach = e.reach
  <2>1. [e EXCEPT !.traffic = S] \in EvidenceRecord
    BY <1>t, <1>3 DEF EvidenceRecord
  <2>. QED BY <1>d, <2>1 DEF Fields
<1>4. ASSUME NEW S \in SUBSET LogSigns
      PROVE  LET x == [e EXCEPT !.log = S] IN
             x \in EvidenceRecord /\ x.candidates = e.candidates /\ x.static = e.static /\ x.reach = e.reach
  <2>1. [e EXCEPT !.log = S] \in EvidenceRecord
    BY <1>t, <1>4 DEF EvidenceRecord
  <2>. QED BY <1>d, <2>1 DEF Fields
<1>5. ASSUME NEW S \in StorageInventory
      PROVE  LET x == [e EXCEPT !.storage = S] IN
             x \in EvidenceRecord /\ x.candidates = e.candidates /\ x.static = e.static /\ x.reach = e.reach
  <2>1. [e EXCEPT !.storage = S] \in EvidenceRecord
    BY <1>t, <1>5 DEF EvidenceRecord
  <2>. QED BY <1>d, <2>1 DEF Fields
<1>6. {"inconclusive", "confirmed", "potential", "pass", "skipped"} \subseteq Statuses
  BY DEF Statuses
<1>7. CASE e.reach = "none"
  BY <1>1, <1>6, <1>7, <1>t DEF Answers
<1>8. CASE e.reach # "none" /\ rule = "cleartext"
  <2>1. a \in CleartextAnswers(e)
    BY <1>8 DEF Answers
  <2>2. CASE a = Answer("inconclusive", e)
    BY <1>1, <1>6, <1>8, <1>t, <2>2
  <2>3. ASSUME NEW old \in {{}, e.traffic}, NEW seen \in Arrivals,
               a = Answer(IF \E t \in old \cup seen : t.by = "validation_canary" THEN "confirmed" ELSE "inconclusive", [e EXCEPT !.traffic = old \cup seen])
        PROVE  /\ a.validation \in Validations /\ Consistent(rule, a.e) /\ a.e.candidates = e.candidates
               /\ Sound(rule, e, a.validation)
    <3>1. old \cup seen \in SUBSET TrafficEvent
      <4>1. seen \subseteq TrafficEvent
        <5>1. CASE seen = {}
          BY <5>1
        <5>2. CASE seen = [sign : {"cleartext_request"}, by : {"other"}]
          BY <5>2 DEF TrafficEvent, TrafficSigns, Attributions
        <5>3. ASSUME NEW signs \in {{"canary_request"}, {"canary_request", "cleartext_request"}},
                     seen = [sign : signs, by : {"validation_canary"}]
              PROVE  seen \subseteq TrafficEvent
          BY <5>3 DEF TrafficEvent, TrafficSigns, Attributions
        <5>. QED BY <5>1, <5>2, <5>3 DEF Arrivals
      <4>. QED BY <1>t, <4>1
    <3>. PICK x : x = [e EXCEPT !.traffic = old \cup seen]
      OBVIOUS
    <3>2. x \in EvidenceRecord /\ x.candidates = e.candidates /\ x.static = e.static /\ x.reach = e.reach
      BY <1>3, <3>1
    <3>3. PICK s \in Statuses : a = Answer(s, x)
      BY <1>6, <2>3
    <3>. QED BY <1>1, <1>8, <3>2, <3>3
  <2>4. CASE a # Answer("inconclusive", e)
    <3>. DEFINE Olds == {{}, e.traffic}
                Seens == Arrivals
                Of(s) == Answer(IF \E t \in s : t.by = "validation_canary" THEN "confirmed" ELSE "inconclusive", [e EXCEPT !.traffic = s])
    <3>1. a \in {Of(t) : t \in {old \cup seen : old \in Olds, seen \in Seens}}
      BY <2>1, <2>4 DEF CleartextAnswers
    <3>. DEFINE Fine == /\ a.validation \in Validations /\ Consistent(rule, a.e) /\ a.e.candidates = e.candidates
                        /\ Sound(rule, e, a.validation)
    <3>2. ASSUME NEW old \in Olds, NEW seen \in Seens, a = Of(old \cup seen) PROVE Fine
      BY <2>3, <3>2
    <3>. HIDE DEF Olds, Seens, Of, Fine
    <3>3. PICK t \in {old \cup seen : old \in Olds, seen \in Seens} : a = Of(t)
      BY <3>1
    <3>4. PICK old \in Olds, seen \in Seens : t = old \cup seen
      OBVIOUS
    <3>5. a = Of(old \cup seen)
      BY <3>3, <3>4
    <3>6. Fine
      BY <3>2, <3>5
    <3>. QED BY <3>6 DEF Fine
  <2>. QED BY <2>2, <2>4
<1>9. CASE e.reach # "none" /\ rule \in {"token", "exported"}
  <2>1. PICK silent \in {"inconclusive", "potential"} : a \in LogAnswers(e, silent)
    BY <1>9 DEF Answers
  <2>2. CASE a = Answer("inconclusive", e)
    BY <1>1, <1>6, <1>9, <1>t, <2>2
  <2>3. ASSUME NEW log \in SUBSET {"canary", "marker"},
               a = Answer(IF "canary" \in log THEN "confirmed" ELSE silent, [e EXCEPT !.log = log])
        PROVE  /\ a.validation \in Validations /\ Consistent(rule, a.e) /\ a.e.candidates = e.candidates
               /\ Sound(rule, e, a.validation)
    <3>1. log \in SUBSET LogSigns
      BY DEF LogSigns
    <3>. PICK x : x = [e EXCEPT !.log = log]
      OBVIOUS
    <3>2. x \in EvidenceRecord /\ x.candidates = e.candidates /\ x.static = e.static /\ x.reach = e.reach
      BY <1>4, <3>1
    <3>3. PICK s \in Statuses : a = Answer(s, x)
      BY <1>6, <2>3
    <3>. QED BY <1>1, <1>9, <3>2, <3>3
  <2>. QED BY <2>1, <2>2, <2>3 DEF LogAnswers
<1>10. CASE e.reach # "none" /\ rule = "world_readable"
  <2>1. a \in StorageAnswers(e)
    BY <1>10 DEF Answers
  <2>2. CASE a = KeyAnswer("inconclusive", e)
    BY <1>2, <1>6, <1>10, <1>t, <2>2
  <2>3. ASSUME NEW st \in [present : {TRUE}, worldReadable : BOOLEAN, plaintext : {FALSE},
                           inventory : {"completed", "partial", "error"}, content : {"none"}],
               a = KeyAnswer(IF st.worldReadable THEN "confirmed" ELSE IF st.inventory = "completed" THEN "pass" ELSE "inconclusive",
                             [e EXCEPT !.storage = st])
        PROVE  /\ a.validation \in Validations /\ Consistent(rule, a.e) /\ a.e.candidates = e.candidates
               /\ Sound(rule, e, a.validation)
    <3>1. st \in StorageInventory
      BY DEF StorageInventory
    <3>. PICK x : x = [e EXCEPT !.storage = st]
      OBVIOUS
    <3>2. x \in EvidenceRecord /\ x.candidates = e.candidates /\ x.static = e.static /\ x.reach = e.reach
      BY <1>5, <3>1
    <3>3. PICK s \in Statuses : a = KeyAnswer(s, x)
      BY <1>6, <2>3
    <3>. QED BY <1>2, <1>10, <3>2, <3>3
  <2>. QED BY <2>1, <2>2, <2>3 DEF StorageAnswers
<1>. QED BY <1>7, <1>8, <1>9, <1>10 DEF Validated

\* A session starts without findings.
LEMMA InitFinding == ASSUME FindingAssumption, FindingInit PROVE FindingInv
<1>1. Consistent(rule, evidence)
  BY DEF FindingInit, FindingAssumption, Consistent
<1>2. NoValidation \in Validations /\ NoValidation.status = "none" /\ \A r, e : Sound(r, e, NoValidation)
  BY NoValidationIs
<1>3. Typed
  BY <1>1, <1>2 DEF Typed, FindingInit, Actors, Places, JobRecord, Statuses, FindingAssumption, Consistent
<1>4. Locked
  BY DEF Locked, FindingInit, Actors
<1>5. Progress
  BY DEF Progress, FindingInit
<1>6. Judgement
  BY <1>1, <1>2 DEF Judgement, FindingInit, ConfirmationShows, Evaluated1
<1>. QED BY <1>3, <1>4, <1>5, <1>6 DEF FindingInv

\* Other captures leave other evidence and touch nothing else.
LEMMA GatherKeeps == ASSUME FindingAssumption, FindingInv, Gather PROVE FindingInv'
<1>1. PICK e \in Later[rule] : e.candidates = evidence.candidates /\ evidence' = e
  BY DEF Gather
<1>2. Consistent(rule, e) /\ rule \in Rules
  BY <1>1 DEF FindingAssumption, Consistent, FindingInv, Typed
<1>3. UNCHANGED <<rule, finding, attempts, lock, job, validator, acted, recorded, judged>>
  BY DEF Gather
<1>4. Typed'
  BY <1>3 DEF FindingInv, Typed
<1>5. Locked'
  BY <1>1, <1>3 DEF FindingInv, Locked
<1>6. Progress'
  BY <1>3 DEF FindingInv, Progress
<1>7. Judgement'
  BY <1>1, <1>2, <1>3 DEF FindingInv, Judgement, Evaluated1, ConfirmationShows, Sound
<1>. QED BY <1>4, <1>5, <1>6, <1>7 DEF FindingInv

\* Who reads has the lock, and reads the validation there is.
LEMMA ReadKeeps == ASSUME FindingInv, NEW a \in Actors, EvaluateRead(a) PROVE FindingInv'
<1>. PICK j : j = [e |-> evidence, validation |-> finding.validation]
  OBVIOUS
<1>1. j \in JobRecord /\ j.e = evidence /\ j.validation = finding.validation /\ j # NoJob
  <2>1. j \in JobRecord /\ j.e = evidence /\ j.validation = finding.validation
    BY DEF FindingInv, Typed, Judgement, Consistent, JobRecord
  <2>. QED BY <2>1, JobIsNoNoJob
<1>2. UNCHANGED <<rule, evidence, finding, attempts, gathered, acted, recorded, judged>> /\ lock = "free" /\ lock' = a
  BY DEF EvaluateRead, history
<1>3. job' = [job EXCEPT ![a] = j] /\ job'[a] = j /\ \A b \in Actors \ {a} : job'[b] = job[b]
  BY DEF EvaluateRead, FindingInv, Typed
<1>4. /\ a = "validator" => validator.at = "recorded" /\ validator' = [validator EXCEPT !.at = "evaluating"]
      /\ a # "validator" => validator' = validator
  BY DEF EvaluateRead, MayEvaluate, Evaluating
<1>5. /\ validator' \in [at : Places, result : Validations] /\ validator'.result = validator.result
      /\ validator'.at = IF a = "validator" THEN "evaluating" ELSE validator.at
  BY <1>4 DEF FindingInv, Typed, Places
<1>6. Typed'
  BY <1>1, <1>2, <1>3, <1>5 DEF FindingInv, Typed
<1>7. Locked'
  BY <1>1, <1>2, <1>3, <1>5 DEF FindingInv, Locked, Judgement, Actors
<1>8. Progress'
  BY <1>2, <1>4, <1>5 DEF FindingInv, Progress
<1>9. Judgement'
  BY <1>2, <1>5 DEF FindingInv, Judgement, Evaluated1, ConfirmationShows
<1>. QED BY <1>6, <1>7, <1>8, <1>9 DEF FindingInv

\* What is saved is judged by what was read.
LEMMA SaveKeeps == ASSUME FindingInv, NEW a \in Actors, EvaluateSave(a) PROVE FindingInv'
<1>. PICK j : j = job[a]
  OBVIOUS
<1>1. /\ lock = a /\ j \in JobRecord /\ j.validation = finding.validation /\ Consistent(rule, j.e)
      /\ j.e.candidates = evidence.candidates
  BY DEF EvaluateSave, FindingInv, Locked
<1>2. UNCHANGED <<rule, evidence, attempts, gathered, acted, recorded>> /\ lock' = "free"
  BY DEF EvaluateSave
<1>3. job' = [job EXCEPT ![a] = NoJob] /\ job'[a] = NoJob /\ \A b \in Actors \ {a} : job'[b] = job[b]
  BY DEF EvaluateSave, FindingInv, Typed
<1>4. /\ finding' = [exists |-> TRUE, status |-> Status(rule, j.e, j.validation), validation |-> j.validation]
      /\ judged' = j
  BY DEF EvaluateSave
<1>5. validator' = IF a = "validator" THEN [validator EXCEPT !.at = "returned"] ELSE validator
  BY DEF EvaluateSave
<1>6. /\ validator' \in [at : Places, result : Validations] /\ validator'.result = validator.result
      /\ validator'.at = IF a = "validator" THEN "returned" ELSE validator.at
  BY <1>5 DEF FindingInv, Typed, Places
<1>7. j.e \in EvidenceRecord /\ j.validation \in Validations /\ rule \in Rules
  BY <1>1 DEF JobRecord, FindingInv, Typed
<1>8. PICK s \in Statuses : s = Status(rule, j.e, j.validation) /\ (j.validation.status = "confirmed" => s = "confirmed")
  BY <1>7, StatusType
<1>9. /\ finding' \in [exists : BOOLEAN, status : Statuses, validation : Validations]
      /\ finding'.validation = j.validation /\ finding'.status = s
  BY <1>4, <1>7, <1>8
<1>10. Typed'
  <2>1. judged' \in [e : EvidenceRecord, validation : Validations \cup {Unjudged}]
    BY <1>1, <1>4 DEF JobRecord
  <2>. QED BY <1>2, <1>3, <1>6, <1>9, <2>1 DEF FindingInv, Typed
<1>11. Locked'
  <2>1. lock = "validator" <=> validator.at = "evaluating"
    BY DEF FindingInv, Locked
  <2>2. \A b \in Actors : job'[b] = NoJob
    BY <1>1, <1>3 DEF FindingInv, Locked
  <2>3. "free" \notin Actors
    BY DEF Actors
  <2>. QED BY <1>1, <1>2, <1>6, <2>1, <2>2, <2>3 DEF Locked
<1>12. Progress'
  BY <1>1, <1>2, <1>4, <1>6, <1>9 DEF FindingInv, Progress, Locked
<1>13. Judgement'
  <2>1. finding'.status = Status(rule, judged'.e, finding'.validation)
    BY <1>4, <1>8, <1>9
  <2>2. j.validation = recorded
    BY <1>1 DEF FindingInv, Progress
  <2>3. ConfirmationShows'
    BY <1>2, <1>8, <1>9, <2>2 DEF ConfirmationShows
  <2>. QED BY <1>1, <1>2, <1>4, <1>6, <2>1, <2>3 DEF FindingInv, Judgement, Sound
<1>. QED BY <1>10, <1>11, <1>12, <1>13 DEF FindingInv

\* An attempt is written down before anything reaches the device.
LEMMA ReserveKeeps == ASSUME FindingAssumption, FindingInv, Reserve PROVE FindingInv'
<1>1. /\ UNCHANGED <<rule, evidence, finding, lock, job, gathered, acted, recorded, judged>>
      /\ validator' = [at |-> "reserved", result |-> NoValidation] /\ validator.at \in {"idle", "returned"}
      /\ attempts < MaxAttempts /\ attempts' = attempts + 1 /\ rule \in Validated
  BY DEF Reserve, history
<1>2. Typed'
  BY <1>1, NoValidationIs DEF FindingInv, Typed, Places, FindingAssumption
<1>3. Locked'
  BY <1>1 DEF FindingInv, Locked
<1>4. Progress'
  BY <1>1 DEF FindingInv, Progress, Typed
<1>5. Judgement'
  BY <1>1, NoValidationIs DEF FindingInv, Judgement, Evaluated1, ConfirmationShows
<1>. QED BY <1>2, <1>3, <1>4, <1>5 DEF FindingInv

\* An attempt reaches the device once.
LEMMA ActKeeps == ASSUME FindingInv, Act PROVE FindingInv'
<1>1. /\ UNCHANGED <<rule, finding, attempts, lock, job, gathered, recorded, judged>> /\ validator.at = "reserved"
      /\ acted' \in {acted, acted + 1}
  BY DEF Act
<1>2. PICK a \in Answers(evidence) : evidence' = a.e /\ validator' = [at |-> "acted", result |-> a.validation]
  BY DEF Act
<1>3. rule \in Validated /\ Consistent(rule, evidence)
  BY <1>1 DEF FindingInv, Progress, Judgement
<1>4. /\ a.validation \in Validations /\ Consistent(rule, a.e) /\ a.e.candidates = evidence.candidates
      /\ Sound(rule, evidence, a.validation)
  BY <1>2, <1>3, AnswersAre
<1>5. Typed'
  BY <1>1, <1>2, <1>4 DEF FindingInv, Typed, Places
<1>6. Locked'
  BY <1>1, <1>2, <1>4 DEF FindingInv, Locked
<1>7. Progress'
  <2>1. acted \in Nat /\ attempts \in Nat /\ acted + 1 <= attempts
    BY <1>1 DEF FindingInv, Progress, Typed
  <2>2. acted' + 0 <= attempts'
    <3>1. PICK n \in Nat, m \in Nat : n = acted /\ m = attempts /\ n + 1 <= m
      BY <2>1
    <3>2. attempts' = m /\ (acted' = n \/ acted' = n + 1)
      BY <1>1, <3>1
    <3>3. CASE acted' = n
      BY <3>1, <3>2, <3>3
    <3>4. CASE acted' = n + 1
      BY <3>1, <3>2, <3>4
    <3>. QED BY <3>2, <3>3, <3>4
  <2>. QED BY <1>1, <1>2, <1>3, <2>2 DEF FindingInv, Progress
<1>8. Judgement'
  BY <1>1, <1>2, <1>4 DEF FindingInv, Judgement, Evaluated1, ConfirmationShows, Sound
<1>. QED BY <1>5, <1>6, <1>7, <1>8 DEF FindingInv

\* A validation is recorded when nobody is evaluating.
LEMMA RecordKeeps == ASSUME FindingInv, Record PROVE FindingInv'
<1>. PICK v : v = validator.result
  OBVIOUS
<1>1. /\ UNCHANGED <<rule, evidence, attempts, lock, job, gathered, acted>> /\ validator.at = "acted" /\ lock = "free"
      /\ finding' = [finding EXCEPT !.validation = v, !.status = IF v.status = "confirmed" THEN "confirmed" ELSE @]
      /\ recorded' = v /\ validator' = [validator EXCEPT !.at = "recorded"]
      /\ judged' = [judged EXCEPT !.validation = Unjudged]
  BY DEF Record
<1>2. v \in Validations /\ "confirmed" \in Statuses
  BY DEF FindingInv, Typed, Statuses
<1>3. /\ finding' \in [exists : BOOLEAN, status : Statuses, validation : Validations]
      /\ finding'.validation = v /\ (v.status = "confirmed" => finding'.status = "confirmed")
  BY <1>1, <1>2 DEF FindingInv, Typed
<1>4. /\ judged' \in [e : EvidenceRecord, validation : Validations \cup {Unjudged}]
      /\ judged'.e = judged.e /\ judged'.validation = Unjudged
  BY <1>1 DEF FindingInv, Typed
<1>5. /\ validator' \in [at : Places, result : Validations]
      /\ validator'.at = "recorded" /\ validator'.result = v
  BY <1>1 DEF FindingInv, Typed, Places
<1>6. Typed'
  BY <1>1, <1>2, <1>3, <1>4, <1>5 DEF FindingInv, Typed
<1>7. Locked'
  BY <1>1, <1>5 DEF FindingInv, Locked, Actors
<1>8. Progress'
  BY <1>1, <1>3, <1>5 DEF FindingInv, Progress
<1>9. Judgement'
  <2>1. ~Evaluated1'
    BY <1>2, <1>3, <1>4, NoValidationIs DEF Evaluated1
  <2>. QED BY <1>1, <1>3, <1>4, <1>5, <2>1 DEF FindingInv, Judgement, ConfirmationShows
<1>. QED BY <1>6, <1>7, <1>8, <1>9 DEF FindingInv

\* Whoever dies lets go of the lock, and nothing was written.
LEMMA AbandonKeeps == ASSUME FindingInv, Abandon PROVE FindingInv'
<1>1. /\ UNCHANGED <<rule, evidence, finding, attempts, gathered, acted, recorded, judged>>
      /\ lock' = IF lock = "validator" THEN "free" ELSE lock
  BY DEF Abandon, history
<1>2. /\ job' = [job EXCEPT !["validator"] = NoJob] /\ job'["validator"] = NoJob /\ job'["web"] = job["web"]
  BY DEF Abandon, FindingInv, Typed, Actors
<1>3. /\ validator' \in [at : Places, result : Validations]
      /\ validator'.at = "idle" /\ validator'.result = validator.result
  BY DEF Abandon, FindingInv, Typed, Places
<1>4. Typed'
  BY <1>1, <1>2, <1>3 DEF FindingInv, Typed
<1>5. Locked'
  BY <1>1, <1>2, <1>3 DEF FindingInv, Locked, Actors, Typed
<1>6. Progress'
  <2>1. acted \in Nat /\ attempts \in Nat /\ acted + (IF validator.at = "reserved" THEN 1 ELSE 0) <= attempts
    BY DEF FindingInv, Progress, Typed
  <2>2. acted + 0 <= attempts
    BY <2>1
  <2>. QED BY <1>1, <1>3, <2>2 DEF FindingInv, Progress
<1>7. Judgement'
  BY <1>1, <1>3 DEF FindingInv, Judgement, Evaluated1, ConfirmationShows
<1>. QED BY <1>4, <1>5, <1>6, <1>7 DEF FindingInv

LEMMA WebDiesKeeps == ASSUME FindingInv, WebDies PROVE FindingInv'
<1>1. UNCHANGED <<rule, evidence, finding, attempts, validator, gathered, acted, recorded, judged>> /\ lock = "web" /\ lock' = "free"
  BY DEF WebDies, history
<1>2. job' = [job EXCEPT !["web"] = NoJob] /\ job'["web"] = NoJob /\ job'["validator"] = job["validator"]
  BY DEF WebDies, FindingInv, Typed, Actors
<1>3. Typed'
  BY <1>1, <1>2 DEF FindingInv, Typed
<1>4. Locked'
  BY <1>1, <1>2 DEF FindingInv, Locked, Actors, Typed
<1>5. Progress'
  BY <1>1 DEF FindingInv, Progress
<1>6. Judgement'
  BY <1>1 DEF FindingInv, Judgement, Evaluated1, ConfirmationShows
<1>. QED BY <1>3, <1>4, <1>5, <1>6 DEF FindingInv

LEMMA FindingStep == ASSUME FindingAssumption, FindingInv, [FindingNext]_findingVars PROVE FindingInv'
<1>1. CASE UNCHANGED findingVars
  BY <1>1 DEF findingVars, FindingInv, Typed, Locked, Progress, Judgement, Evaluated1, ConfirmationShows
<1>2. CASE FindingNext
  BY <1>2, GatherKeeps, ReserveKeeps, ActKeeps, RecordKeeps, AbandonKeeps, WebDiesKeeps, ReadKeeps, SaveKeeps DEF FindingNext
<1>. QED BY <1>1, <1>2

\* Every verdict the invariant allows is covered.
LEMMA VerdictsStand == ASSUME FindingInv PROVE VerdictCovered
<1>. PICK e \in EvidenceRecord : e = judged.e
  BY DEF FindingInv, Judgement, Consistent
<1>. PICK v \in Validations : v = recorded
  BY DEF FindingInv, Typed
<1>1. rule \in Rules /\ finding.validation = v /\ e.candidates = evidence.candidates /\ (e.static = "absent" => e.candidates = {})
  BY DEF FindingInv, Typed, Progress, Judgement, Consistent
<1>2. Evaluated1 => finding.status = Status(rule, e, v)
  BY <1>1 DEF FindingInv, Judgement
<1>3. E1 = e
  BY DEF E1
<1>4. CandidateKept
  BY <1>1, <1>2, <1>3, CandidatesStand DEF CandidateKept
<1>5. v.status = "confirmed" => rule \notin FridaRequired /\ (rule \in RootRequired => Candidates(rule, e) # {})
  <2>1. v.status = "confirmed" => rule \in Validated /\ (rule = "world_readable" => e.candidates # {})
    BY <1>1 DEF FindingInv, Judgement, Sound
  <2>2. rule \in Validated /\ rule \in RootRequired => rule = "world_readable"
    BY DEF Validated, RootRequired
  <2>3. rule = "world_readable" /\ e.candidates # {} => Candidates(rule, e) # {}
    BY <1>1 DEF Candidates, WithCandidates
  <2>4. rule \in Validated => rule \notin FridaRequired
    BY DEF Validated, FridaRequired, Crypto
  <2>. QED BY <2>1, <2>2, <2>3, <2>4
<1>6. GateHonest
  <2>1. SUFFICES ASSUME Evaluated1, Scanned(e), Candidates(rule, e) = {},
                        (rule \in FridaRequired /\ ~ObserverRan(e)) \/ (rule \in RootRequired /\ ~e.storage.present)
                 PROVE  finding.status \in {"skipped", "error"}
    BY <1>3 DEF GateHonest
  <2>2. v.status # "confirmed"
    BY <1>5, <2>1
  <2>. QED BY <1>1, <1>2, <2>1, <2>2, GateStands
<1>7. BadFridaDecidesNothing
  <2>1. SUFFICES ASSUME Evaluated1, \E f \in e.files : f.registered /\ (~f.intact \/ ~f.parsed \/ (f.source = "fixture" /\ Scanned(e)))
                 PROVE  /\ rule \in FridaRequired => finding.status \in {"error", "skipped"} \/ Candidates(rule, e) # {}
                        /\ finding.status = Status(rule, [e EXCEPT !.events = {}, !.operations = <<>>], v)
    BY <1>1, <1>3 DEF BadFridaDecidesNothing
  <2>2. FridaErrors(e)
    BY <2>1 DEF FridaErrors
  <2>3. rule \in FridaRequired /\ Candidates(rule, e) = {} => finding.status \in {"error", "skipped"}
    BY <1>1, <1>2, <1>5, <2>1, <2>2, BadFilesStand
  <2>4. Status(rule, Silenced(e), v) = Status(rule, e, v)
    BY <1>1, <2>2, SilencedSame
  <2>. QED BY <1>2, <2>1, <2>3, <2>4 DEF Silenced
<1>8. ConfirmedIsOwn
  BY <1>1, <1>2, <1>3, ConfirmedStands DEF ConfirmedIsOwn
<1>9. PassIsCovered
  <2>1. SUFFICES ASSUME Evaluated1, finding.status = "pass" PROVE PassIsCovered
    BY DEF PassIsCovered
  <2>2. \/ Evaluated(rule, e).status = "pass"
        \/ rule = "world_readable" /\ v.status = "pass"
    BY <1>1, <1>2, <2>1, PassesBy
  <2>3. CASE rule = "world_readable" /\ v.status = "pass"
    BY <2>3 DEF PassIsCovered, Crypto
  <2>4. CASE Evaluated(rule, e).status = "pass"
    <3>1. /\ rule \in {"debuggable", "policy", "exported"} => e.manifest
          /\ rule = "component_policy" => e.policy = "pass" \/ e.ipc.outcomes = {"rejected"}
          /\ rule = "cleartext" => e.manifest /\ e.cleartext = "no" /\ ~OwnSign(e, "cleartext_request")
          /\ rule \in {"secret", "api_policy", "behavior"} => e.static = "completed"
          /\ rule \in Crypto => /\ e.operations # <<>>
                                /\ \A i \in DOMAIN e.operations : e.correlation # "good" => e.operations[i].parsed
          /\ rule = "world_readable" => e.storage.present /\ e.storage.inventory = "completed"
          /\ rule = "tls" => [sign : {"canary_request", "certificate_rejected"}, by : {"validation_canary"}] \subseteq e.traffic
          /\ rule \notin {"token", "bridge", "settings", "ssl_proceed", "stored_canary"}
      BY <1>1, <2>4, EvaluatedPasses
    <3>. QED BY <1>1, <1>3, <3>1 DEF PassIsCovered, Rules, Crypto
  <2>. QED BY <2>2, <2>3, <2>4
<1>10. WorseNeverPasses
  BY <1>1, <1>2, <1>3, WorseStands DEF WorseNeverPasses
<1>. QED BY <1>4, <1>6, <1>7, <1>8, <1>9, <1>10 DEF VerdictCovered

\* However evaluations, validations, captures and the ends of processes interleave: no
\* recorded validation is lost, no more of them reach the device than the scope
\* allows, a confirmation shows, and who validates has his finding judged by it.
THEOREM ValidationsAreHonoured == ASSUME FindingAssumption PROVE FindingSpec => []ValidationHonoured
<1>1. FindingInit => FindingInv
  BY InitFinding
<1>2. FindingInv /\ [FindingNext]_findingVars => FindingInv'
  BY FindingStep
<1>3. ASSUME FindingInv PROVE ValidationHonoured
  <2>1. FindingTypeOK
    <3>1. \A a \in Actors : job[a] # NoJob <=> lock = a
      BY <1>3 DEF FindingInv, Locked
    <3>. QED BY <1>3, <3>1 DEF FindingInv, Typed, FindingTypeOK, Places, Validations
  <2>2. AttemptsBounded
    <3>1. acted \in Nat /\ attempts \in 0..MaxAttempts /\ acted + (IF validator.at = "reserved" THEN 1 ELSE 0) <= attempts
      BY <1>3 DEF FindingInv, Progress, Typed
    <3>2. acted <= attempts
      BY <3>1
    <3>. QED BY <3>1, <3>2 DEF AttemptsBounded, FindingAssumption
  <2>3. ValidationKept /\ Reevaluated /\ ConfirmationShows
    BY <1>3 DEF FindingInv, Progress, Judgement, ValidationKept, Reevaluated
  <2>. QED BY <2>1, <2>2, <2>3 DEF ValidationHonoured
<1>. QED BY <1>1, <1>2, <1>3, PTL DEF FindingSpec

\* Whatever a session has collected, and in whatever order: a verdict rests on evidence
\* that is there, that is the app's own and that is enough for it, a static candidate
\* gives way to nothing but its own validation or a named failure, and no further
\* sign of a weakness makes a finding pass.
THEOREM VerdictsAreCovered == ASSUME FindingAssumption PROVE FindingSpec => []VerdictCovered
<1>1. FindingInit => FindingInv
  BY InitFinding
<1>2. FindingInv /\ [FindingNext]_findingVars => FindingInv'
  BY FindingStep
<1>3. FindingInv => VerdictCovered
  BY VerdictsStand
<1>. QED BY <1>1, <1>2, <1>3, PTL DEF FindingSpec

(***************************************************************************)
(*                       The ledger of a certificate                       *)
(***************************************************************************)

\* Nobody put nothing there.
Marked == installed = NoCertificate <=> putBy = "nobody"

\* Only a session that saw no certificate comes to own one, and then whatever
\* others have put there came after its snapshot.
OwnedAfterAbsence ==
  /\ ca.owner = "framework_owned" => ca.snapshot = "captured_absent"
  /\ ca.snapshot = "captured_absent" /\ putBy = "others" => since

\* Within a call the manager's certificate is owned, or about to be owned or removed.
OwnedOrInHand ==
  /\ caLosses = 0 /\ putBy = "framework" =>
       ca.owner = "framework_owned" \/ at \in {"verify", "plan"} \/ rollback
  /\ at = "cleanup" /\ ~rollback => ca.owner = "framework_owned"

CaInv == CaTypeOK /\ RemovedIsGone /\ Marked /\ OwnedAfterAbsence /\ OwnedOrInHand

\* A counted failure is one the bound leaves room for.
LEMMA CountedInBound ==
  ASSUME CaAssumption, caFaults \in 0..MaxCaFaults,
         NEW failed \in {FALSE} \cup {MayFail}, Counted(failed)
  PROVE  caFaults' \in 0..MaxCaFaults
<1>1. CASE failed
  <2>1. MayFail
    BY <1>1
  <2>. QED BY <1>1, <2>1 DEF MayFail, Counted, CaAssumption
<1>2. CASE ~failed
  BY <1>2 DEF Counted
<1>. QED BY <1>1, <1>2

\* A ledger as a caller has it before its first call.
LEMMA EmptyLedger ==
  /\ NoLedger \in CaLedger
  /\ NoLedger.applied = "not_applied" /\ NoLedger.owner = "none" /\ NoLedger.snapshot = "none"
  BY DEF NoLedger, CaLedger, Values, SnapshotStates, AppliedStates, OwnershipStates

\* Before the first call nobody owns anything.
LEMMA CaInitInv == ASSUME CaAssumption, CaInit PROVE CaInv
<1>1. CaTypeOK
  <2>1. ca \in CaLedger /\ at \in CaSteps
    BY EmptyLedger DEF CaInit, CaSteps
  <2>2. installed \in Values /\ putBy \in {"nobody", "framework", "others"}
    BY DEF CaInit
  <2>3. caFaults \in 0..MaxCaFaults /\ caChanges \in 0..MaxCaChanges /\ caLosses \in 0..MaxCaLosses
    BY DEF CaInit, CaAssumption
  <2>4. rollback \in BOOLEAN /\ since \in BOOLEAN /\ at = "idle" /\ ~rollback
    BY DEF CaInit
  <2>. QED BY <2>1, <2>2, <2>3, <2>4 DEF CaTypeOK
<1>2. RemovedIsGone /\ OwnedAfterAbsence /\ OwnedOrInHand
  BY EmptyLedger DEF CaInit, RemovedIsGone, OwnedAfterAbsence, OwnedOrInHand
<1>3. Marked
  BY DEF CaInit, Marked
<1>. QED BY <1>1, <1>2, <1>3 DEF CaInv

\* One step of the manager or of others keeps every conjunct.
LEMMA CaStepInv == ASSUME CaAssumption, CaInv, [CaNext]_caVars PROVE CaInv'
<1>. USE DEF CaAssumption, CaInv, CaTypeOK, RemovedIsGone, Marked, OwnedAfterAbsence, OwnedOrInHand,
             CaLedger, Values, SnapshotStates, AppliedStates, OwnershipStates, CaSteps, caHistory,
             Returned, Goes
<1>1. CASE Snapshot
  <2>1. PICK failed \in {FALSE} \cup {MayFail} :
          /\ Counted(failed)
          /\ ca' = IF failed THEN [NoLedger EXCEPT !.snapshot = "capture_failed", !.owner = "unknown"]
                   ELSE [NoLedger EXCEPT !.fingerprint = installed,
                           !.snapshot = IF installed = NoCertificate THEN "captured_absent" ELSE "captured_present"]
    BY <1>1 DEF Snapshot
  <2>2. caFaults' \in 0..MaxCaFaults
    BY <2>1, CountedInBound
  <2>. QED BY <1>1, <2>1, <2>2 DEF Snapshot, NoLedger
<1>2. CASE Apply
  BY <1>2 DEF Apply
<1>3. CASE Install
  <2>1. PICK failed \in {FALSE} \cup {MayFail}, effect \in BOOLEAN :
          /\ Counted(failed)
          /\ installed' = IF effect THEN Target ELSE installed
          /\ putBy' = IF effect THEN "framework" ELSE putBy
          /\ Goes(IF failed THEN "plan" ELSE "verify", FALSE)
    BY <1>3 DEF Install
  <2>2. caFaults' \in 0..MaxCaFaults
    BY <2>1, CountedInBound
  <2>. QED BY <1>3, <2>1, <2>2 DEF Install
<1>4. CASE Verify
  <2>1. PICK failed \in {FALSE} \cup {MayFail} :
          /\ Counted(failed)
          /\ IF ~failed /\ installed = Target THEN Returned(Owned(ca)) ELSE Goes("plan", FALSE)
    BY <1>4 DEF Verify
  <2>2. caFaults' \in 0..MaxCaFaults
    BY <2>1, CountedInBound
  <2>. QED BY <1>4, <2>1, <2>2 DEF Verify, Owned
<1>5. CASE Plan
  <2>1. PICK failed \in {FALSE} \cup {MayFail} :
          /\ Counted(failed)
          /\ \/ ~failed /\ installed = Target /\ Goes("cleanup", TRUE)
             \/ ~failed /\ installed = NoCertificate /\ Returned(ca)
             \/ (failed \/ installed \notin {Target, NoCertificate}) /\ Raised
    BY <1>5 DEF Plan
  <2>2. caFaults' \in 0..MaxCaFaults
    BY <2>1, CountedInBound
  <2>. QED BY <1>5, <2>1, <2>2 DEF Plan, Raised, Owned
<1>6. CASE Cleanup
  BY <1>6 DEF Cleanup
<1>7. CASE Decide
  <2>1. PICK failed \in {FALSE} \cup {MayFail} :
          /\ Counted(failed)
          /\ \/ ~failed /\ installed = Target /\ Goes("remove", rollback)
             \/ ~failed /\ installed = NoCertificate /\ Cleaned([ca EXCEPT !.applied = "removed"])
             \/ (failed \/ installed \notin {Target, NoCertificate}) /\ Raised
    BY <1>7 DEF Decide
  <2>2. caFaults' \in 0..MaxCaFaults
    BY <2>1, CountedInBound
  <2>3. at = "cleanup" /\ UNCHANGED <<installed, putBy, since, caChanges, caLosses>>
    BY <1>7 DEF Decide
  <2>4. CASE ~failed /\ installed = Target /\ Goes("remove", rollback)
    BY <2>2, <2>3, <2>4
  <2>5. CASE ~failed /\ installed = NoCertificate /\ Cleaned([ca EXCEPT !.applied = "removed"])
    BY <2>2, <2>3, <2>5 DEF Cleaned
  <2>6. CASE Raised
    BY <2>2, <2>3, <2>6 DEF Raised, Owned
  <2>. QED BY <2>1, <2>4, <2>5, <2>6
<1>8. CASE Remove
  <2>1. PICK failed \in {FALSE} \cup {MayFail}, effect \in BOOLEAN :
          /\ Counted(failed)
          /\ installed' = IF effect THEN NoCertificate ELSE installed
          /\ putBy' = IF effect THEN "nobody" ELSE putBy
          /\ IF effect /\ ~failed THEN Goes("confirm", rollback) ELSE Raised
    BY <1>8 DEF Remove
  <2>2. caFaults' \in 0..MaxCaFaults
    BY <2>1, CountedInBound
  <2>. QED BY <1>8, <2>1, <2>2 DEF Remove, Raised, Owned
<1>9. CASE Confirm
  <2>1. PICK failed \in {FALSE} \cup {MayFail} :
          /\ Counted(failed)
          /\ IF ~failed /\ installed = NoCertificate
             THEN Cleaned([ca EXCEPT !.applied = "removed", !.owner = "none"]) ELSE Raised
    BY <1>9 DEF Confirm
  <2>2. caFaults' \in 0..MaxCaFaults
    BY <2>1, CountedInBound
  <2>. QED BY <1>9, <2>1, <2>2 DEF Confirm, Raised, Cleaned, Owned
<1>10. CASE OthersChange
  BY <1>10 DEF OthersChange
<1>11. CASE Lose
  <2>1. /\ ca' = NoLedger /\ at' = "idle" /\ rollback' = FALSE /\ caLosses' = caLosses + 1
        /\ caLosses < MaxCaLosses
        /\ UNCHANGED <<installed, putBy, since, caFaults, caChanges>>
    BY <1>11 DEF Lose
  <2>a. ~rollback' /\ rollback' \in BOOLEAN
    BY <2>1
  <2>b. /\ ca' \in CaLedger /\ at' \in CaSteps /\ caLosses' \in 0..MaxCaLosses
        /\ installed' \in Values /\ putBy' \in {"nobody", "framework", "others"}
        /\ caFaults' \in 0..MaxCaFaults /\ caChanges' \in 0..MaxCaChanges
    BY <2>1, EmptyLedger
  <2>c. since' \in BOOLEAN
    BY <2>1
  <2>2. CaTypeOK'
    BY <2>1, <2>a, <2>b, <2>c
  <2>3. RemovedIsGone' /\ Marked' /\ OwnedAfterAbsence' /\ OwnedOrInHand'
    BY <2>1, EmptyLedger
  <2>. QED BY <2>2, <2>3
<1>12. CASE UNCHANGED caVars
  BY <1>12 DEF caVars
<1>. QED BY <1>1, <1>2, <1>3, <1>4, <1>5, <1>6, <1>7, <1>8, <1>9, <1>10, <1>11, <1>12
         DEF CaNext, ManagerStep

\* The manager changes the store in two steps only: it installs, after a snapshot
\* without a certificate, and it removes what equals its own.
LEMMA StepKeepsForeign == ASSUME CaAssumption, CaInv, CaNext PROVE ForeignCertificateKept
<1>. SUFFICES ASSUME ManagerStep, putBy = "others", installed' # installed
              PROVE  since /\ (at = "install" \/ installed = Target)
  BY DEF ForeignCertificateKept
<1>1. Install \/ Remove
  BY DEF ManagerStep, Snapshot, Apply, Verify, Plan, Cleanup, Decide, Confirm
<1>2. CASE Install
  BY <1>2 DEF Install, CaInv, CaTypeOK, OwnedAfterAbsence
<1>3. CASE Remove
  <2>1. at = "remove" /\ installed = Target
    BY <1>3 DEF Remove
  <2>2. ca.snapshot = "captured_absent"
    BY <2>1 DEF CaInv, CaTypeOK, OwnedAfterAbsence
  <2>. QED BY <2>1, <2>2 DEF CaInv, OwnedAfterAbsence
<1>. QED BY <1>1, <1>2, <1>3

\* A session's ledger says of every certificate the manager installed that it is
\* the session's, until it is gone, and no step of the manager changes a
\* certificate of others but the one exception that its property names.
THEOREM AccountsRight == ASSUME CaAssumption PROVE CaSpec => CertificateAccounts
<1>1. CaInit => CaInv
  BY CaInitInv
<1>2. CaInv /\ [CaNext]_caVars => CaInv'
  BY CaStepInv
<1>3. CaInv => LedgerRight
  BY DEF CaInv, LedgerRight, OwnedIsKnown, OwnedOrInHand, CaTypeOK
<1>4. CaInv /\ CaInv' /\ [CaNext]_caVars => [LedgerRight' /\ ForeignCertificateKept]_caVars
  <2>1. CaInv' => LedgerRight'
    BY <1>3, PTL
  <2>. QED BY <2>1, StepKeepsForeign
<1>. QED BY <1>1, <1>2, <1>4, PTL DEF CaSpec, CertificateAccounts
=============================================================================
