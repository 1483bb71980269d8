------------------------ MODULE RuntimeChecks_proofs ------------------------
(***************************************************************************)
(* What the runtime checks report, for every instance of their models.     *)
(*                                                                         *)
(* The WebView replay reports exactly the WebViews that were exposed at    *)
(* some moment, and answers no SSL error twice.  A component is called     *)
(* once, and its route confirmed only by what that call did.  An event is  *)
(* given to the step of a scenario that caused it, or to none.  And what a *)
(* scenario did to the app and what its result says it did agree.  A       *)
(* storage report that calls itself complete has looked at everything.     *)
(***************************************************************************)
EXTENDS WebViewEvents, ComponentValidation, ScenarioCorrelation, ScenarioRun, PrivateStorage, SequenceTheorems,
        FiniteSetTheorems, WellFoundedInduction, TLAPS

(***************************************************************************)
(*                            The WebView replay                           *)
(***************************************************************************)

\* The replay looks at the WebView an event is about; what makes it complete is
\* that all others were looked at when they became what they are.
UpToDate ==
  /\ \A w \in WebViews : Bridged(view[w]) => w \in correlated
  /\ \A w \in WebViews : Unsafe(view[w]) => w \in unsafe

WebViewInv == WebViewTypeOK /\ UpToDate /\ ExposureIsAMoment /\ ProceedsAnswerErrors

\* No event has been read.
LEMMA WebViewInitInv == WebViewInit => WebViewInv
  BY DEF WebViewInit, WebViewInv, WebViewTypeOK, UpToDate, ExposureIsAMoment, ProceedsAnswerErrors,
         View, Bridged, Unsafe, Settings, Origins

\* An event about one WebView that is looked at after the event keeps the lists
\* complete: the others are as they were.
LEMMA WebViewEventInv ==
  ASSUME WebViewInv, NEW w \in WebViews, NEW v \in View, Becomes(w, v), Correlate(w, v)
  PROVE  WebViewInv'
<1>1. /\ view' = [view EXCEPT ![w] = v]
      /\ view'[w] = v /\ \A x \in WebViews \ {w} : view'[x] = view[x]
  BY DEF WebViewInv, WebViewTypeOK, Becomes
<1>2. /\ {x \in WebViews : Bridged(view'[x])} \cup exposed.bridge = correlated'
      /\ {x \in WebViews : Unsafe(view'[x])} \cup exposed.content = unsafe'
  BY <1>1 DEF WebViewInv, WebViewTypeOK, UpToDate, ExposureIsAMoment, Correlate
<1>3. exposed' = [bridge |-> correlated', content |-> unsafe']
  BY <1>2 DEF Becomes
<1>4. ExposureIsAMoment'
  BY <1>3 DEF ExposureIsAMoment
<1>5. UpToDate'
  BY <1>2 DEF UpToDate, Bridged, Unsafe
<1>6. WebViewTypeOK'
  <2>1. correlated' \subseteq WebViews /\ unsafe' \subseteq WebViews
    BY DEF WebViewInv, WebViewTypeOK, Correlate
  <2>2. exposed' \in [{"bridge", "content"} -> SUBSET WebViews]
    BY <1>3, <2>1
  <2>3. view' \in [WebViews -> View]
    BY <1>1 DEF WebViewInv, WebViewTypeOK
  <2>. QED BY <2>1, <2>2, <2>3 DEF WebViewInv, WebViewTypeOK, Becomes
<1>7. ProceedsAnswerErrors'
  BY DEF WebViewInv, ProceedsAnswerErrors, Becomes
<1>. QED BY <1>4, <1>5, <1>6, <1>7 DEF WebViewInv

\* One event keeps every conjunct.
LEMMA WebViewStepInv == WebViewInv /\ [WebViewNext]_webViewVars => WebViewInv'
<1>. SUFFICES ASSUME WebViewInv, [WebViewNext]_webViewVars PROVE WebViewInv'
  OBVIOUS
<1>a. \A w \in WebViews : view[w] \in View
  BY DEF WebViewInv, WebViewTypeOK
<1>1. ASSUME NEW w \in WebViews, Setting(w) PROVE WebViewInv'
  <2>1. PICK setting \in Settings, enabled \in BOOLEAN :
          LET v == [view[w] EXCEPT !.on = IF enabled THEN @ \cup {setting} ELSE @ \ {setting}]
          IN Becomes(w, v) /\ Correlate(w, v)
    BY <1>1 DEF Setting
  <2>. DEFINE v == [view[w] EXCEPT !.on = IF enabled THEN @ \cup {setting} ELSE @ \ {setting}]
  <2>2. v \in View
    BY <1>a DEF View
  <2>. QED BY <2>1, <2>2, WebViewEventInv
<1>2. ASSUME NEW w \in WebViews, MixedContent(w) PROVE WebViewInv'
  <2>1. PICK mode \in {"never", "always_allow"} :
          LET v == [view[w] EXCEPT !.mixed = mode] IN Becomes(w, v) /\ Correlate(w, v)
    BY <1>2 DEF MixedContent
  <2>2. [view[w] EXCEPT !.mixed = mode] \in View
    BY <1>a DEF View
  <2>. QED BY <2>1, <2>2, WebViewEventInv
<1>3. ASSUME NEW w \in WebViews, AddInterface(w) PROVE WebViewInv'
  <2>1. PICK i \in Interfaces :
          LET v == [view[w] EXCEPT !.interfaces = @ \cup {i}] IN Becomes(w, v) /\ Correlate(w, v)
    BY <1>3 DEF AddInterface
  <2>2. [view[w] EXCEPT !.interfaces = @ \cup {i}] \in View
    BY <1>a DEF View
  <2>. QED BY <2>1, <2>2, WebViewEventInv
\* Taking an interface away exposes nothing that was not exposed before.
<1>4. ASSUME NEW w \in WebViews, RemoveInterface(w) PROVE WebViewInv'
  <2>1. PICK i \in Interfaces : Becomes(w, [view[w] EXCEPT !.interfaces = @ \ {i}])
    BY <1>4 DEF RemoveInterface
  <2>. DEFINE v == [view[w] EXCEPT !.interfaces = @ \ {i}]
  <2>2. v \in View
    BY <1>a DEF View
  <2>3. /\ Bridged(v) => Bridged(view[w])
        /\ Unsafe(v) => Unsafe(view[w])
    BY <1>a DEF View, Bridged, Unsafe
  <2>4. Correlate(w, v)
    BY <1>4, <2>3 DEF RemoveInterface, Correlate, WebViewInv, UpToDate
  <2>. QED BY <2>1, <2>2, <2>4, WebViewEventInv
<1>5. ASSUME NEW w \in WebViews, Load(w) PROVE WebViewInv'
  <2>1. PICK origin \in Origins \ {"none"} :
          LET v == [view[w] EXCEPT !.origin = origin] IN Becomes(w, v) /\ Correlate(w, v)
    BY <1>5 DEF Load
  <2>2. [view[w] EXCEPT !.origin = origin] \in View
    BY <1>a DEF View
  <2>. QED BY <2>1, <2>2, WebViewEventInv
<1>6. ASSUME NEW h \in Handlers, SslError(h) PROVE WebViewInv'
  <2>1. errors[h] \in Nat /\ errors' = [errors EXCEPT ![h] = errors[h] + 1]
    BY <1>6 DEF SslError, WebViewInv, WebViewTypeOK
  <2>2. WebViewTypeOK' /\ UpToDate' /\ ExposureIsAMoment'
    BY <1>6, <2>1 DEF SslError, WebViewInv, WebViewTypeOK, UpToDate, ExposureIsAMoment
  <2>3. ProceedsAnswerErrors'
    BY <1>6, <2>1 DEF SslError, WebViewInv, WebViewTypeOK, ProceedsAnswerErrors
  <2>. QED BY <2>2, <2>3 DEF WebViewInv
<1>7. ASSUME NEW h \in Handlers, SslProceed(h) PROVE WebViewInv'
  <2>1. proceeds[h] \in Nat /\ proceeds' = [proceeds EXCEPT ![h] = proceeds[h] + 1]
    BY <1>7 DEF SslProceed, WebViewInv, WebViewTypeOK
  <2>2. WebViewTypeOK' /\ UpToDate' /\ ExposureIsAMoment'
    BY <1>7, <2>1 DEF SslProceed, WebViewInv, WebViewTypeOK, UpToDate, ExposureIsAMoment
  <2>3. ProceedsAnswerErrors'
    BY <1>7, <2>1 DEF SslProceed, WebViewInv, WebViewTypeOK, ProceedsAnswerErrors
  <2>. QED BY <2>2, <2>3 DEF WebViewInv
<1>8. ASSUME NEW h \in Handlers, SslCancel(h) PROVE WebViewInv'
  BY <1>8 DEF SslCancel, WebViewInv, WebViewTypeOK, UpToDate, ExposureIsAMoment, ProceedsAnswerErrors
<1>9. CASE UNCHANGED webViewVars
  BY <1>9 DEF webViewVars, WebViewInv, WebViewTypeOK, UpToDate, ExposureIsAMoment, ProceedsAnswerErrors
<1>. QED BY <1>1, <1>2, <1>3, <1>4, <1>5, <1>6, <1>7, <1>8, <1>9 DEF WebViewNext

\* Whatever the hooks report and in whatever order, the rules see a WebView as
\* exposed exactly if it was at some moment, and no SSL error is answered twice.
THEOREM ReplayIsTrue == WebViewSpec => []ReplayTrue
<1>1. WebViewInv => ReplayTrue
  BY DEF WebViewInv, ReplayTrue
<1>. QED BY <1>1, WebViewInitInv, WebViewStepInv, PTL DEF WebViewSpec

(***************************************************************************)
(*                       The calls of exported components                  *)
(***************************************************************************)

\* A set of numbers that is not empty has a least one.
LEMMA LeastNumber ==
  ASSUME NEW T, T \subseteq Nat, T # {}
  PROVE  \E m \in T : \A k \in T : m <= k
<1>. DEFINE R == {ss \in Nat \X Nat : ss[1] < ss[2]}
<1>1. R = OpToRel(<, Nat)
  BY DEF OpToRel
<1>2. IsWellFoundedOn(R, Nat)
  BY <1>1, NatLessThanWellFounded
<1>3. PICK m \in T : \A k \in T : ~(<<k, m>> \in R)
  <2>. HIDE DEF R
  <2>. QED BY <1>2, WFMin
<1>4. ASSUME NEW k \in T PROVE m <= k
  <2>1. <<k, m>> \notin R
    BY <1>3
  <2>. QED BY <2>1
<1>. QED BY <1>4

\* What holds of 1, and of i + 1 when it holds of i, holds from 1 up to n.
LEMMA Upwards ==
  ASSUME NEW n \in Nat, NEW T, 1 \in T, \A i \in 1..(n - 1) : i \in T => i + 1 \in T
  PROVE  \A i \in 1..n : i \in T
<1>. DEFINE Missed == {k \in 1..n : k \notin T}
<1>. SUFFICES ASSUME NEW i \in 1..n, i \notin T PROVE FALSE
  OBVIOUS
<1>1. i \in Missed /\ Missed \subseteq Nat
  OBVIOUS
<1>2. PICK m \in Missed : \A k \in Missed : m <= k
  <2>. HIDE DEF Missed
  <2>. QED BY <1>1, LeastNumber
<1>3. m # 1 /\ m - 1 \notin Missed
  BY <1>2
<1>4. m - 1 \in 1..(n - 1) /\ (m - 1) + 1 = m /\ m - 1 \in T
  BY <1>3
<1>. QED BY <1>2, <1>4

\* Sequences put end to end are a sequence of the elements of all.
LEMMA FlattenIsSeq ==
  ASSUME NEW S, NEW seqs \in Seq(Seq(S))
  PROVE  FlattenSeq(seqs) \in Seq(S)
<1>. DEFINE n == Len(seqs)
            Flat(k, h) == h = [i \in 1..k |-> IF i = 1 THEN seqs[i] ELSE h[i - 1] \o seqs[i]]
            T == {k \in 1..n : \E h : Flat(k, h)}
<1>0. n \in Nat /\ \A i \in 1..n : seqs[i] \in Seq(S)
  OBVIOUS
<1>1. CASE n = 0
  <2>1. FlattenSeq(seqs) = seqs /\ seqs = << >>
    BY <1>1 DEF FlattenSeq
  <2>. QED BY <2>1
<1>2. CASE n # 0
  <2>1. 1 \in T
    <3>. DEFINE h == [i \in 1..1 |-> seqs[i]]
    <3>1. Flat(1, h)
      OBVIOUS
    <3>2. 1 \in 1..n
      BY <1>0, <1>2
    <3>. HIDE DEF Flat, h
    <3>. QED BY <3>1, <3>2
  <2>2. ASSUME NEW k \in 1..(n - 1), k \in T PROVE k + 1 \in T
    <3>1. PICK h : Flat(k, h)
      BY <2>2
    <3>. PICK v : v = h[k] \o seqs[k + 1]
      OBVIOUS
    <3>. DEFINE g == [i \in 1..(k + 1) |-> IF i = k + 1 THEN v ELSE h[i]]
    <3>2. g[k + 1] = v /\ \A i \in 1..k : g[i] = h[i]
      <4>1. k \in Nat \ {0}
        BY <1>0
      <4>2. k + 1 \in 1..(k + 1) /\ \A i \in 1..k : i \in 1..(k + 1) /\ i # k + 1
        BY <4>1
      <4>. QED BY <4>2, Zenon
    <3>3. \A i \in 1..k : h[i] = IF i = 1 THEN seqs[i] ELSE h[i - 1] \o seqs[i]
      BY <3>1
    <3>4. \A i \in 1..(k + 1) : g[i] = IF i = 1 THEN seqs[i] ELSE g[i - 1] \o seqs[i]
      <4>. HIDE DEF g
      <4>1. ASSUME NEW i \in 1..k PROVE g[i] = IF i = 1 THEN seqs[i] ELSE g[i - 1] \o seqs[i]
        <5>1. i # 1 => i - 1 \in 1..k
          BY <1>0
        <5>. QED BY <3>2, <3>3, <5>1
      <4>2. k \in 1..k /\ k + 1 # 1 /\ (k + 1) - 1 = k
        BY <1>0
      <4>3. \A i \in 1..(k + 1) : i \in 1..k \/ i = k + 1
        BY <1>0
      <4>. QED BY <3>2, <4>1, <4>2, <4>3
    <3>5. Flat(k + 1, g)
      <4>1. g = [i \in 1..(k + 1) |-> g[i]]
        OBVIOUS
      <4>. HIDE DEF g
      <4>. QED BY <3>4, <4>1
    <3>6. k + 1 \in 1..n
      BY <1>0
    <3>. HIDE DEF Flat, g
    <3>. QED BY <3>5, <3>6
  <2>3. n \in T
    <3>1. n \in 1..n
      BY <1>0, <1>2
    <3>. HIDE DEF T, n
    <3>. QED BY <1>0, <2>1, <2>2, <3>1, Upwards
  <2>4. PICK h : Flat(n, h) /\ FlattenSeq(seqs) = h[n]
    <3>1. \E h : Flat(n, h)
      BY <2>3
    <3>. QED BY <1>2, <3>1 DEF FlattenSeq
  <2>5. \A i \in 1..n : h[i] = IF i = 1 THEN seqs[i] ELSE h[i - 1] \o seqs[i]
    BY <2>4
  <2>. DEFINE Good == {i \in 1..n : h[i] \in Seq(S)}
  <2>6. 1 \in Good
    BY <1>0, <1>2, <2>5
  <2>7. ASSUME NEW i \in 1..(n - 1), i \in Good PROVE i + 1 \in Good
    <3>1. i + 1 \in 1..n /\ i + 1 # 1 /\ (i + 1) - 1 = i
      BY <1>0
    <3>2. h[i + 1] = h[i] \o seqs[i + 1]
      BY <2>5, <3>1
    <3>3. h[i] \in Seq(S) /\ seqs[i + 1] \in Seq(S)
      BY <1>0, <2>7, <3>1
    <3>. QED BY <3>1, <3>2, <3>3, ConcatProperties
  <2>8. n \in Good
    <3>1. n \in 1..n
      BY <1>0, <1>2
    <3>. HIDE DEF Good, n
    <3>. QED BY <1>0, <2>6, <2>7, <3>1, Upwards
  <2>. QED BY <2>4, <2>8
<1>. QED BY <1>1, <1>2

Candidates0 == [type : Types, name : STRING \ {"none"}, boundary : {"missing", "strong", "weak", "unknown"}, via : STRING \cup {"component", "none"}, enabled : BOOLEAN]
Results == {"confirmed", "rejected", "inconclusive", "not_exercised", "out_of_scope"}
IpcSteps == {"begin", "before", "shown", "reached", "broadcast", "done"}

\* Which candidate has its turn, and how many have their outcome.
Turns ==
  /\ manifest \in Manifests /\ step \in IpcSteps
  /\ at \in 1..(Len(IpcCandidates) + 1) /\ (step \notin {"begin", "done"} => at <= Len(IpcCandidates))
  /\ outcomes \in Seq(Results) /\ used \in [Types -> Nat]
  /\ step \in {"shown", "reached"} => Current.type = "activity"
  /\ step = "broadcast" => Current.type = "receiver"

\* Nobody was called whose turn did not come to a call.
CallsFit ==
  /\ calls \in [DOMAIN IpcCandidates -> Nat]
  /\ \A i \in DOMAIN calls :
       /\ calls[i] <= 1
       /\ i > at \/ (i = at /\ step \in {"begin", "before", "done"}) => calls[i] = 0

\* What is logged, or has come to the front since the turn began, is known.
Noticed ==
  /\ log \subseteq came
  /\ step \in {"before", "shown"} /\ Current.type = "activity" /\ front # before /\ front = Current.name => at \in came \cup blind

\* What an outcome rests on.
Founded ==
  \A i \in DOMAIN outcomes : outcomes[i] = "confirmed" =>
    /\ IpcCandidates[i].type = "activity" => i \in came \cup blind /\ (i \in backed \/ (step = "reached" /\ i = at))
    /\ IpcCandidates[i].type = "receiver" => i \in came

IpcInv == Turns /\ IpcTypeOK /\ CallsFit /\ Noticed /\ Founded

LEMMA CandidatesAreSeq ==
  ASSUME IpcAssumption, manifest \in Manifests
  PROVE  IpcCandidates \in Seq(Candidates0)
<1>. PICK cs : cs = manifest.components
  OBVIOUS
<1>1. cs \in Seq(Component)
  BY DEF IpcAssumption
<1>2. ASSUME NEW c \in Component PROVE CandidatesOf(manifest, c) \in Seq(Candidates0)
  <2>1. c.ways \in Seq(STRING) /\ c.kind \in Types /\ c.name \in STRING \ {"none"} /\ c.enabled \in BOOLEAN
    BY <1>2 DEF Component
  <2>2. ASSUME NEW via \in STRING \cup {"component", "none"} PROVE Candidate(manifest, c, via) \in Candidates0
    BY <2>1 DEF Candidate, Boundary, Candidates0
  <2>3. Candidate(manifest, c, "component") \in Candidates0 /\ Candidate(manifest, c, "none") \in Candidates0
    BY <2>2
  <2>4. [i \in DOMAIN c.ways |-> Candidate(manifest, c, c.ways[i])] \in Seq(Candidates0)
    <3>1. Len(c.ways) \in Nat /\ DOMAIN c.ways = 1..Len(c.ways) /\ \A i \in 1..Len(c.ways) : c.ways[i] \in STRING
      BY <2>1
    <3>2. \A i \in 1..Len(c.ways) : Candidate(manifest, c, c.ways[i]) \in Candidates0
      BY <2>2, <3>1
    <3>. QED BY <3>1, <3>2
  <2>. QED BY <2>3, <2>4 DEF CandidatesOf
<1>3. [i \in DOMAIN cs |-> CandidatesOf(manifest, cs[i])] \in Seq(Seq(Candidates0))
  <2>1. Len(cs) \in Nat /\ DOMAIN cs = 1..Len(cs) /\ \A i \in 1..Len(cs) : cs[i] \in Component
    BY <1>1
  <2>2. \A i \in 1..Len(cs) : CandidatesOf(manifest, cs[i]) \in Seq(Candidates0)
    BY <1>2, <2>1
  <2>. QED BY <2>1, <2>2
<1>4. FlattenSeq([i \in DOMAIN cs |-> CandidatesOf(manifest, cs[i])]) \in Seq(Candidates0)
  BY <1>3, FlattenIsSeq
<1>. QED BY <1>4 DEF IpcCandidates

\* The manifest stays, and with it the candidates.
LEMMA CandidatesStay ==
  ASSUME IpcAssumption, Turns, [IpcNext]_ipcVars
  PROVE  /\ IpcCandidates' = IpcCandidates /\ manifest' = manifest
         /\ Len(IpcCandidates) \in Nat /\ DOMAIN IpcCandidates = 1..Len(IpcCandidates)
         /\ \A i \in DOMAIN IpcCandidates : IpcCandidates[i] \in Candidates0
<1>1. manifest' = manifest
  BY DEF IpcNext, ipcVars, AppMoves, ArrivesLate, Expire, DeniedByScope, PassOver, Take, CallFails, TimesOut,
     LaunchActivity, Judge, Back, Broadcast, Listen, Query, NotAsShell, IpcEnds
<1>2. IpcCandidates' = IpcCandidates
  BY <1>1 DEF IpcCandidates
<1>3. IpcCandidates \in Seq(Candidates0)
  BY CandidatesAreSeq DEF Turns
<1>. QED BY <1>1, <1>2, <1>3

LEMMA InitIpc == ASSUME IpcAssumption, IpcInit PROVE IpcInv
<1>1. IpcCandidates \in Seq(Candidates0)
  BY CandidatesAreSeq DEF IpcInit
<1>2. Len(IpcCandidates) \in Nat /\ DOMAIN IpcCandidates = 1..Len(IpcCandidates)
  BY <1>1
<1>3. used \in [Types -> Nat] /\ \A t \in Types : used[t] = 0
  BY DEF IpcInit
<1>4. Turns
  BY <1>2, <1>3 DEF IpcInit, Turns, IpcSteps, Results
<1>5. IpcTypeOK
  BY <1>3 DEF IpcInit, IpcTypeOK, IpcAssumption, Types
<1>6. CallsFit /\ Noticed /\ Founded
  BY DEF IpcInit, CallsFit, Noticed, Founded
<1>. QED BY <1>4, <1>5, <1>6 DEF IpcInv

LEMMA TurnsStep ==
  ASSUME IpcAssumption, Turns, IpcTypeOK, [IpcNext]_ipcVars
  PROVE  Turns' /\ IpcTypeOK'
<1>. PICK c : c = IpcCandidates
  OBVIOUS
<1>0. /\ c = IpcCandidates' /\ manifest' = manifest /\ Len(c) \in Nat /\ DOMAIN c = 1..Len(c)
      /\ \A i \in 1..Len(c) : c[i] \in Candidates0
  BY CandidatesStay
<1>a. /\ manifest \in Manifests /\ step \in IpcSteps /\ at \in 1..(Len(c) + 1) /\ at \in Nat
      /\ step \notin {"begin", "done"} => at <= Len(c)
      /\ outcomes \in Seq(Results) /\ used \in [Types -> Nat] /\ Len(outcomes) \in Nat
      /\ step \in {"shown", "reached"} => c[at].type = "activity"
      /\ step = "broadcast" => c[at].type = "receiver"
  BY <1>0 DEF Turns, Current
<1>b. /\ \A t \in Types : used[t] <= TypeQuota[t]
      /\ used["activity"] + used["receiver"] + used["provider"] <= TotalQuota
      /\ Len(outcomes) = CASE step = "done" -> Len(c) [] step = "reached" -> at [] OTHER -> at - 1
  BY DEF IpcTypeOK
<1>c. \A o \in Results : Append(outcomes, o) \in Seq(Results) /\ Len(Append(outcomes, o)) = Len(outcomes) + 1
  BY <1>a
<1>. DEFINE Quotas == /\ used' \in [Types -> Nat] /\ \A t \in Types : used'[t] <= TypeQuota[t]
                      /\ used'["activity"] + used'["receiver"] + used'["provider"] <= TotalQuota
            Lengths == Len(outcomes') = CASE step' = "done" -> Len(c) [] step' = "reached" -> at' [] OTHER -> at' - 1
            Places == /\ step' \in IpcSteps /\ at' \in 1..(Len(c) + 1)
                      /\ step' \notin {"begin", "done"} => at' <= Len(c)
                      /\ outcomes' \in Seq(Results)
                      /\ step' \in {"shown", "reached"} => c[at'].type = "activity"
                      /\ step' = "broadcast" => c[at'].type = "receiver"
<1>1. UNCHANGED used => Quotas
  BY <1>a, <1>b
<1>2. UNCHANGED <<step, at, outcomes>> => Places /\ Lengths
  BY <1>a, <1>b
<1>3. ASSUME NEW o \in Results, Ends(o), step # "done", step # "reached", at <= Len(c) PROVE Places /\ Lengths
  <2>1. outcomes' = Append(outcomes, o) /\ at' = at + 1 /\ step' = "begin"
    BY <1>3 DEF Ends
  <2>2. outcomes' \in Seq(Results) /\ Len(outcomes') = Len(outcomes) + 1
    BY <1>c, <2>1
  <2>3. Places
    BY <1>0, <1>a, <1>3, <2>1, <2>2 DEF IpcSteps
  <2>4. Len(outcomes) = at - 1
    BY <1>b, <1>3
  <2>5. Lengths
    BY <1>a, <2>1, <2>2, <2>4
  <2>. QED BY <2>3, <2>5
<1>4. CASE DeniedByScope
  <2>1. outcomes' = [i \in 1..Len(c) |-> "out_of_scope"] /\ step' = "done" /\ at' = at /\ used' = used
    BY <1>0, <1>4 DEF DeniedByScope
  <2>2. outcomes' \in Seq(Results) /\ Len(outcomes') = Len(c)
    BY <1>0, <2>1 DEF Results
  <2>3. Places /\ Lengths
    BY <1>a, <2>1, <2>2 DEF IpcSteps
  <2>. QED BY <1>0, <1>1, <1>a, <2>1, <2>3 DEF Turns, IpcTypeOK, Current
<1>5. CASE Take
  <2>1. c[at] \in Candidates0 /\ step = "begin" /\ at <= Len(c)
    BY <1>0, <1>a, <1>5 DEF Take, Turn
  <2>2. c[at].type \in Types
    BY <2>1 DEF Candidates0
  <2>3. /\ used' = [used EXCEPT ![c[at].type] = @ + 1]
        /\ used[c[at].type] < TypeQuota[c[at].type]
        /\ used["activity"] + used["receiver"] + used["provider"] < TotalQuota
    <3>1. Current = c[at]
      BY DEF Current
    <3>2. used' = [used EXCEPT ![c[at].type] = @ + 1] /\ ~Exhausted
      BY <1>5, <3>1 DEF Take
    <3>3. ~(UsedAll >= TotalQuota) /\ ~(used[c[at].type] >= TypeQuota[c[at].type])
      BY <3>1, <3>2 DEF Exhausted
    <3>4. used[c[at].type] \in Nat /\ TypeQuota[c[at].type] \in Nat
      BY <1>a, <2>2 DEF IpcAssumption
    <3>5. used["activity"] \in Nat /\ used["receiver"] \in Nat /\ used["provider"] \in Nat /\ TotalQuota \in Nat
      BY <1>a DEF IpcAssumption, Types
    <3>6. used["activity"] + used["receiver"] + used["provider"] < TotalQuota
      BY <3>3, <3>5 DEF UsedAll
    <3>. QED BY <3>2, <3>3, <3>4, <3>6
  <2>4. Quotas
    <3>1. /\ used' \in [Types -> Nat]
          /\ \A t \in Types : used'[t] = IF t = c[at].type THEN used[t] + 1 ELSE used[t]
      <4>1. PICK y \in Types : y = c[at].type
        BY <2>2
      <4>2. used \in [Types -> Nat] /\ used' = [used EXCEPT ![y] = @ + 1]
        BY <1>a, <2>3, <4>1
      <4>3. used' \in [Types -> Nat] /\ \A t \in Types : used'[t] = IF t = y THEN used[t] + 1 ELSE used[t]
        BY <4>2
      <4>. QED BY <4>1, <4>3
    <3>2. \A t \in Types : used[t] \in Nat /\ TypeQuota[t] \in Nat /\ TotalQuota \in Nat
      BY <1>a DEF IpcAssumption
    <3>3. \A t \in Types : used'[t] <= TypeQuota[t]
      BY <1>b, <2>2, <2>3, <3>1, <3>2
    <3>4. used'["activity"] + used'["receiver"] + used'["provider"]
            = used["activity"] + used["receiver"] + used["provider"] + 1
      <4>1. PICK x \in Nat, y \in Nat, z \in Nat :
              x = used["activity"] /\ y = used["receiver"] /\ z = used["provider"]
        BY <3>2 DEF Types
      <4>2. /\ used'["activity"] = IF c[at].type = "activity" THEN x + 1 ELSE x
            /\ used'["receiver"] = IF c[at].type = "receiver" THEN y + 1 ELSE y
            /\ used'["provider"] = IF c[at].type = "provider" THEN z + 1 ELSE z
        BY <3>1, <4>1 DEF Types
      <4>3. \/ used'["activity"] = x + 1 /\ used'["receiver"] = y /\ used'["provider"] = z
            \/ used'["activity"] = x /\ used'["receiver"] = y + 1 /\ used'["provider"] = z
            \/ used'["activity"] = x /\ used'["receiver"] = y /\ used'["provider"] = z + 1
        BY <2>2, <4>2 DEF Types
      <4>4. used["activity"] + used["receiver"] + used["provider"] = (x + y) + z
        BY <4>1
      <4>5. used'["activity"] + used'["receiver"] + used'["provider"] = (x + y) + z + 1
        <5>. PICK u, v, w : u = used'["activity"] /\ v = used'["receiver"] /\ w = used'["provider"]
          OBVIOUS
        <5>1. (u + v) + w = (x + y) + z + 1
          BY <4>3
        <5>. QED BY <5>1
      <4>. QED BY <4>4, <4>5
    <3>5. used["activity"] + used["receiver"] + used["provider"] \in Nat
      BY <3>2 DEF Types
    <3>6. used'["activity"] + used'["receiver"] + used'["provider"] <= TotalQuota
      BY <2>3, <3>2, <3>4, <3>5
    <3>. QED BY <3>1, <3>3, <3>6
  <2>5. Places /\ Lengths
    <3>1. CASE Ends("not_exercised")
      BY <1>3, <2>1, <3>1 DEF Results
    <3>2. CASE step' = "before" /\ UNCHANGED <<at, outcomes>>
      BY <1>a, <1>b, <2>1, <3>2 DEF IpcSteps
    <3>. QED BY <1>5, <3>1, <3>2 DEF Take
  <2>. QED BY <1>0, <1>a, <2>4, <2>5 DEF Turns, IpcTypeOK, Current
<1>6. ASSUME UNCHANGED used, Places, Lengths PROVE Turns' /\ IpcTypeOK'
  BY <1>0, <1>1, <1>a, <1>6 DEF Turns, IpcTypeOK, Current
<1>7. CASE PassOver \/ CallFails \/ TimesOut \/ Listen \/ Query \/ NotAsShell
  <2>1. step # "done" /\ step # "reached" /\ at <= Len(c) /\ UNCHANGED used
    BY <1>a, <1>7 DEF PassOver, CallFails, TimesOut, Listen, Query, NotAsShell, Turn, Prepared
  <2>2. \E o \in Results : Ends(o)
    BY <1>7 DEF PassOver, CallFails, TimesOut, Listen, Query, NotAsShell, Results
  <2>. QED BY <1>3, <1>6, <2>1, <2>2
<1>8. CASE Judge
  <2>1. step = "shown" /\ at <= Len(c) /\ c[at].type = "activity" /\ UNCHANGED used
    BY <1>a, <1>8 DEF Judge
  <2>2. \A seen, pid : ActivityOutcome(Current, seen, pid) \in Results
    BY DEF ActivityOutcome, Results
  <2>3. CASE \E o \in Results : Ends(o)
    BY <1>3, <1>6, <2>1, <2>3
  <2>4. CASE \E o \in Results : step' = "reached" /\ outcomes' = Append(outcomes, o) /\ at' = at
    <3>1. Places /\ Lengths
      BY <1>a, <1>b, <1>c, <2>1, <2>4 DEF IpcSteps
    <3>. QED BY <1>6, <2>1, <3>1
  <2>. QED BY <1>8, <2>2, <2>3, <2>4 DEF Judge, Results
<1>9. CASE Back
  <2>1. step = "reached" /\ step' = "begin" /\ at' = at + 1 /\ at <= Len(c) /\ UNCHANGED used
    BY <1>a, <1>9 DEF Back
  <2>2. outcomes' \in Seq(Results) /\ Len(outcomes') = Len(outcomes)
    <3>1. CASE outcomes' = outcomes
      BY <1>a, <3>1
    <3>2. CASE outcomes' = [outcomes EXCEPT ![at] = IF @ = "confirmed" THEN "inconclusive" ELSE @]
      <4>1. at \in 1..Len(outcomes)
        BY <1>a, <1>b, <2>1
      <4>2. outcomes[at] \in Results
        BY <1>a, <4>1
      <4>3. PICK e \in Results : outcomes' = [outcomes EXCEPT ![at] = e]
        BY <3>2, <4>2 DEF Results
      <4>. QED BY <1>a, <4>1, <4>3, ExceptSeq
    <3>. QED BY <1>9, <3>1, <3>2 DEF Back
  <2>3. Places
    BY <1>a, <2>1, <2>2 DEF IpcSteps
  <2>4. Len(outcomes) = at
    BY <1>b, <2>1
  <2>5. Lengths
    BY <2>1, <2>2, <2>4, <1>a
  <2>. QED BY <1>6, <2>1, <2>3, <2>5
<1>10. CASE AppMoves \/ ArrivesLate \/ Expire \/ UNCHANGED ipcVars
  <2>1. UNCHANGED <<step, at, outcomes, used>>
    BY <1>10 DEF AppMoves, ArrivesLate, Expire, ipcVars
  <2>. QED BY <1>2, <1>6, <2>1
<1>11. CASE LaunchActivity \/ Broadcast \/ IpcEnds
  <2>1. Places /\ Lengths /\ UNCHANGED used
    BY <1>a, <1>b, <1>11 DEF LaunchActivity, Broadcast, IpcEnds, Prepared, IpcSteps, Current
  <2>. QED BY <1>6, <2>1
<1>. QED BY <1>4, <1>5, <1>7, <1>8, <1>9, <1>10, <1>11 DEF IpcNext

LEMMA CallsStep ==
  ASSUME IpcAssumption, Turns, Turns', CallsFit, [IpcNext]_ipcVars
  PROVE  CallsFit'
<1>. PICK c : c = IpcCandidates
  OBVIOUS
<1>0. /\ c = IpcCandidates' /\ Len(c) \in Nat /\ DOMAIN c = 1..Len(c)
      /\ at \in 1..(Len(c) + 1) /\ at \in Nat /\ (step \notin {"begin", "done"} => at <= Len(c))
      /\ calls \in [1..Len(c) -> Nat]
      /\ \A i \in 1..Len(c) : /\ calls[i] <= 1
                              /\ i > at \/ (i = at /\ step \in {"begin", "before", "done"}) => calls[i] = 0
  BY CandidatesStay DEF Turns, CallsFit
<1>1. ASSUME UNCHANGED calls, at' = at, step' \in {"begin", "before", "done"} => step \in {"begin", "before", "done"}
      PROVE  CallsFit'
  BY <1>0, <1>1 DEF CallsFit
<1>2. ASSUME UNCHANGED calls, at' = at + 1 PROVE CallsFit'
  BY <1>0, <1>2 DEF CallsFit
<1>3. ASSUME Call, step = "before", at' = at + 1 \/ (at' = at /\ step' \in {"shown", "broadcast"}) PROVE CallsFit'
  <2>0. at \in 1..Len(c) /\ calls[at] = 0
    BY <1>0, <1>3
  <2>1. calls' = [calls EXCEPT ![at] = 1]
    BY <1>3, <2>0 DEF Call
  <2>2. calls' \in [1..Len(c) -> Nat] /\ \A i \in 1..Len(c) : calls'[i] = IF i = at THEN 1 ELSE calls[i]
    BY <1>0, <2>0, <2>1
  <2>. QED BY <1>0, <1>3, <2>2 DEF CallsFit
<1>4. CASE UNCHANGED ipcVars
  BY <1>1, <1>4 DEF ipcVars
<1>5. CASE CallFails \/ TimesOut \/ LaunchActivity \/ Broadcast \/ Query
  BY <1>3, <1>5 DEF CallFails, TimesOut, LaunchActivity, Broadcast, Query, Ends, Prepared
<1>6. CASE AppMoves \/ ArrivesLate \/ Expire \/ DeniedByScope \/ PassOver \/ Take \/ Judge \/ Back \/ Listen \/ NotAsShell \/ IpcEnds
  BY <1>1, <1>2, <1>6 DEF AppMoves, ArrivesLate, Expire, DeniedByScope, PassOver, Take, Judge, Back, Listen,
     NotAsShell, IpcEnds, Ends, Turn, Prepared, historyVars
<1>. QED BY <1>4, <1>5, <1>6 DEF IpcNext

\* What came to the front stays known.
LEMMA NoticedStep ==
  ASSUME IpcAssumption, Turns, Turns', Noticed, [IpcNext]_ipcVars
  PROVE  Noticed' /\ came \subseteq came' /\ blind \subseteq blind'
<1>. PICK c : c = IpcCandidates
  OBVIOUS
<1>0. /\ c = IpcCandidates' /\ Len(c) \in Nat /\ DOMAIN c = 1..Len(c)
      /\ at \in 1..(Len(c) + 1) /\ at \in Nat /\ (step \notin {"begin", "done"} => at <= Len(c))
      /\ log \subseteq came
      /\ step \in {"before", "shown"} /\ c[at].type = "activity" /\ front # before /\ front = c[at].name => at \in came \cup blind
  BY CandidatesStay DEF Turns, Noticed, Current
<1>1. ASSUME NEW name, InFront(name), UNCHANGED <<at, before, blind>>, step' = step \/ (step = "before" /\ step' = "shown"),
             log' \subseteq log
      PROVE  Noticed' /\ came \subseteq came' /\ blind \subseteq blind'
  <2>1. came' = came \cup {i \in 1..Len(c) : i = at /\ step # "begin" /\ c[at].name = name} /\ front' = name
    BY <1>0, <1>1 DEF InFront, Current
  <2>2. step' \in {"before", "shown"} => step # "begin" /\ at \in 1..Len(c)
    BY <1>0, <1>1
  <2>. QED BY <1>0, <1>1, <2>1, <2>2 DEF Noticed, Current
<1>2. ASSUME UNCHANGED <<front, at, before, blind>>, came \subseteq came', log' \subseteq came',
             step' \in {"before", "shown"} => step \in {"before", "shown"}
      PROVE  Noticed' /\ came \subseteq came' /\ blind \subseteq blind'
  BY <1>0, <1>2 DEF Noticed, Current
<1>3. ASSUME UNCHANGED <<came, log>>, blind \subseteq blind',
             step' \notin {"before", "shown"} \/ c[at'].type # "activity" \/ before' = front' \/ at' \in blind'
      PROVE  Noticed' /\ came \subseteq came' /\ blind \subseteq blind'
  BY <1>0, <1>3 DEF Noticed, Current
<1>4. CASE AppMoves
  BY <1>0, <1>1, <1>2, <1>4 DEF AppMoves, historyVars
<1>5. CASE ArrivesLate
  <2>1. PICK i \in overdue :
          IF IpcCandidates[i].type = "activity" THEN InFront(IpcCandidates[i].name) /\ UNCHANGED <<process, log>>
          ELSE process' = TRUE /\ log' = log \cup {i} /\ came' = came \cup {i} /\ UNCHANGED front
    BY <1>5 DEF ArrivesLate, historyVars
  <2>2. UNCHANGED <<at, step, before, blind>>
    BY <1>5 DEF ArrivesLate, historyVars
  <2>3. CASE IpcCandidates[i].type = "activity"
    BY <1>1, <2>1, <2>2, <2>3
  <2>4. CASE IpcCandidates[i].type # "activity"
    BY <1>0, <1>2, <2>1, <2>2, <2>4
  <2>. QED BY <2>3, <2>4
<1>6. CASE LaunchActivity
  BY <1>0, <1>1, <1>2, <1>6 DEF LaunchActivity, Prepared
<1>7. CASE Broadcast
  BY <1>0, <1>2, <1>7 DEF Broadcast, Prepared
<1>8. CASE Expire \/ DeniedByScope \/ PassOver \/ CallFails \/ TimesOut \/ Judge \/ Listen \/ Query \/ NotAsShell \/ IpcEnds
  <2>1. UNCHANGED <<came, log, blind>> /\ (step' \in {"before", "shown"} => UNCHANGED <<front, at, before, step>>)
    BY <1>8 DEF Expire, DeniedByScope, PassOver, CallFails, TimesOut, Judge, Listen, Query, NotAsShell, IpcEnds, Ends, deviceVars, historyVars
  <2>. QED BY <1>0, <1>2, <1>3, <2>1
<1>9. CASE Take
  <2>1. UNCHANGED <<came, log, front>> /\ Current = c[at]
    BY <1>9 DEF Take, deviceVars, Current
  <2>2. CASE step' = "begin" /\ UNCHANGED blind
    BY <1>3, <2>1, <2>2
  <2>3. CASE /\ at' = at /\ before' \in IF Current.type = "activity" THEN FrontSeen ELSE {before}
             /\ blind' = IF Current.type = "activity" /\ before' = "none" THEN blind \cup {at} ELSE blind
    <3>1. blind \subseteq blind' /\ (c[at].type # "activity" \/ before' = front \/ at \in blind')
      BY <2>1, <2>3 DEF FrontSeen
    <3>. QED BY <1>3, <2>1, <2>3, <3>1
  <2>. QED BY <1>9, <2>2, <2>3 DEF Take, Ends
<1>10. CASE Back
  BY <1>3, <1>10 DEF Back
<1>11. CASE UNCHANGED ipcVars
  BY <1>0, <1>2, <1>11 DEF ipcVars
<1>. QED BY <1>4, <1>5, <1>6, <1>7, <1>8, <1>9, <1>10, <1>11 DEF IpcNext

LEMMA FoundedStep ==
  ASSUME IpcAssumption, Turns, Turns', IpcTypeOK, Noticed, Founded, came \subseteq came', blind \subseteq blind', [IpcNext]_ipcVars
  PROVE  Founded'
<1>. PICK c : c = IpcCandidates
  OBVIOUS
<1>0. /\ c = IpcCandidates' /\ Len(c) \in Nat /\ DOMAIN c = 1..Len(c)
      /\ at \in Nat /\ outcomes \in Seq(Results) /\ Len(outcomes) \in Nat /\ DOMAIN outcomes = 1..Len(outcomes)
      /\ step \notin {"done", "reached"} => Len(outcomes) = at - 1
      /\ step = "reached" => Len(outcomes) = at
      /\ \A i \in DOMAIN outcomes : outcomes[i] = "confirmed" =>
           /\ c[i].type = "activity" => i \in came \cup blind /\ (i \in backed \/ (step = "reached" /\ i = at))
           /\ c[i].type = "receiver" => i \in came
  BY CandidatesStay DEF Turns, IpcTypeOK, Founded
<1>1. ASSUME UNCHANGED <<outcomes, step, at, backed>> PROVE Founded'
  BY <1>0, <1>1 DEF Founded
<1>2. ASSUME UNCHANGED <<outcomes, backed>>, step # "reached" PROVE Founded'
  BY <1>0, <1>2 DEF Founded
<1>3. ASSUME NEW o \in Results, outcomes' = Append(outcomes, o), step \notin {"done", "reached"}, UNCHANGED backed,
             o = "confirmed" => \/ c[at].type \notin {"activity", "receiver"}
                                \/ c[at].type = "receiver" /\ at \in came
                                \/ c[at].type = "activity" /\ at \in came \cup blind /\ step' = "reached" /\ at' = at
      PROVE  Founded'
  <2>0. Len(outcomes) = at - 1 /\ Len(outcomes) + 1 = at
    <3>1. step # "done" /\ step # "reached"
      BY <1>3
    <3>2. at \in Nat /\ Len(outcomes) = at - 1
      BY <1>0, <3>1
    <3>. QED BY <3>2
  <2>1. /\ DOMAIN outcomes' = 1..(Len(outcomes) + 1) /\ outcomes'[at] = o
        /\ \A i \in 1..Len(outcomes) : outcomes'[i] = outcomes[i]
    <3>0. outcomes \in Seq(Results)
      BY <1>0
    <3>1. Append(outcomes, o) \in Seq(Results) /\ Len(Append(outcomes, o)) = Len(outcomes) + 1
      BY <3>0, AppendProperties
    <3>2. /\ Append(outcomes, o)[Len(outcomes) + 1] = o
          /\ \A i \in 1..Len(outcomes) : Append(outcomes, o)[i] = outcomes[i]
      BY <3>0, AppendProperties
    <3>3. DOMAIN Append(outcomes, o) = 1..(Len(outcomes) + 1)
      BY <3>1
    <3>4. outcomes' = Append(outcomes, o)
      BY <1>3
    <3>. QED BY <2>0, <3>2, <3>3, <3>4, Zenon
  <2>2. \A i \in DOMAIN outcomes' : i \in 1..Len(outcomes) \/ i = at
    BY <1>0, <2>0, <2>1
  <2>. QED BY <1>0, <1>3, <2>1, <2>2 DEF Founded
<1>4. CASE AppMoves \/ ArrivesLate \/ Expire \/ UNCHANGED ipcVars
  BY <1>1, <1>4 DEF AppMoves, ArrivesLate, Expire, ipcVars, historyVars
<1>5. CASE DeniedByScope
  BY <1>5 DEF DeniedByScope, Founded, historyVars
<1>6. CASE Take \/ LaunchActivity \/ Broadcast \/ IpcEnds
  <2>1. step # "reached" /\ UNCHANGED backed
    BY <1>6 DEF Take, LaunchActivity, Broadcast, IpcEnds, Prepared, Turn, historyVars
  <2>2. UNCHANGED outcomes \/ (outcomes' = Append(outcomes, "not_exercised") /\ step # "done")
    BY <1>6 DEF Take, LaunchActivity, Broadcast, IpcEnds, Ends, Turn
  <2>. QED BY <1>2, <1>3, <2>1, <2>2 DEF Results
<1>7. CASE PassOver \/ CallFails \/ TimesOut \/ NotAsShell
  <2>1. step \notin {"done", "reached"} /\ UNCHANGED backed
    BY <1>7 DEF PassOver, CallFails, TimesOut, NotAsShell, Prepared, Turn, historyVars
  <2>2. \E o \in {"not_exercised", "inconclusive", "rejected"} : outcomes' = Append(outcomes, o)
    BY <1>7 DEF PassOver, CallFails, TimesOut, NotAsShell, Ends
  <2>. QED BY <1>3, <2>1, <2>2 DEF Results
<1>8. CASE Query
  <2>1. step = "before" /\ UNCHANGED backed /\ c[at].type = "provider"
    BY <1>8 DEF Query, Prepared, Current
  <2>2. \E o \in Results : outcomes' = Append(outcomes, o)
    BY <1>8 DEF Query, Ends, Results
  <2>. QED BY <1>3, <2>1, <2>2
<1>9. CASE Listen
  <2>1. step = "broadcast" /\ UNCHANGED backed /\ c[at].type = "receiver"
    BY <1>9 DEF Listen, Turns, Current, historyVars
  <2>2. PICK o \in Results : outcomes' = Append(outcomes, o) /\ (o = "confirmed" => at \in log)
    BY <1>9 DEF Listen, Ends, Heard, Results
  <2>. QED BY <1>3, <2>1, <2>2 DEF Noticed
<1>10. CASE Judge
  <2>1. step = "shown" /\ UNCHANGED backed /\ c[at].type = "activity"
    BY <1>10 DEF Judge, Turns, Current, historyVars
  <2>p. PICK seen \in FrontSeen, pid \in {process, FALSE} :
          IF seen = "elsewhere" THEN Ends("out_of_scope")
          ELSE IF seen = Current.name THEN step' = "reached" /\ outcomes' = Append(outcomes, ActivityOutcome(Current, seen, pid)) /\ at' = at
          ELSE Ends(ActivityOutcome(Current, seen, pid))
    BY <1>10 DEF Judge
  <2>2. ActivityOutcome(Current, seen, pid) \in Results
        /\ (ActivityOutcome(Current, seen, pid) = "confirmed" => seen = c[at].name /\ before # c[at].name)
    BY DEF ActivityOutcome, Current, Results
  <2>3. PICK o \in Results :
                 /\ outcomes' = Append(outcomes, o)
                 /\ o = "confirmed" => seen = c[at].name /\ before # c[at].name /\ step' = "reached" /\ at' = at
    BY <2>p, <2>2 DEF Ends, Current, Results
  <2>4. o = "confirmed" => at \in came \cup blind
    <3>0. at \in DOMAIN c
      <4>1. step \notin {"begin", "done"}
        BY <2>1
      <4>2. at \in 1..(Len(c) + 1) /\ at <= Len(c)
        BY <4>1 DEF Turns
      <4>3. PICK n \in Nat : n = Len(c) /\ DOMAIN c = 1..n
        BY <1>0
      <4>4. at \in 1..(n + 1) /\ at <= n
        BY <4>2, <4>3
      <4>5. at \in 1..n
        BY <4>4
      <4>. QED BY <4>3, <4>5
    <3>1. c[at].name # "none"
      <4>1. c[at] \in Candidates0
        BY <3>0, CandidatesStay
      <4>. QED BY <4>1 DEF Candidates0
    <3>2. o = "confirmed" => front = c[at].name /\ before # c[at].name
      BY <2>3, <3>1 DEF FrontSeen
    <3>. QED BY <2>1, <3>2 DEF Noticed, Current
  <2>. QED BY <1>3, <2>1, <2>3, <2>4
<1>11. CASE Back
  <2>1. step = "reached" /\ came' = came
    BY <1>11 DEF Back
  <2>2. CASE backed' = backed \cup {at} /\ UNCHANGED outcomes
    BY <1>0, <2>1, <2>2 DEF Founded
  <2>3. CASE outcomes' = [outcomes EXCEPT ![at] = IF @ = "confirmed" THEN "inconclusive" ELSE @] /\ UNCHANGED backed
    <3>1. /\ DOMAIN outcomes' = DOMAIN outcomes /\ (at \in DOMAIN outcomes => outcomes'[at] # "confirmed")
          /\ \A i \in DOMAIN outcomes \ {at} : outcomes'[i] = outcomes[i]
      BY <1>0, <2>3
    <3>. QED BY <1>0, <2>1, <2>3, <3>1 DEF Founded
  <2>. QED BY <1>11, <2>2, <2>3 DEF Back
<1>. QED BY <1>4, <1>5, <1>6, <1>7, <1>8, <1>9, <1>10, <1>11 DEF IpcNext

\* A component is called once, and its route is confirmed only by what this call did:
\* an activity came to the front after the call was prepared, unless it was not known
\* what was in front when it was prepared, and was left again; and a receiver logged
\* its own canary, however calls time out, arrive late, and overlap.
THEOREM CallsAreConfirmed == ASSUME IpcAssumption PROVE IpcSpec => []CallsConfirmed
<1>1. IpcInit => IpcInv
  BY InitIpc
<1>2. IpcInv /\ [IpcNext]_ipcVars => IpcInv'
  BY TurnsStep, CallsStep, NoticedStep, FoundedStep DEF IpcInv
<1>3. IpcInv => CallsConfirmed
  BY DEF IpcInv, CallsConfirmed, CallsFit, Founded, CalledOnce, ShownSinceCall, ConfirmedWasLeft, OwnAnswer, Confirmed
<1>. QED BY <1>1, <1>2, <1>3, PTL DEF IpcSpec

(***************************************************************************)
(*                         Events and their steps                          *)
(***************************************************************************)

StepWindows == [step : 1..LastStep, start : Nat, end : Nat, completed : BOOLEAN, pid : Nat]
Observed == [observer : {"frida", "traffic", "logcat"}, pid : Pids, time : Nat, owned : BOOLEAN, in : 0..Sink]
EventPids == {e.pid : e \in events}
Over == status \in {"ended", "correlated"}

CorrelationTypes ==
  /\ time \in Nat /\ since \in Nat /\ endedAt \in Nat /\ running \in 0..LastStep
  /\ windows \subseteq StepWindows /\ IsFiniteSet(windows)
  /\ verified \subseteq Pids /\ IsFiniteSet(verified) /\ appPid \in Pids /\ seenPid \in verified \cup {0}
  /\ \A w \in windows : w.pid \in verified \cup {0}
  /\ events \subseteq Observed /\ IsFiniteSet(EventPids)
  /\ status \in {"running", "failed", "ended", "correlated"}

\* One step runs after the other.
Chronology ==
  /\ \A w \in windows : w.start <= w.end /\ w.end <= time
  /\ \A v, w \in windows : v.step = w.step => v = w
  /\ \A v, w \in windows : v.step # w.step => v.end <= w.start \/ w.end <= v.start
  /\ since <= time
  /\ running # 0 => \A w \in windows : w.step # running /\ w.end <= since
  /\ Over => running = 0 /\ endedAt <= time /\ \A w \in windows : w.end <= endedAt

\* An event has happened in its step, and in no other but at its edges.
Placed ==
  \A e \in events :
    /\ e.time <= time /\ (e.observer = "logcat" => e.in = Sink)
    /\ e.in \in 1..LastStep => (e.in = running /\ since <= e.time) \/ \E w \in windows : w.step = e.in
    /\ e.in = Sink => Over /\ endedAt <= e.time
    /\ e.in # Sink /\ Over => e.time <= endedAt
    /\ running # 0 /\ e.in # running => e.time <= since
    /\ \A w \in windows : IF w.step = e.in THEN w.start <= e.time /\ e.time <= w.end
                                           ELSE e.time <= w.start \/ w.end <= e.time

\* Nothing is accepted before the correlation, and a scenario that failed has a
\* step that did.
Pending ==
  /\ status = "failed" => \E w \in windows : ~w.completed
  /\ status # "correlated" => accepted = {}

CorrelationInv == CorrelationTypes /\ Chronology /\ Placed /\ Pending /\ EventsPlaced

\* Where nothing was accepted there is nothing to place, nor anything lost.
LEMMA NothingAccepted ==
  ASSUME accepted = {}, \A v, w \in windows : v.step = w.step => v = w,
         status = "correlated" => verified = {} \/ \E w \in windows : ~w.completed
  PROVE  EventsPlaced
  BY DEF EventsPlaced, CorrelationTypeOK, HappenedInStep, NoGuessing, OwnProcess, LostOnlyAtSeams

LEMMA InitCorrelation == ASSUME CorrelationAssumption, CorrelationInit PROVE CorrelationInv
<1>1. CorrelationTypes
  <2>1. EventPids = {}
    BY DEF CorrelationInit, EventPids
  <2>. QED BY <2>1, FS_EmptySet DEF CorrelationInit, CorrelationTypes, CorrelationAssumption
<1>. QED BY <1>1, NothingAccepted DEF CorrelationInit, CorrelationInv, Chronology, Placed, Pending, Over

LEMMA CorrelationTypesStep ==
  ASSUME CorrelationAssumption, CorrelationInv, [CorrelationNext]_correlationVars
  PROVE  CorrelationTypes'
<1>. /\ CorrelationTypes /\ LastStep \in Nat \ {0} /\ Pids \subseteq Nat \ {0} /\ 0 \in 0..LastStep
     /\ Sink \in 0..Sink /\ \A s \in 0..LastStep : s \in 0..Sink
  BY DEF CorrelationInv, CorrelationAssumption, Sink
<1>1. CASE Tick
  BY <1>1 DEF Tick, CorrelationTypes, EventPids
<1>2. CASE Restart
  BY <1>2 DEF Restart, CorrelationTypes, EventPids
<1>3. CASE BeginStep
  <2>1. NextStep \in Nat \ {0}
    BY FS_Subset, FS_CardinalityType DEF NextStep, CorrelationTypes
  <2>. QED BY <1>3, <2>1 DEF BeginStep, CorrelationTypes, EventPids
<1>4. CASE ObserveApp
  <2>1. IsFiniteSet(verified')
    BY <1>4, FS_AddElement, FS_RemoveElement, FS_EmptySet, FS_Union, FS_Singleton, FS_Subset DEF ObserveApp, CorrelationTypes
  <2>. QED BY <1>4, <2>1 DEF ObserveApp, CorrelationTypes, EventPids
<1>5. CASE EndStep
  <2>1. PICK completed \in BOOLEAN : windows' = windows \cup {Window(running, since, time, completed, seenPid)}
    BY <1>5 DEF EndStep
  <2>2. IsFiniteSet(windows')
    BY <2>1, FS_AddElement DEF CorrelationTypes
  <2>3. seenPid \in Nat /\ running \in 1..LastStep
    BY <1>5 DEF CorrelationTypes, EndStep
  <2>4. Window(running, since, time, completed, seenPid) \in StepWindows
    BY <2>3 DEF Window, StepWindows, CorrelationTypes
  <2>. QED BY <1>5, <2>1, <2>2, <2>4 DEF EndStep, CorrelationTypes, EventPids, Window
<1>6. CASE EndScenario
  BY <1>6 DEF EndScenario, CorrelationTypes, EventPids
<1>7. CASE Happens
  <2>1. PICK e \in Observed : events' = events \cup {e}
    BY <1>7 DEF Happens, Observed, CorrelationTypes
  <2>2. EventPids' = EventPids \cup {e.pid}
    BY <2>1 DEF EventPids
  <2>. QED BY <1>7, <2>1, <2>2, FS_AddElement DEF Happens, CorrelationTypes
<1>8. CASE CorrelateEvents
  BY <1>8 DEF CorrelateEvents, CorrelationTypes, EventPids
<1>9. CASE UNCHANGED correlationVars
  BY <1>9 DEF correlationVars, CorrelationTypes, EventPids
<1>. QED BY <1>1, <1>2, <1>3, <1>4, <1>5, <1>6, <1>7, <1>8, <1>9 DEF CorrelationNext

LEMMA ChronologyStep ==
  ASSUME CorrelationAssumption, CorrelationInv, [CorrelationNext]_correlationVars
  PROVE  Chronology'
<1>. CorrelationTypes /\ Chronology /\ LastStep \in Nat \ {0}
  BY DEF CorrelationInv, CorrelationAssumption
<1>w. \A w \in windows : w.start \in Nat /\ w.end \in Nat /\ w.step \in 1..LastStep
  BY DEF CorrelationTypes, StepWindows
<1>1. CASE Tick
  BY <1>1, <1>w DEF Tick, CorrelationTypes, Chronology, Over
<1>2. CASE Restart \/ ObserveApp
  BY <1>2 DEF Restart, ObserveApp, Chronology, Over
<1>3. CASE BeginStep
  BY <1>3, <1>w DEF BeginStep, CorrelationTypes, Chronology, Over
<1>4. CASE EndStep
  <2>1. PICK completed \in BOOLEAN : windows' = windows \cup {Window(running, since, time, completed, seenPid)}
    BY <1>4 DEF EndStep
  <2>2. ~Over' /\ running' = 0 /\ UNCHANGED <<time, since>>
    BY <1>4 DEF EndStep, Over, Chronology
  <2>3. \A w \in windows : w.step # running /\ w.end <= since
    BY <1>4 DEF EndStep, Chronology
  <2>. QED BY <1>w, <2>1, <2>2, <2>3 DEF Window, CorrelationTypes, Chronology
<1>5. CASE EndScenario
  BY <1>5, <1>w DEF EndScenario, CorrelationTypes, Chronology, Over
<1>6. CASE Happens \/ CorrelateEvents
  BY <1>6 DEF Happens, CorrelateEvents, Chronology, Over
<1>7. CASE UNCHANGED correlationVars
  BY <1>7 DEF correlationVars, Chronology, Over
<1>. QED BY <1>1, <1>2, <1>3, <1>4, <1>5, <1>6, <1>7 DEF CorrelationNext

LEMMA PlacedStep ==
  ASSUME CorrelationAssumption, CorrelationInv, [CorrelationNext]_correlationVars
  PROVE  Placed'
<1>. CorrelationTypes /\ Chronology /\ Placed /\ LastStep \in Nat \ {0}
  BY DEF CorrelationInv, CorrelationAssumption
<1>w. \A w \in windows : w.start \in Nat /\ w.end \in Nat /\ w.step \in 1..LastStep
  BY DEF CorrelationTypes, StepWindows
<1>e. \A e \in events : e.time \in Nat /\ e.in \in 0..Sink
  BY DEF CorrelationTypes, Observed
<1>1. CASE Tick
  BY <1>1, <1>w, <1>e DEF Tick, CorrelationTypes, Placed, Over
<1>2. CASE Restart \/ ObserveApp
  BY <1>2 DEF Restart, ObserveApp, Placed, Over
<1>3. CASE BeginStep
  <2>1. /\ UNCHANGED <<time, windows, events, status, endedAt>> /\ since' = time /\ running = 0
        /\ \A w \in windows : w.step # running' 
    BY <1>3 DEF BeginStep
  <2>. QED BY <1>w, <1>e, <2>1 DEF CorrelationTypes, Placed, Over
<1>4. CASE EndStep
  <2>1. PICK n : windows' = windows \cup {n} /\ n.step = running /\ n.start = since /\ n.end = time
    <3>1. PICK completed \in BOOLEAN : windows' = windows \cup {Window(running, since, time, completed, seenPid)}
      BY <1>4 DEF EndStep
    <3>. DEFINE n == Window(running, since, time, completed, seenPid)
    <3>2. n.step = running /\ n.start = since /\ n.end = time
      BY DEF Window
    <3>3. windows' = windows \cup {n}
      BY <3>1
    <3>. HIDE DEF n
    <3>. QED BY <3>2, <3>3
  <2>2. /\ ~Over' /\ ~Over /\ running' = 0 /\ UNCHANGED <<time, since, events, endedAt>> /\ running # 0
    BY <1>4 DEF EndStep, Over, Chronology
  <2>3. ASSUME NEW e \in events
        PROVE  IF n.step = e.in THEN n.start <= e.time /\ e.time <= n.end ELSE e.time <= n.start \/ n.end <= e.time
    <3>1. \A w \in windows : w.step # running
      BY <2>2 DEF Chronology
    <3>. QED BY <1>e, <2>1, <2>2, <3>1 DEF Placed, CorrelationTypes, Sink
  <2>. SUFFICES ASSUME NEW e \in events
       PROVE /\ e.time <= time /\ (e.observer = "logcat" => e.in = Sink)
             /\ e.in \in 1..LastStep => \E w \in windows' : w.step = e.in
             /\ e.in # Sink
             /\ \A w \in windows' : IF w.step = e.in THEN w.start <= e.time /\ e.time <= w.end
                                                     ELSE e.time <= w.start \/ w.end <= e.time
    BY <2>2 DEF Placed
  <2>4. e.in # Sink
    BY <2>2 DEF Placed
  <2>. QED BY <2>1, <2>3, <2>4 DEF Placed
<1>5. CASE EndScenario
  BY <1>5, <1>w, <1>e DEF EndScenario, CorrelationTypes, Placed, Over
<1>6. CASE Happens
  <2>1. PICK e \in Observed :
          /\ events' = events \cup {e} /\ e.time = time /\ (e.observer = "logcat" => status = "ended")
          /\ e.in = IF status = "ended" THEN Sink ELSE running
    <3>1. PICK observer \in {"frida", "traffic", "logcat"}, owned \in BOOLEAN :
            /\ observer = "logcat" => status = "ended"
            /\ events' = events \cup {[observer |-> observer, pid |-> appPid, time |-> time, owned |-> owned,
                                       in |-> IF status = "ended" THEN Sink ELSE running]}
      BY <1>6 DEF Happens
    <3>2. (IF status = "ended" THEN Sink ELSE running) \in 0..Sink
      BY DEF CorrelationTypes, Sink
    <3>. DEFINE e == [observer |-> observer, pid |-> appPid, time |-> time, owned |-> owned,
                      in |-> IF status = "ended" THEN Sink ELSE running]
    <3>3. e \in Observed
      BY <3>2 DEF Observed, CorrelationTypes
    <3>4. /\ e.time = time /\ (e.observer = "logcat" => status = "ended")
          /\ e.in = IF status = "ended" THEN Sink ELSE running
      BY <3>1
    <3>5. events' = events \cup {e}
      BY <3>1
    <3>. HIDE DEF e
    <3>. QED BY <3>3, <3>4, <3>5
  <2>2. UNCHANGED <<time, windows, running, since, status, endedAt>> /\ status # "correlated"
    BY <1>6 DEF Happens
  <2>. QED BY <1>w, <1>e, <2>1, <2>2 DEF CorrelationTypes, Placed, Chronology, Over, Sink
<1>7. CASE CorrelateEvents
  BY <1>7 DEF CorrelateEvents, Placed, Over
<1>8. CASE UNCHANGED correlationVars
  BY <1>8 DEF correlationVars, Placed, Over
<1>. QED BY <1>1, <1>2, <1>3, <1>4, <1>5, <1>6, <1>7, <1>8 DEF CorrelationNext

\* What the correlation of an event comes to: one window holds it, and it was
\* accepted there.
LEMMA ResolvedIs ==
  ASSUME NEW steps, IsFiniteSet(steps), NEW e, NEW w
  PROVE  w \in Resolved(steps, e) <=> {v \in steps : Claims(v, e) /\ Holds(v, e)} = {w}
<1>. DEFINE fitting == {v \in steps : Claims(v, e) /\ Holds(v, e)}
<1>1. IsFiniteSet(fitting)
  BY FS_Subset
<1>2. Cardinality(fitting) = 1 <=> \E x : fitting = {x}
  BY <1>1, FS_Singleton
<1>3. Resolved(steps, e) = IF Cardinality(fitting) = 1 THEN fitting ELSE {}
  BY DEF Resolved
<1>. HIDE DEF fitting
<1>4. w \in Resolved(steps, e) <=> fitting = {w}
  BY <1>2, <1>3
<1>. QED BY <1>4 DEF fitting

\* The first process of the list is one of it.
LEMMA FirstIsVerified ==
  ASSUME CorrelationAssumption, CorrelationTypes, verified # {}
  PROVE  First \in verified /\ First # 0
<1>1. verified \subseteq Nat /\ 0 \notin verified
  BY DEF CorrelationTypes, CorrelationAssumption
<1>2. \E m \in verified : \A k \in verified : m <= k
  BY <1>1, LeastNumber
<1>. QED BY <1>1, <1>2 DEF First, Min

\* The windows an event may fall into.
LEMMA StepsAre ==
  ASSUME CorrelationAssumption, CorrelationTypes, verified # {}, NEW later \in BOOLEAN
  PROVE  /\ IsFiniteSet(Steps(later))
         /\ \A v \in Steps(later) : \/ v \in windows /\ v.completed /\ v.step \in 1..LastStep /\ v.step # Sink
                                    \/ v.step = Sink /\ v.start = endedAt /\ v.end = time /\ v.pid = First
         /\ \A v \in windows : v.completed => v \in Steps(later)
<1>1. IsFiniteSet({w \in windows : w.completed})
  BY FS_Subset DEF CorrelationTypes
<1>2. \A v \in windows : v.step \in 1..LastStep /\ v.step # Sink
  BY DEF CorrelationTypes, StepWindows, Sink, CorrelationAssumption
<1>3. PICK n : n = Window(Sink, endedAt, time, TRUE, First) /\ n.step = Sink /\ n.start = endedAt /\ n.end = time /\ n.pid = First
  <2>. DEFINE n == Window(Sink, endedAt, time, TRUE, First)
  <2>1. n.step = Sink /\ n.start = endedAt /\ n.end = time /\ n.pid = First
    BY DEF Window
  <2>. HIDE DEF n
  <2>. QED BY <2>1 DEF n
<1>4. Steps(later) = {w \in windows : w.completed} \cup (IF later THEN {} ELSE {n})
  BY <1>3 DEF Steps
<1>5. IsFiniteSet({w \in windows : w.completed} \cup {n}) /\ IsFiniteSet({w \in windows : w.completed} \cup {})
  <2>1. PICK D : D = {w \in windows : w.completed}
    OBVIOUS
  <2>2. IsFiniteSet(D \cup {n}) /\ D \cup {} = D
    BY <1>1, <2>1, FS_AddElement
  <2>. QED BY <1>1, <2>1, <2>2
<1>6. IsFiniteSet(Steps(later))
  BY <1>4, <1>5
<1>. QED BY <1>2, <1>3, <1>4, <1>6

LEMMA StepWindowIs ==
  ASSUME Chronology, NEW w \in windows
  PROVE  StepWindow(w.step) = w
  BY DEF StepWindow, Chronology

LEMMA Correlated ==
  ASSUME CorrelationAssumption, CorrelationInv, CorrelateEvents, verified # {}
  PROVE  EventsPlaced'
<1>. CorrelationTypes /\ Chronology /\ Placed /\ LastStep \in Nat \ {0} /\ status = "ended" /\ Over
  BY DEF CorrelationInv, CorrelationAssumption, CorrelateEvents, Over
<1>u. UNCHANGED <<time, running, windows, since, appPid, seenPid, verified, events, endedAt>>
  BY DEF CorrelateEvents
<1>w. \A w \in windows : w.start \in Nat /\ w.end \in Nat /\ w.step \in 1..LastStep /\ w.step # Sink
  BY DEF CorrelationTypes, StepWindows, Sink
<1>e. \A e \in events : e.time \in Nat /\ e.in \in 0..Sink /\ e.observer \in {"frida", "traffic", "logcat"}
  BY DEF CorrelationTypes, Observed
<1>f. First \in verified /\ First # 0
  BY FirstIsVerified
<1>1. PICK later \in BOOLEAN :
        accepted' = UNION {{<<e, w.step>> : w \in {v \in Resolved(Steps(later), e) : Accepts(v, e)}} : e \in events}
  BY DEF CorrelateEvents
<1>. PICK steps : steps = Steps(later)
  OBVIOUS
<1>s. /\ IsFiniteSet(steps)
      /\ \A v \in steps : \/ v \in windows /\ v.completed /\ v.step # Sink
                          \/ v.step = Sink /\ v.start = endedAt /\ v.end = time /\ v.pid = First
      /\ \A v \in windows : v.completed => v \in steps
  BY StepsAre
<1>2. \A a \in accepted' : \E e \in events, w \in steps :
        /\ a = <<e, w.step>> /\ Accepts(w, e)
        /\ {v \in steps : Claims(v, e) /\ Holds(v, e)} = {w}
  <2>. SUFFICES ASSUME NEW a \in accepted'
       PROVE \E e \in events, w \in steps : /\ a = <<e, w.step>> /\ Accepts(w, e)
                                            /\ {v \in steps : Claims(v, e) /\ Holds(v, e)} = {w}
    OBVIOUS
  <2>1. PICK e \in events : a \in {<<e, w.step>> : w \in {v \in Resolved(steps, e) : Accepts(v, e)}}
    BY <1>1
  <2>2. PICK w \in Resolved(steps, e) : a = <<e, w.step>> /\ Accepts(w, e)
    BY <2>1
  <2>3. {v \in steps : Claims(v, e) /\ Holds(v, e)} = {w}
    BY <2>2, <1>s, ResolvedIs
  <2>4. w \in steps
    BY <2>3
  <2>. QED BY <2>2, <2>3, <2>4
<1>3. ASSUME NEW e \in events, NEW w \in steps, Accepts(w, e), {v \in steps : Claims(v, e) /\ Holds(v, e)} = {w}
      PROVE  <<e, w.step>> \in accepted'
  <2>1. w \in Resolved(steps, e)
    BY <1>3, <1>s, ResolvedIs
  <2>. QED BY <1>1, <1>3, <2>1
<1>4. CorrelationTypeOK'
  <2>1. \A a, b \in accepted' : a[1] = b[1] => a = b
    <3>. SUFFICES ASSUME NEW a \in accepted', NEW b \in accepted', a[1] = b[1] PROVE a = b
      OBVIOUS
    <3>1. PICK e \in events, w \in steps : a = <<e, w.step>> /\ {v \in steps : Claims(v, e) /\ Holds(v, e)} = {w}
      BY <1>2
    <3>2. PICK d \in events, u \in steps : b = <<d, u.step>> /\ {v \in steps : Claims(v, d) /\ Holds(v, d)} = {u}
      BY <1>2
    <3>3. d = e
      BY <3>1, <3>2
    <3>. QED BY <3>1, <3>2, <3>3
  <2>. QED BY <1>u, <2>1 DEF CorrelationTypeOK, Chronology
<1>5. HappenedInStep'
  <2>. SUFFICES ASSUME NEW a \in accepted' PROVE a[1].in = a[2] \/ At(a[1].time, a[2])'
    BY DEF HappenedInStep, At
  <2>1. PICK e \in events, w \in steps :
          a = <<e, w.step>> /\ {v \in steps : Claims(v, e) /\ Holds(v, e)} = {w}
    BY <1>2
  <2>2. a[1] = e /\ a[2] = w.step /\ w.start <= e.time /\ e.time <= w.end
    BY <2>1 DEF Holds
  <2>3. CASE w.step = Sink
    <3>1. w.start = endedAt /\ w.end = time
      BY <1>s, <1>w, <2>3
    <3>2. e.in # Sink => e.time <= endedAt
      BY DEF Placed
    <3>3. e.in = Sink \/ e.time = endedAt
      BY <2>2, <3>1, <3>2, <1>e DEF CorrelationTypes
    <3>. QED BY <1>u, <2>2, <2>3, <3>3 DEF At
  <2>4. CASE w.step # Sink
    <3>1. w \in windows
      BY <1>s, <2>4
    <3>2. e.in = w.step \/ e.time = w.start \/ e.time = w.end
      BY <1>e, <1>w, <2>2, <3>1 DEF Placed
    <3>3. StepWindow(w.step) = w
      BY <3>1, StepWindowIs
    <3>. QED BY <1>u, <2>2, <2>4, <3>2, <3>3 DEF At, StepWindow
  <2>. QED BY <2>3, <2>4
<1>6. NoGuessing'
  <2>. SUFFICES ASSUME NEW a \in accepted', NEW v \in windows, v.completed, v.step # a[2], a[1].observer # "logcat",
                       v.start <= a[1].time, a[1].time <= v.end
       PROVE FALSE
    BY <1>u DEF NoGuessing
  <2>1. PICK e \in events, w \in steps :
          a = <<e, w.step>> /\ {u \in steps : Claims(u, e) /\ Holds(u, e)} = {w}
    BY <1>2
  <2>2. v \in {u \in steps : Claims(u, e) /\ Holds(u, e)}
    BY <1>s, <2>1 DEF Claims, Holds
  <2>. QED BY <2>1, <2>2
<1>7. OwnProcess'
  <2>. SUFFICES ASSUME NEW a \in accepted', a[1].observer = "frida"
       PROVE IF a[2] = Sink THEN a[1].pid = First
             ELSE IF StepWindow(a[2]).pid # 0 THEN a[1].pid = StepWindow(a[2]).pid ELSE a[1].pid \in verified
    BY <1>u DEF OwnProcess, First, StepWindow
  <2>1. PICK e \in events, w \in steps : a = <<e, w.step>> /\ Accepts(w, e)
    BY <1>2
  <2>2. e.pid \in verified /\ w.pid \in {0, e.pid}
    BY <2>1 DEF Accepts, Process
  <2>3. CASE w.step = Sink
    <3>1. w.pid = First
      BY <1>s, <2>3
    <3>. QED BY <1>f, <2>1, <2>2, <2>3, <3>1
  <2>4. CASE w.step # Sink
    <3>1. StepWindow(w.step) = w
      BY <1>s, <2>4, StepWindowIs
    <3>. QED BY <2>1, <2>2, <2>4, <3>1
  <2>. QED BY <2>3, <2>4
<1>8. LostOnlyAtSeams'
  <2>. SUFFICES ASSUME \A w \in windows : w.completed, Cardinality(verified \cup EventPids) = 1,
                       NEW e \in events, e.owned, e.in \in 1..LastStep
       PROVE \/ <<e, e.in>> \in accepted'
             \/ e.time \in {StepWindow(e.in).start, StepWindow(e.in).end}
    BY <1>u DEF LostOnlyAtSeams, StepWindow, EventPids
  <2>1. PICK w \in windows : w.step = e.in
    BY DEF Placed, Chronology
  <2>2. w \in steps /\ StepWindow(e.in) = w /\ w.start <= e.time /\ e.time <= w.end /\ e.in # Sink
    BY <1>s, <1>w, <2>1, StepWindowIs DEF Placed
  <2>3. Claims(w, e) /\ Holds(w, e)
    BY <2>2 DEF Claims, Holds, Placed
  <2>4. Accepts(w, e)
    <3>1. IsFiniteSet(verified \cup EventPids)
      BY FS_Union DEF CorrelationTypes
    <3>2. PICK p : verified \cup EventPids = {p}
      BY <3>1, FS_Singleton
    <3>3. e.pid \in EventPids
      BY DEF EventPids
    <3>4. e.pid = p /\ First = p /\ p \in verified
      BY <1>f, <3>2, <3>3
    <3>5. w.pid \in verified \cup {0}
      BY DEF CorrelationTypes
    <3>6. w.pid \in {0, p}
      BY <3>2, <3>5
    <3>. QED BY <3>4, <3>6 DEF Accepts, Process
  <2>5. ASSUME NEW v \in steps, v # w, Claims(v, e), Holds(v, e)
        PROVE  e.time \in {w.start, w.end}
    <3>1. v.start <= e.time /\ e.time <= v.end
      BY <2>5 DEF Holds
    <3>2. CASE v.step = Sink
      <4>1. v.start = endedAt /\ w.end <= endedAt /\ endedAt \in Nat
        BY <1>s, <1>w, <3>2 DEF Chronology, CorrelationTypes
      <4>. QED BY <1>e, <1>w, <2>2, <3>1, <4>1
    <3>3. CASE v.step # Sink
      <4>1. v \in windows
        BY <1>s, <3>3
      <4>2. v.end <= w.start \/ w.end <= v.start
        BY <2>5, <4>1 DEF Chronology
      <4>. QED BY <1>e, <1>w, <2>2, <3>1, <4>1, <4>2
    <3>. QED BY <3>2, <3>3
  <2>6. CASE \E v \in steps : v # w /\ Claims(v, e) /\ Holds(v, e)
    BY <2>2, <2>5, <2>6
  <2>7. CASE ~\E v \in steps : v # w /\ Claims(v, e) /\ Holds(v, e)
    <3>1. {v \in steps : Claims(v, e) /\ Holds(v, e)} = {w}
      BY <2>2, <2>3, <2>7
    <3>2. <<e, w.step>> \in accepted'
      BY <1>3, <2>2, <2>4, <3>1
    <3>. QED BY <2>1, <3>2
  <2>. QED BY <2>6, <2>7
<1>. QED BY <1>4, <1>5, <1>6, <1>7, <1>8 DEF EventsPlaced

LEMMA PlacedKept ==
  ASSUME CorrelationAssumption, CorrelationInv, [CorrelationNext]_correlationVars, Chronology'
  PROVE  Pending' /\ EventsPlaced'
<1>. Pending /\ Chronology /\ EventsPlaced
  BY DEF CorrelationInv
<1>u. \A v, w \in windows' : v.step = w.step => v = w
  BY DEF Chronology
<1>n. ASSUME accepted' = {}, status' = "correlated" => verified' = {} \/ \E w \in windows' : ~w.completed
      PROVE  EventsPlaced'
  BY <1>n, <1>u DEF EventsPlaced, CorrelationTypeOK, HappenedInStep, NoGuessing, OwnProcess, LostOnlyAtSeams
<1>1. CASE Tick \/ Restart \/ BeginStep \/ ObserveApp \/ Happens
  <2>1. Pending' /\ accepted' = {} /\ status' # "correlated"
    BY <1>1 DEF Tick, Restart, BeginStep, ObserveApp, Happens, Pending, Chronology, Over
  <2>. QED BY <1>n, <2>1
<1>2. CASE EndStep
  <2>1. PICK completed \in BOOLEAN :
          /\ windows' = windows \cup {Window(running, since, time, completed, seenPid)}
          /\ status' = IF ~completed THEN "failed" ELSE status
    BY <1>2 DEF EndStep
  <2>2. status # "correlated" /\ accepted' = accepted
    BY <1>2 DEF EndStep, Chronology, Over
  <2>3. status' = "failed" => \E w \in windows' : ~w.completed
    <3>1. CASE completed
      BY <2>1, <3>1 DEF Pending
    <3>2. CASE ~completed
      <4>1. ~Window(running, since, time, completed, seenPid).completed
        BY <3>2 DEF Window
      <4>. QED BY <2>1, <4>1
    <3>. QED BY <3>1, <3>2
  <2>4. Pending' /\ accepted' = {} /\ status' # "correlated"
    BY <2>1, <2>2, <2>3 DEF Pending
  <2>. QED BY <1>n, <2>4
<1>3. CASE EndScenario
  <2>1. Pending' /\ accepted' = {} /\ (status' = "correlated" => \E w \in windows' : ~w.completed)
    BY <1>3 DEF EndScenario, Pending
  <2>. QED BY <1>n, <2>1
<1>4. CASE CorrelateEvents
  <2>1. Pending'
    BY <1>4 DEF CorrelateEvents, Pending
  <2>2. CASE verified = {}
    BY <1>4, <1>n, <2>2 DEF CorrelateEvents, Pending
  <2>. QED BY <1>4, <2>1, <2>2, Correlated
<1>5. CASE UNCHANGED correlationVars
  BY <1>5 DEF correlationVars, Pending, EventsPlaced, CorrelationTypeOK, HappenedInStep, NoGuessing, OwnProcess,
       LostOnlyAtSeams, At, StepWindow, First
<1>. QED BY <1>1, <1>2, <1>3, <1>4, <1>5 DEF CorrelationNext

\* What the observers saw is given to the step that caused it, or to none: an
\* accepted event happened in its step or at its edge, no other step could have
\* caused it, the hooks' events are of the process that was seen there, and without a
\* restart no event is lost but at the edge of a step (correlate_scenario_events).
THEOREM EventsAreAttributed == ASSUME CorrelationAssumption PROVE CorrelationSpec => []EventsPlaced
<1>1. CorrelationInit => CorrelationInv
  BY InitCorrelation
<1>2. CorrelationInv /\ [CorrelationNext]_correlationVars => CorrelationInv'
  BY CorrelationTypesStep, ChronologyStep, PlacedStep, PlacedKept DEF CorrelationInv
<1>3. CorrelationInv => EventsPlaced
  BY DEF CorrelationInv
<1>. QED BY <1>1, <1>2, <1>3, PTL DEF CorrelationSpec

(***************************************************************************)
(*                            A scenario's run                             *)
(***************************************************************************)

\* The steps that touch a control, and what any plan that runs has.
Kinds == {"input", "click"}
PlanFits(p) == ValidSteps(p) /\ \A i \in DOMAIN p : p[i].retries \in Nat

RunTypes ==
  /\ screen \in Screens /\ late \in BOOLEAN /\ micro \in BOOLEAN
  /\ pc \in {"observe", "preflight", "call", "look", "act", "cleanup", "done"}
  /\ aim \in Node /\ outcome \in Outcomes
  /\ pc = "observe" => plan = NoPlan /\ index = 1 /\ tries = 0 /\ outcome = "completed" /\ touched = {}
  /\ pc \notin {"observe", "done"} => plan # NoPlan

PlanTypes ==
  plan # NoPlan => /\ PlanFits(plan) /\ index \in 1..Len(plan) /\ tries \in 0..Here.retries
                   /\ results \in [1..Len(plan) -> {"not_reached", "completed", "failed"}]
                   /\ sent \in [1..Len(plan) -> Nat]

\* Before step i: the steps before it are completed, and nothing of it or of those
\* after it was tried.
Reached(i) ==
  /\ i < Len(plan) /\ outcome = "completed"
  /\ \A j \in 1..Len(plan) : /\ results[j] = IF j < i THEN "completed" ELSE "not_reached"
                             /\ sent[j] <= 1 /\ (j > i => sent[j] = 0)

\* After the steps: all are completed, or step i failed and ended them.
Through(i) ==
  /\ \A j \in 1..Len(plan) : sent[j] <= 1 /\ (j > i => sent[j] = 0)
  /\ \/ outcome = "completed" /\ i = Len(plan) /\ \A j \in 1..Len(plan) : results[j] = IF j < i THEN "completed" ELSE "not_reached"
     \/ /\ outcome # "completed" /\ i < Len(plan)
        /\ \A j \in 1..Len(plan) : results[j] = IF j < i THEN "completed" ELSE IF j = i THEN "failed" ELSE "not_reached"

Course ==
  plan # NoPlan =>
    /\ pc \in {"preflight", "call", "look", "act"} => Reached(index)
    /\ pc \in {"preflight", "call", "act"} => sent[index] = 0
    /\ pc = "preflight" => index = 1
    /\ pc = "act" => Here.action \in Kinds
    /\ pc = "cleanup" => Through(index)
    /\ pc = "done" => ResultMatchesSteps /\ NoReplay

\* What was planned, is aimed at and was touched are controls of the name planned.
Planned(sel) == sel.id # "" => /\ sel.text = "" /\ sel.class = "" /\ ~sel.point
                               /\ \E n \in Controls(sel.id) : n.editable \/ n.safe
Names ==
  micro /\ plan # NoPlan =>
    /\ \A i \in DOMAIN plan : plan[i].action \in Kinds => Planned(plan[i].sel)
    /\ pc = "act" /\ Here.sel.id # "" => aim \in Controls(Here.sel.id)
    /\ \A n \in touched : \E i \in DOMAIN plan :
         plan[i].action \in Kinds /\ (plan[i].sel.id # "" => n \in Controls(plan[i].sel.id))

ScenarioInv == RunTypes /\ PlanTypes /\ Course /\ Names

\* Counting up to a highest value.
LEMMA Bounded ==
  ASSUME NEW n \in Nat, NEW value \in [1..n -> Nat]
  PROVE  \E m \in Nat : \A i \in 1..n : value[i] <= m
<1>. DEFINE T == {k \in 1..n : \E m \in Nat : \A i \in 1..k : value[i] <= m}
<1>. SUFFICES ASSUME n # 0 PROVE \E m \in Nat : \A i \in 1..n : value[i] <= m
  OBVIOUS
<1>1. 1 \in T
  <2>1. value[1] \in Nat /\ \A i \in 1..1 : value[i] <= value[1]
    OBVIOUS
  <2>. QED BY <2>1
<1>2. ASSUME NEW k \in 1..(n - 1), k \in T PROVE k + 1 \in T
  <2>1. PICK m \in Nat : \A i \in 1..k : value[i] <= m
    BY <1>2
  <2>2. PICK h \in Nat : h = value[k + 1]
    OBVIOUS
  <2>3. PICK b \in Nat : m <= b /\ h <= b
    <3>1. m <= h \/ h <= m
      OBVIOUS
    <3>. QED BY <3>1
  <2>4. \A i \in 1..(k + 1) : value[i] <= b
    <3>. SUFFICES ASSUME NEW i \in 1..(k + 1) PROVE value[i] <= b
      OBVIOUS
    <3>1. CASE i = k + 1
      BY <3>1, <2>2, <2>3
    <3>2. CASE i \in 1..k
      <4>1. value[i] \in Nat /\ value[i] <= m
        BY <3>2, <2>1
      <4>. QED BY <4>1, <2>3
    <3>. QED BY <3>1, <3>2
  <2>. QED BY <2>4
<1>. HIDE DEF T
<1>3. \A i \in 1..n : i \in T
  BY <1>1, <1>2, Upwards
<1>4. n \in T
  BY <1>3
<1>. QED BY <1>4 DEF T

LEMMA ForemostIs ==
  ASSUME NEW n \in Nat, NEW S, S \subseteq 1..n, S # {}, NEW value \in [1..n -> Nat]
  PROVE  Foremost(S, value) \in S
<1>1. PICK b \in Nat : \A i \in 1..n : value[i] <= b
  BY Bounded
<1>. DEFINE T == {k \in Nat : \E i \in S : b - value[i] = k}
<1>2. T # {}
  <2>1. PICK i \in S : TRUE
    OBVIOUS
  <2>2. b - value[i] \in Nat
    BY <1>1
  <2>. QED BY <2>2
<1>3. PICK m \in T : \A k \in T : m <= k
  <2>. HIDE DEF T
  <2>1. T \subseteq Nat
    BY DEF T
  <2>. QED BY <1>2, <2>1, LeastNumber
<1>. DEFINE U == {i \in S : b - value[i] = m}
<1>4. PICK f \in U : \A i \in U : f <= i
  <2>1. U # {}
    <3>1. PICK i \in S : b - value[i] = m
      BY <1>3
    <3>. QED BY <3>1
  <2>2. U \subseteq Nat
    <3>1. U \subseteq S /\ 1..n \subseteq Nat
      OBVIOUS
    <3>. HIDE DEF U
    <3>. QED BY <3>1
  <2>. HIDE DEF U
  <2>. QED BY <2>1, <2>2, LeastNumber
<1>5. ASSUME NEW j \in S PROVE value[f] > value[j] \/ (value[f] = value[j] /\ f <= j)
  <2>1. value[j] \in Nat /\ value[f] \in Nat /\ b - value[j] \in Nat /\ b - value[f] = m
    BY <1>1, <1>4
  <2>2. m <= b - value[j]
    BY <1>3, <2>1
  <2>3. CASE b - value[j] = m
    BY <1>4, <2>1, <2>3
  <2>4. CASE b - value[j] # m
    BY <2>1, <2>2, <2>4
  <2>. QED BY <2>3, <2>4
<1>6. f \in S /\ \A j \in S : value[f] > value[j] \/ (value[f] = value[j] /\ f <= j)
  BY <1>4, <1>5
<1>. HIDE DEF T, U
<1>. QED BY <1>6 DEF Foremost

LEMMA StepIs ==
  ASSUME NEW a, NEW sel, NEW expect, NEW r
  PROVE  /\ Step(a, sel, expect, r).action = a /\ Step(a, sel, expect, r).sel = sel
         /\ Step(a, sel, expect, r).retries = r
  BY DEF Step

LEMMA SelectorIs ==
  ASSUME ScenarioAssumption, NEW scr \in Screens, NEW i \in DOMAIN scr.nodes,
         scr.nodes[i].editable \/ scr.nodes[i].safe
  PROVE  Planned(SelectorFor(scr.nodes, i))
<1>1. PICK nodes : nodes = scr.nodes
  OBVIOUS
<1>2. nodes[i].id = SelectorFor(nodes, i).id
  BY DEF SelectorFor
<1>3. SelectorFor(nodes, i).id # "" => SelectorFor(nodes, i).text = "" /\ SelectorFor(nodes, i).class = ""
  BY DEF SelectorFor
<1>4. ~SelectorFor(nodes, i).point
  BY DEF SelectorFor
<1>5. nodes[i] \in Controls(SelectorFor(nodes, i).id)
  BY <1>1, <1>2 DEF Controls
<1>. QED BY <1>1, <1>3, <1>4, <1>5 DEF Planned

LEMMA PlanIs ==
  ASSUME ScenarioAssumption, NEW scr \in Screens, Plan(scr) # NoPlan
  PROVE  /\ PlanFits(Plan(scr))
         /\ \A i \in DOMAIN Plan(scr) : Plan(scr)[i].action \in Kinds => Planned(Plan(scr)[i].sel)
<1>1. PICK nodes \in Seq(Node) : nodes = scr.nodes
  BY DEF ScenarioAssumption
<1>. DEFINE inputs == {i \in DOMAIN nodes : nodes[i].editable /\ nodes[i].enabled}
            actions == {i \in DOMAIN nodes : ActionEligible(nodes[i])}
            urgency == [i \in DOMAIN nodes |-> 2 - nodes[i].rank]
            scores == [i \in DOMAIN nodes |-> nodes[i].score]
            first == Foremost(inputs, urgency)
            second == Foremost(inputs \ {first}, urgency)
            chosen == Foremost(actions, scores)
            type(i) == Step("input", SelectorFor(nodes, i), AnyActivity, 0)
            short == <<Step("launch", NoSelector, Launcher, 0), Step("wait_for", SelectorFor(nodes, first), AnyActivity, 2),
                       type(first), Step("click", SelectorFor(nodes, chosen), AnyActivity, 0),
                       Step("wait_for_transition", NoSelector, AnyActivity, 2), Step("collect", NoSelector, AnyActivity, 1),
                       Step("cleanup", NoSelector, AnyActivity, 0)>>
            long == <<Step("launch", NoSelector, Launcher, 0), Step("wait_for", SelectorFor(nodes, first), AnyActivity, 2),
                      type(first), type(second), Step("click", SelectorFor(nodes, chosen), AnyActivity, 0),
                      Step("wait_for_transition", NoSelector, AnyActivity, 2), Step("collect", NoSelector, AnyActivity, 1),
                      Step("cleanup", NoSelector, AnyActivity, 0)>>
<1>2. Plan(scr) = IF inputs = {} \/ actions = {} THEN NoPlan ELSE IF inputs = {first} THEN short ELSE long
  BY <1>1 DEF Plan
<1>3. inputs # {} /\ actions # {} /\ Plan(scr) = IF inputs = {first} THEN short ELSE long
  BY <1>2
<1>4. /\ Len(nodes) \in Nat /\ DOMAIN nodes = 1..Len(nodes)
      /\ urgency \in [1..Len(nodes) -> Nat] /\ scores \in [1..Len(nodes) -> Nat]
  <2>1. ASSUME NEW n \in Node PROVE n.rank \in 0..2 /\ n.score \in Nat
    BY DEF Node
  <2>2. Len(nodes) \in Nat /\ DOMAIN nodes = 1..Len(nodes) /\ \A i \in 1..Len(nodes) : nodes[i] \in Node
    OBVIOUS
  <2>3. \A i \in 1..Len(nodes) : 2 - nodes[i].rank \in Nat /\ nodes[i].score \in Nat
    BY <2>1, <2>2
  <2>. QED BY <2>2, <2>3
<1>5. chosen \in actions /\ first \in inputs
  <2>. HIDE DEF urgency, scores
  <2>. QED BY <1>3, <1>4, ForemostIs
<1>6. inputs # {first} => second \in inputs
  <2>. HIDE DEF urgency
  <2>. QED BY <1>4, <1>5, ForemostIs
<1>7. Planned(SelectorFor(nodes, chosen)) /\ Planned(SelectorFor(nodes, first))
      /\ (inputs # {first} => Planned(SelectorFor(nodes, second)))
  BY <1>1, <1>5, <1>6, SelectorIs DEF ActionEligible
<1>. HIDE DEF inputs, first, second, chosen
<1>a. PICK a : a = Step("launch", NoSelector, Launcher, 0) /\ a.action = "launch" /\ a.retries = 0
  BY StepIs
<1>b. PICK b : b = Step("wait_for", SelectorFor(nodes, first), AnyActivity, 2) /\ b.action = "wait_for" /\ b.retries = 2
  BY StepIs
<1>c. PICK c : c = type(first) /\ c.action = "input" /\ c.retries = 0 /\ c.sel = SelectorFor(nodes, first)
  BY StepIs
<1>h. PICK h : h = type(second) /\ h.action = "input" /\ h.retries = 0 /\ h.sel = SelectorFor(nodes, second)
  BY StepIs
<1>d. PICK d : /\ d = Step("click", SelectorFor(nodes, chosen), AnyActivity, 0)
               /\ d.action = "click" /\ d.retries = 0 /\ d.sel = SelectorFor(nodes, chosen)
  BY StepIs
<1>e. PICK e : e = Step("wait_for_transition", NoSelector, AnyActivity, 2) /\ e.action = "wait_for_transition" /\ e.retries = 2
  BY StepIs
<1>f. PICK f : f = Step("collect", NoSelector, AnyActivity, 1) /\ f.action = "collect" /\ f.retries = 1
  BY StepIs
<1>g. PICK g : g = Step("cleanup", NoSelector, AnyActivity, 0) /\ g.action = "cleanup" /\ g.retries = 0
  BY StepIs
<1>8. short = <<a, b, c, d, e, f, g>> /\ long = <<a, b, c, h, d, e, f, g>>
  BY <1>a, <1>b, <1>c, <1>h, <1>d, <1>e, <1>f, <1>g
<1>. HIDE DEF short, long
<1>p. PICK p : p = Plan(scr)
  OBVIOUS
<1>13. CASE inputs = {first}
  <2>1. /\ Len(p) = 7 /\ DOMAIN p = 1..7 /\ p[1] = a /\ p[2] = b /\ p[3] = c
        /\ p[4] = d /\ p[5] = e /\ p[6] = f /\ p[7] = g
    BY <1>3, <1>8, <1>p, <1>13
  <2>2. DOMAIN p = {1, 2, 3, 4, 5, 6, 7}
    BY <2>1
  <2>3. \A i \in DOMAIN p : (p[i].action = "cleanup" <=> i = 7) /\ p[i].retries \in Nat
    BY <2>1, <2>2, <1>a, <1>b, <1>c, <1>d, <1>e, <1>f, <1>g
  <2>4. \A i \in DOMAIN p : p[i].action \in Kinds => Planned(p[i].sel)
    BY <2>1, <2>2, <1>7, <1>a, <1>b, <1>c, <1>d, <1>e, <1>f, <1>g DEF Kinds
  <2>5. ValidSteps(p)
    BY <2>1, <2>3, <1>a DEF ValidSteps
  <2>6. PlanFits(p)
    BY <2>3, <2>5 DEF PlanFits
  <2>. QED BY <2>4, <2>6, <1>p
<1>14. CASE inputs # {first}
  <2>1. /\ Len(p) = 8 /\ DOMAIN p = 1..8 /\ p[1] = a /\ p[2] = b /\ p[3] = c /\ p[4] = h
        /\ p[5] = d /\ p[6] = e /\ p[7] = f /\ p[8] = g
    BY <1>3, <1>8, <1>p, <1>14
  <2>2. DOMAIN p = {1, 2, 3, 4, 5, 6, 7, 8}
    BY <2>1
  <2>3. \A i \in DOMAIN p : (p[i].action = "cleanup" <=> i = 8) /\ p[i].retries \in Nat
    BY <2>1, <2>2, <1>a, <1>b, <1>c, <1>d, <1>e, <1>f, <1>g, <1>h
  <2>4. \A i \in DOMAIN p : p[i].action \in Kinds => Planned(p[i].sel)
    BY <2>1, <2>2, <1>7, <1>a, <1>b, <1>c, <1>d, <1>e, <1>f, <1>g, <1>h, <1>14 DEF Kinds
  <2>5. ValidSteps(p)
    BY <2>1, <2>3, <1>a DEF ValidSteps
  <2>6. PlanFits(p)
    BY <2>3, <2>5 DEF PlanFits
  <2>. QED BY <2>4, <2>6, <1>p
<1>. QED BY <1>13, <1>14

\* A step is under way; it reaches for the device at most once.
Running == pc \in {"call", "look", "act"}
Attempt == sent' = sent \/ (pc \in {"call", "act"} /\ Reach)

LEMMA FailsKept ==
  ASSUME RunTypes, PlanTypes, Course, Running, NEW how \in Outcomes \ {"completed"},
         StepFails(how), plan' = plan, Attempt
  PROVE  PlanTypes' /\ Course' /\ pc' = "cleanup" /\ outcome' \in Outcomes
<1>1. plan # NoPlan /\ Reached(index)
  BY DEF RunTypes, Running, Course
<1>2. PICK n \in Nat \ {0} : n = Len(plan)
  BY <1>1 DEF PlanTypes, PlanFits, ValidSteps
<1>3. /\ index \in 1..n /\ index < n /\ results \in [1..n -> {"not_reached", "completed", "failed"}]
      /\ sent \in [1..n -> Nat] /\ tries \in 0..Here.retries
      /\ (pc \in {"call", "act"} => sent[index] = 0)
      /\ \A j \in 1..n : results[j] = (IF j < index THEN "completed" ELSE "not_reached")
                         /\ sent[j] <= 1 /\ (j > index => sent[j] = 0)
  BY <1>1, <1>2 DEF PlanTypes, Reached, Course
<1>4. /\ results' = [results EXCEPT ![index] = "failed"] /\ outcome' = how /\ pc' = "cleanup"
      /\ index' = index /\ tries' = tries /\ Len(plan') = n /\ Here' = Here
  BY <1>2 DEF StepFails, Here
<1>5. /\ sent' \in [1..n -> Nat] /\ \A j \in 1..n : sent'[j] <= 1 /\ (j > index => sent'[j] = 0)
  <2>1. CASE sent' = sent
    BY <2>1, <1>3
  <2>2. CASE pc \in {"call", "act"} /\ Reach
    BY <2>2, <1>3 DEF Reach
  <2>. QED BY <2>1, <2>2 DEF Attempt
<1>6. PlanTypes'
  BY <1>1, <1>2, <1>3, <1>4, <1>5 DEF PlanTypes
<1>7. Through(index)'
  BY <1>2, <1>3, <1>4, <1>5 DEF Through
<1>. QED BY <1>4, <1>6, <1>7 DEF Course

LEMMA CompletesKept ==
  ASSUME RunTypes, PlanTypes, Course, Running, StepCompletes, plan' = plan, Attempt
  PROVE  PlanTypes' /\ Course' /\ pc' \in {"call", "cleanup"} /\ outcome' \in Outcomes
<1>1. plan # NoPlan /\ Reached(index)
  BY DEF RunTypes, Running, Course
<1>2. PICK n \in Nat \ {0} : n = Len(plan)
  BY <1>1 DEF PlanTypes, PlanFits, ValidSteps
<1>3. /\ index \in 1..n /\ index < n /\ results \in [1..n -> {"not_reached", "completed", "failed"}]
      /\ sent \in [1..n -> Nat] /\ outcome = "completed"
      /\ (pc \in {"call", "act"} => sent[index] = 0)
      /\ \A j \in 1..n : results[j] = (IF j < index THEN "completed" ELSE "not_reached")
                         /\ sent[j] <= 1 /\ (j > index => sent[j] = 0)
  BY <1>1, <1>2 DEF PlanTypes, Reached, Course
<1>4. /\ results' = [results EXCEPT ![index] = "completed"] /\ outcome' = outcome
      /\ index' = index + 1 /\ tries' = 0 /\ Len(plan') = n
      /\ pc' = IF plan[index + 1].action = "cleanup" THEN "cleanup" ELSE "call"
  BY <1>2 DEF StepCompletes
<1>5. /\ sent' \in [1..n -> Nat] /\ \A j \in 1..n : sent'[j] <= 1 /\ (j > index => sent'[j] = 0)
  <2>1. CASE sent' = sent
    BY <2>1, <1>3
  <2>2. CASE pc \in {"call", "act"} /\ Reach
    BY <2>2, <1>3 DEF Reach
  <2>. QED BY <2>1, <2>2 DEF Attempt
<1>8. plan[index + 1].retries \in Nat /\ (plan[index + 1].action = "cleanup" <=> index + 1 = n)
  <2>1. DOMAIN plan = 1..n /\ (\A i \in DOMAIN plan : plan[i].retries \in Nat)
        /\ \A i \in DOMAIN plan : plan[i].action = "cleanup" <=> i = n
    BY <1>1, <1>2 DEF PlanTypes, PlanFits, ValidSteps
  <2>2. index + 1 \in 1..n
    BY <1>3
  <2>. QED BY <2>1, <2>2
<1>6. PlanTypes'
  <2>1. Here'.retries = plan[index + 1].retries
    BY <1>4 DEF Here
  <2>. QED BY <1>1, <1>2, <1>3, <1>4, <1>5, <1>8, <2>1 DEF PlanTypes
<1>r. \A j \in 1..n : results'[j] = (IF j < index + 1 THEN "completed" ELSE "not_reached")
  BY <1>3, <1>4
<1>7. CASE index + 1 = n
  <2>1. Through(index)'
    BY <1>2, <1>3, <1>4, <1>5, <1>r, <1>7 DEF Through
  <2>. QED BY <1>3, <1>4, <1>6, <1>7, <1>8, <2>1 DEF Course, Outcomes
<1>9. CASE index + 1 # n
  <2>1. Reached(index)' /\ sent'[index'] = 0
    BY <1>2, <1>3, <1>4, <1>5, <1>r, <1>9 DEF Reached
  <2>. QED BY <1>3, <1>4, <1>6, <1>9, <1>8, <2>1 DEF Course, Outcomes
<1>. QED BY <1>7, <1>9

\* A step that goes on: it reads again, it was launched, or it has found its control.
GoesOn ==
  /\ UNCHANGED <<plan, index, results, outcome>> /\ tries' \in 0..Here.retries
  /\ \/ pc = "call" /\ pc' = "call" /\ sent' = sent
     \/ pc = "call" /\ pc' = "look" /\ Reach
     \/ pc = "call" /\ pc' = "act" /\ sent' = sent /\ Here.action \in Kinds

LEMMA GoesOnKept ==
  ASSUME RunTypes, PlanTypes, Course, GoesOn
  PROVE  PlanTypes' /\ Course' /\ outcome' \in Outcomes
<1>1. plan # NoPlan /\ Reached(index)
  BY DEF RunTypes, GoesOn, Course
<1>2. PICK n \in Nat \ {0} : n = Len(plan)
  BY <1>1 DEF PlanTypes, PlanFits, ValidSteps
<1>3. /\ index \in 1..n /\ index < n /\ results \in [1..n -> {"not_reached", "completed", "failed"}]
      /\ sent \in [1..n -> Nat] /\ outcome = "completed" /\ sent[index] = 0
      /\ \A j \in 1..n : results[j] = (IF j < index THEN "completed" ELSE "not_reached")
                         /\ sent[j] <= 1 /\ (j > index => sent[j] = 0)
  BY <1>1, <1>2 DEF PlanTypes, Reached, Course, GoesOn
<1>4. /\ results' = results /\ outcome' = outcome /\ index' = index /\ plan' = plan /\ Len(plan') = n
      /\ Here' = Here /\ tries' \in 0..Here.retries
  BY <1>2 DEF GoesOn, Here
<1>5. /\ sent' \in [1..n -> Nat] /\ \A j \in 1..n : sent'[j] <= 1 /\ (j > index => sent'[j] = 0)
  <2>1. CASE sent' = sent
    BY <2>1, <1>3
  <2>2. CASE Reach
    BY <2>2, <1>3 DEF Reach
  <2>. QED BY <2>1, <2>2 DEF GoesOn
<1>6. PlanTypes'
  BY <1>1, <1>2, <1>3, <1>4, <1>5 DEF PlanTypes
<1>7. Reached(index)'
  BY <1>2, <1>3, <1>4, <1>5 DEF Reached
<1>8. /\ pc' \in {"call", "act"} => sent'[index'] = 0
      /\ pc' \in {"call", "look", "act"} /\ (pc' = "act" => Here'.action \in Kinds)
  BY <1>3, <1>4 DEF GoesOn
<1>. QED BY <1>3, <1>4, <1>6, <1>7, <1>8 DEF Course, Outcomes

LEMMA ObserveKept ==
  ASSUME ScenarioAssumption, RunTypes, Observe
  PROVE  RunTypes' /\ PlanTypes' /\ Course'
<1>1. index = 1 /\ tries = 0 /\ plan = NoPlan /\ pc = "observe" /\ outcome = "completed"
  BY DEF Observe, RunTypes
<1>2. CASE pc' = "done" /\ outcome' \in {"out_of_scope", "not_exercised"} /\ UNCHANGED <<plan, results, sent>>
  <2>1. plan' = NoPlan
    BY <1>1, <1>2
  <2>. QED BY <1>1, <1>2, <2>1 DEF Observe, RunTypes, PlanTypes, Course, Outcomes
<1>3. CASE Adopt(IF screen.app THEN Plan(screen) ELSE NoPlan)
  <2>1. screen' \in Screens /\ late' \in BOOLEAN /\ micro' \in BOOLEAN /\ aim' \in Node /\ index' = 1 /\ tries' = 0
    BY <1>1 DEF Observe, RunTypes
  <2>2. \/ pc' = "done" /\ outcome' \in {"out_of_scope", "not_exercised"}
        \/ pc' = "preflight" /\ outcome' = "completed" /\ plan' # NoPlan
    <3>1. \/ pc' = "done" /\ outcome' \in {"out_of_scope", "not_exercised"}
          \/ IF ~screen.app THEN pc' = "done" /\ outcome' = "out_of_scope"
             ELSE IF ActivationQuota < 3 \/ plan' = NoPlan THEN pc' = "done" /\ outcome' = "not_exercised"
             ELSE pc' = "preflight" /\ UNCHANGED outcome
      BY DEF Observe
    <3>. QED BY <1>1, <3>1
  <2>3. CASE plan' = NoPlan
    BY <2>1, <2>2, <2>3 DEF RunTypes, PlanTypes, Course, Outcomes
  <2>4. CASE plan' # NoPlan
    <3>1. PICK p : p = Plan(screen)
      OBVIOUS
    <3>2. plan' = p /\ p # NoPlan /\ PlanFits(p)
      <4>1. plan' = p
        BY <1>3, <2>4, <3>1 DEF Adopt
      <4>. QED BY <2>4, <3>1, <4>1, PlanIs DEF RunTypes
    <3>3. PICK n \in Nat \ {0} : n = Len(p) /\ DOMAIN p = 1..n
      BY <3>2 DEF PlanFits, ValidSteps
    <3>4. results' = [i \in 1..n |-> "not_reached"] /\ sent' = [i \in 1..n |-> 0]
      BY <1>3, <2>4, <3>1, <3>2, <3>3 DEF Adopt
    <3>5. n # 1 /\ p[1].retries \in Nat
      BY <3>2, <3>3 DEF PlanFits, ValidSteps
    <3>6. PlanTypes'
      <4>1. Here'.retries = p[1].retries
        BY <2>1, <3>2 DEF Here
      <4>. QED BY <2>1, <3>2, <3>3, <3>4, <3>5, <4>1 DEF PlanTypes
    <3>7. (Reached(index)' /\ sent'[index'] = 0) \/ outcome' # "completed"
      BY <2>1, <2>2, <3>2, <3>3, <3>4, <3>5 DEF Reached
    <3>8. pc' = "done" => ResultMatchesSteps' /\ NoReplay'
      BY <2>2, <3>2, <3>3, <3>4, <3>5 DEF ResultMatchesSteps, NoReplay
    <3>9. Course'
      BY <2>1, <2>2, <3>7, <3>8 DEF Course
    <3>. QED BY <2>1, <2>2, <2>4, <3>6, <3>9 DEF RunTypes, Outcomes
  <2>. QED BY <2>3, <2>4
<1>. QED BY <1>2, <1>3 DEF Observe

LEMMA PreflightKept ==
  ASSUME RunTypes, PlanTypes, Course, Preflight
  PROVE  RunTypes' /\ PlanTypes' /\ Course'
<1>1. plan # NoPlan /\ Reached(index) /\ index = 1 /\ sent[1] = 0
  BY DEF RunTypes, Preflight, Course
<1>2. PICK n \in Nat \ {0} : n = Len(plan) /\ DOMAIN plan = 1..n
  BY <1>1 DEF PlanTypes, PlanFits, ValidSteps
<1>3. /\ n # 1 /\ sent \in [1..n -> Nat]
      /\ \A j \in 1..n : results[j] = "not_reached" /\ sent[j] = 0
  BY <1>1, <1>2 DEF PlanTypes, Reached
<1>4. PlanTypes' /\ plan' = plan /\ results' = results /\ sent' = sent /\ index' = index
  BY DEF Preflight, PlanTypes, Here
<1>5. CASE pc' = "call" /\ UNCHANGED outcome
  <2>1. Reached(index)'
    BY <1>1, <1>4, <1>5 DEF Reached
  <2>. QED BY <1>1, <1>4, <1>5, <2>1 DEF RunTypes, Course, Preflight
<1>6. CASE pc' = "done" /\ outcome' \in {"out_of_scope", "failed_precondition"}
  <2>1. ResultMatchesSteps' /\ NoReplay'
    BY <1>2, <1>3, <1>4, <1>6 DEF ResultMatchesSteps, NoReplay
  <2>. QED BY <1>1, <1>4, <1>6, <2>1 DEF RunTypes, Course, Preflight, Outcomes
<1>. QED BY <1>5, <1>6 DEF Preflight

LEMMA CleanupKept ==
  ASSUME RunTypes, PlanTypes, Course, Cleanup
  PROVE  RunTypes' /\ PlanTypes' /\ Course'
<1>1. plan # NoPlan /\ Through(index)
  BY DEF RunTypes, Cleanup, Course
<1>2. PICK n \in Nat \ {0} : n = Len(plan) /\ DOMAIN plan = 1..n /\ plan[n].retries \in Nat
  <2>1. /\ Len(plan) \in Nat \ {0} /\ DOMAIN plan = 1..Len(plan)
        /\ \A i \in DOMAIN plan : plan[i].retries \in Nat
    BY <1>1 DEF PlanTypes, PlanFits, ValidSteps
  <2>2. Len(plan) \in DOMAIN plan
    BY <2>1
  <2>. QED BY <2>1, <2>2
<1>3. PICK ended \in {"completed", "failed"} :
        /\ results' = [results EXCEPT ![n] = ended]
        /\ outcome' = IF ended = "failed" /\ outcome = "completed" THEN "partial" ELSE outcome
  BY <1>2 DEF Cleanup
<1>4. /\ index' = n /\ tries' = 0 /\ plan' = plan /\ sent' = sent /\ pc' = "done" /\ Len(plan') = n /\ DOMAIN plan' = 1..n
  BY <1>2 DEF Cleanup
<1>5. /\ index \in 1..n /\ results \in [1..n -> {"not_reached", "completed", "failed"}] /\ sent \in [1..n -> Nat]
      /\ outcome \in Outcomes
  BY <1>1, <1>2 DEF PlanTypes, RunTypes
<1>6. PlanTypes'
  <2>1. Here'.retries = plan[n].retries
    BY <1>4 DEF Here
  <2>. QED BY <1>1, <1>2, <1>3, <1>4, <1>5, <2>1 DEF PlanTypes
<1>7. /\ \A j \in 1..n : sent[j] <= 1 /\ (j > index => sent[j] = 0)
      /\ \/ outcome = "completed" /\ index = n /\ \A j \in 1..n : results[j] = IF j < index THEN "completed" ELSE "not_reached"
         \/ /\ outcome # "completed" /\ index < n
            /\ \A j \in 1..n : results[j] = IF j < index THEN "completed" ELSE IF j = index THEN "failed" ELSE "not_reached"
  BY <1>1, <1>2 DEF Through
<1>8. NoReplay'
  BY <1>3, <1>4, <1>5, <1>7 DEF NoReplay
<1>9. ResultMatchesSteps'
  BY <1>3, <1>4, <1>5, <1>7 DEF ResultMatchesSteps
<1>. QED BY <1>1, <1>3, <1>4, <1>6, <1>8, <1>9 DEF RunTypes, Course, Cleanup, Outcomes

\* What a step of the runner comes to.
LEMMA StepIsOf ==
  ASSUME ScenarioAssumption, RunTypes, PlanTypes, Course, Launch \/ LookLaunched \/ Aim \/ Act \/ Wait \/ Collect
  PROVE  /\ plan' = plan /\ late' = late /\ micro' = micro /\ screen' \in Screens
         /\ Running /\ Attempt
         /\ \/ \E how \in Outcomes \ {"completed"} : StepFails(how)
            \/ StepCompletes
            \/ GoesOn
<1>1. plan # NoPlan => tries \in 0..Here.retries /\ Here.retries \in Nat
  <2>1. plan # NoPlan => index \in DOMAIN plan /\ \A i \in DOMAIN plan : plan[i].retries \in Nat
    BY DEF PlanTypes, PlanFits, ValidSteps
  <2>. QED BY <2>1 DEF PlanTypes, Here
<1>2. pc \in {"call", "look", "act"} => plan # NoPlan
  BY DEF RunTypes
<1>3. CASE Launch
  BY <1>1, <1>2, <1>3 DEF Launch, CallEnds, Running, Attempt, GoesOn, RunTypes, Outcomes
<1>4. CASE LookLaunched
  BY <1>1, <1>2, <1>4 DEF LookLaunched, Running, Attempt, RunTypes, Outcomes
<1>5. CASE Aim
  BY <1>1, <1>2, <1>5 DEF Aim, Running, Attempt, GoesOn, RunTypes, Outcomes, Kinds
<1>6. CASE Act
  BY <1>1, <1>2, <1>6 DEF Act, CallEnds, Running, Attempt, RunTypes, Outcomes
<1>7. CASE Wait
  BY <1>1, <1>2, <1>7 DEF Wait, Retries, Running, Attempt, GoesOn, RunTypes, Outcomes
<1>8. CASE Collect
  BY <1>1, <1>2, <1>8 DEF Collect, Retries, Running, Attempt, GoesOn, RunTypes, Outcomes
<1>. QED BY <1>3, <1>4, <1>5, <1>6, <1>7, <1>8

LEMMA NodeIs ==
  ASSUME ScenarioAssumption, NEW scr \in Screens, NEW sel
  PROVE  /\ Resolve(sel, scr) \in Node
         /\ Planned(sel) /\ sel.id # "" /\ Resolve(sel, scr) # NoNode => Resolve(sel, scr) \in Controls(sel.id)
<1>1. PICK nodes \in Seq(Node) : nodes = scr.nodes
  BY DEF ScenarioAssumption
<1>. DEFINE enabled == {i \in DOMAIN nodes : nodes[i].enabled}
            byId == {i \in enabled : sel.id # "" /\ nodes[i].id = sel.id}
            byText == {i \in enabled : sel.text # "" /\ nodes[i].text = sel.text}
            ofClass == {i \in enabled : sel.class # "" /\ nodes[i].class = sel.class}
            byClass == {i \in ofClass : Cardinality({j \in ofClass : j < i}) = sel.index}
            found == IF Cardinality(byId) = 1 THEN byId ELSE IF Cardinality(byText) = 1 THEN byText ELSE byClass
            one == CHOOSE i \in found : TRUE
<1>2. Resolve(sel, scr) = IF found # {} THEN nodes[one] ELSE IF sel.point THEN Point ELSE NoNode
  BY <1>1 DEF Resolve
<1>3. found \subseteq DOMAIN nodes
  OBVIOUS
<1>4. ASSUME sel.text = "", sel.class = "" PROVE found \subseteq byId
  BY <1>4, FS_EmptySet
<1>5. \A i \in byId : i \in DOMAIN nodes /\ nodes[i].id = sel.id
  OBVIOUS
<1>. HIDE DEF byId, found
<1>6. found # {} => one \in found
  OBVIOUS
<1>. HIDE DEF one
<1>7. Resolve(sel, scr) \in Node
  <2>1. NoNode \in Node
    BY DEF ScenarioAssumption
  <2>2. Point \in Node
    BY <2>1 DEF Point, Node
  <2>3. \A i \in DOMAIN nodes : nodes[i] \in Node
    OBVIOUS
  <2>. QED BY <1>2, <1>3, <1>6, <2>1, <2>2, <2>3
<1>8. ASSUME Planned(sel), sel.id # "", Resolve(sel, scr) # NoNode PROVE Resolve(sel, scr) \in Controls(sel.id)
  <2>1. found # {} /\ Resolve(sel, scr) = nodes[one] /\ one \in byId
    BY <1>2, <1>4, <1>6, <1>8 DEF Planned
  <2>2. one \in DOMAIN nodes /\ nodes[one].id = sel.id
    BY <1>5, <2>1
  <2>. QED BY <1>1, <2>1, <2>2 DEF Controls
<1>. QED BY <1>7, <1>8

LEMMA AimKept ==
  ASSUME ScenarioAssumption, RunTypes, ScenarioNext
  PROVE  aim' \in Node
<1>1. CASE Aim
  BY <1>1, NodeIs DEF Aim, RunTypes
<1>2. CASE ~Aim
  <2>1. aim' = aim
    BY <1>2 DEF ScenarioNext, RunnerStep, Observe, Preflight, Launch, LookLaunched, Act, Wait, Collect, Cleanup,
                ScreenChanges, TimeoutPasses
  <2>. QED BY <2>1 DEF RunTypes
<1>. QED BY <1>1, <1>2

LEMMA NamesKept ==
  ASSUME ScenarioAssumption, RunTypes, PlanTypes, Course, Names, ScenarioNext
  PROVE  Names'
<1>. SUFFICES ASSUME micro', plan' # NoPlan PROVE Names'
  BY DEF Names
<1>1. CASE Observe
  <2>1. touched' = {} /\ plan' = Plan(screen) /\ screen \in Screens
    BY <1>1 DEF Observe, Adopt, RunTypes
  <2>2. pc' # "act"
    BY <1>1 DEF Observe
  <2>. QED BY <2>1, <2>2, PlanIs DEF Names
<1>2. CASE ~Observe
  <2>1. plan' = plan /\ micro' = micro
    BY <1>2 DEF ScenarioNext, RunnerStep, Preflight, Launch, LookLaunched, Aim, Act, Wait, Collect, Cleanup,
                ScreenChanges, TimeoutPasses
  <2>2. /\ \A i \in DOMAIN plan : plan[i].action \in Kinds => Planned(plan[i].sel)
        /\ pc = "act" /\ Here.sel.id # "" => aim \in Controls(Here.sel.id)
        /\ \A n \in touched : \E i \in DOMAIN plan :
             plan[i].action \in Kinds /\ (plan[i].sel.id # "" => n \in Controls(plan[i].sel.id))
    BY <2>1 DEF Names
  <2>3. pc \in {"call", "act"} => index \in DOMAIN plan
    BY <2>1 DEF PlanTypes, PlanFits, ValidSteps
  <2>4. CASE Aim
    <3>1. touched' = touched /\ Here' = Here
      BY <2>1, <2>4 DEF Aim, Here, StepFails
    <3>2. pc' = "act" => /\ aim' = Resolve(Here.sel, screen) /\ aim' # NoNode /\ screen \in Screens
                         /\ Here.action \in Kinds /\ Here = plan[index] /\ index \in DOMAIN plan
      BY <2>3, <2>4 DEF Aim, RunTypes, Kinds, StepFails, Here
    <3>3. pc' = "act" /\ Here.sel.id # "" => aim' \in Controls(Here.sel.id)
      BY <2>2, <3>2, NodeIs
    <3>. QED BY <2>1, <2>2, <3>1, <3>3 DEF Names
  <2>5. CASE Act
    <3>1. pc' # "act" /\ touched' \subseteq touched \cup {aim}
      BY <2>5 DEF Act, CallEnds, StepCompletes, StepFails
    <3>2. index \in DOMAIN plan /\ plan[index].action \in Kinds /\ (plan[index].sel.id # "" => aim \in Controls(plan[index].sel.id))
      BY <2>1, <2>2, <2>3, <2>5 DEF Act, Course, Here
    <3>. QED BY <2>1, <2>2, <3>1, <3>2 DEF Names
  <2>6. CASE ~Aim /\ ~Act
    <3>1. touched' = touched /\ aim' = aim /\ (pc' = "act" => pc = "act" /\ Here' = Here)
      BY <1>2, <2>1, <2>6 DEF ScenarioNext, RunnerStep, Preflight, Launch, LookLaunched, Wait, Collect, Cleanup,
                ScreenChanges, TimeoutPasses, CallEnds, Retries, StepCompletes, StepFails, Here
    <3>. QED BY <2>1, <2>2, <3>1 DEF Names
  <2>. QED BY <2>4, <2>5, <2>6
<1>. QED BY <1>1, <1>2

LEMMA ScenarioKept ==
  ASSUME ScenarioAssumption, ScenarioInv, [ScenarioNext]_scenarioVars
  PROVE  ScenarioInv'
<1>1. CASE UNCHANGED scenarioVars
  BY <1>1 DEF ScenarioInv, RunTypes, PlanTypes, Course, Reached, Through, ResultMatchesSteps, NoReplay, Names, Here,
              scenarioVars
<1>2. CASE ScenarioNext
  <2>1. Names' /\ aim' \in Node
    BY <1>2, NamesKept, AimKept DEF ScenarioInv
  <2>2. CASE Observe
    BY <2>1, <2>2, ObserveKept DEF ScenarioInv
  <2>3. CASE Preflight
    BY <2>1, <2>3, PreflightKept DEF ScenarioInv
  <2>4. CASE Cleanup
    BY <2>1, <2>4, CleanupKept DEF ScenarioInv
  <2>5. CASE Launch \/ LookLaunched \/ Aim \/ Act \/ Wait \/ Collect
    <3>1. /\ plan' = plan /\ late' = late /\ micro' = micro /\ screen' \in Screens /\ plan # NoPlan
          /\ Running /\ Attempt
      BY <2>5, StepIsOf DEF ScenarioInv, Running, RunTypes
    <3>2. /\ PlanTypes' /\ Course' /\ outcome' \in Outcomes
          /\ pc' \in {"call", "look", "act", "cleanup"}
      <4>1. CASE \E how \in Outcomes \ {"completed"} : StepFails(how)
        BY <3>1, <4>1, FailsKept DEF ScenarioInv
      <4>2. CASE StepCompletes
        BY <3>1, <4>2, CompletesKept DEF ScenarioInv
      <4>3. CASE GoesOn
        BY <4>3, GoesOnKept DEF ScenarioInv, GoesOn
      <4>. QED BY <2>5, <4>1, <4>2, <4>3, StepIsOf DEF ScenarioInv
    <3>3. RunTypes'
      BY <2>1, <3>1, <3>2 DEF ScenarioInv, RunTypes
    <3>. QED BY <2>1, <3>2, <3>3 DEF ScenarioInv
  <2>6. CASE ScreenChanges \/ TimeoutPasses
    <3>1. UNCHANGED <<pc, plan, index, tries, aim, results, outcome, micro, sent, touched>>
          /\ screen' \in Screens /\ late' \in BOOLEAN
      BY <2>6 DEF ScenarioInv, RunTypes, ScreenChanges, TimeoutPasses
    <3>. QED BY <2>1, <3>1 DEF ScenarioInv, RunTypes, PlanTypes, Course, Reached, Through, ResultMatchesSteps, NoReplay, Here
  <2>. QED BY <1>2, <2>2, <2>3, <2>4, <2>5, <2>6 DEF ScenarioNext, RunnerStep
<1>. QED BY <1>1, <1>2

LEMMA InitScenario ==
  ASSUME ScenarioAssumption, ScenarioInit
  PROVE  ScenarioInv
<1>1. aim \in Node
  BY DEF ScenarioInit, ScenarioAssumption
<1>2. CASE micro = TRUE /\ pc = "observe" /\ plan = NoPlan
  BY <1>1, <1>2 DEF ScenarioInit, ScenarioInv, RunTypes, PlanTypes, Course, Names, Outcomes
<1>3. CASE /\ micro = FALSE /\ pc = "preflight" /\ plan \in Profiles
           /\ results = [i \in DOMAIN plan |-> "not_reached"] /\ sent = [i \in DOMAIN plan |-> 0]
  <2>1. plan # NoPlan /\ ValidSteps(plan) /\ \A i \in DOMAIN plan : plan[i].retries \in 0..3
    BY <1>3 DEF ScenarioAssumption, ValidStep
  <2>2. PlanFits(plan)
    BY <2>1 DEF PlanFits
  <2>3. PICK n \in Nat \ {0} : n = Len(plan) /\ DOMAIN plan = 1..n
    BY <2>1 DEF ValidSteps
  <2>4. n # 1 /\ plan[1].retries \in Nat
    BY <2>1, <2>3 DEF ValidSteps
  <2>5. index = 1 /\ tries = 0 /\ outcome = "completed" /\ Here = plan[1]
    BY DEF ScenarioInit, Here
  <2>6. PlanTypes
    BY <1>3, <2>2, <2>3, <2>4, <2>5 DEF PlanTypes
  <2>7. Reached(index) /\ sent[index] = 0
    BY <1>3, <2>3, <2>4, <2>5 DEF Reached
  <2>8. Course
    BY <1>3, <2>5, <2>7 DEF Course
  <2>9. RunTypes /\ Names
    BY <1>1, <1>3, <2>1, <2>5 DEF ScenarioInit, RunTypes, Names, Outcomes
  <2>. QED BY <2>6, <2>8, <2>9 DEF ScenarioInv
<1>. QED BY <1>2, <1>3 DEF ScenarioInit

LEMMA ScenarioHolds ==
  ASSUME ScenarioInv
  PROVE  ScenarioTruthful
<1>1. ScenarioTypeOK
  BY DEF ScenarioInv, RunTypes, PlanTypes, PlanFits, ValidSteps, ScenarioTypeOK
<1>2. ASSUME plan # NoPlan, pc # "done" PROVE NoReplay
  <2>1. DOMAIN plan = 1..Len(plan)
    BY <1>2 DEF ScenarioInv, PlanTypes, PlanFits, ValidSteps
  <2>2. pc = "cleanup" \/ pc \in {"preflight", "call", "look", "act"}
    BY <1>2 DEF ScenarioInv, RunTypes
  <2>3. CASE pc = "cleanup"
    <3>1. Through(index) /\ index \in 1..Len(plan) /\ sent \in [1..Len(plan) -> Nat] /\ Len(plan) \in Nat
      BY <1>2, <2>3 DEF ScenarioInv, Course, PlanTypes, PlanFits, ValidSteps
    <3>2. PICK n \in Nat : n = Len(plan)
      BY <3>1
    <3>3. \A i \in 1..n : sent[i] <= 1 /\ (i > index => sent[i] = 0)
      BY <3>1, <3>2 DEF Through
    <3>4. outcome = "timeout_unknown" => \A i \in 1..n : i <= index => results[i] # "not_reached"
      BY <3>1, <3>2 DEF Through
    <3>5. index \in Nat /\ \A i \in 1..n : sent[i] \in Nat
      BY <3>1, <3>2
    <3>. QED BY <2>1, <3>2, <3>3, <3>4, <3>5 DEF NoReplay
  <2>4. CASE pc \in {"preflight", "call", "look", "act"}
    <3>1. Reached(index)
      BY <1>2, <2>4 DEF ScenarioInv, Course
    <3>. QED BY <2>1, <3>1 DEF Reached, NoReplay
  <2>. QED BY <2>2, <2>3, <2>4
<1>3. ResultMatchesSteps /\ NoReplay
  BY <1>2 DEF ScenarioInv, Course, ResultMatchesSteps, NoReplay
<1>4. NamedControlsAreSafe
  <2>. SUFFICES ASSUME micro, plan # NoPlan,
                       \A i \in DOMAIN plan : plan[i].action \in {"input", "click"} => Telling(plan[i].sel.id),
                       NEW n \in touched
                PROVE  n.editable \/ n.safe
    BY DEF NamedControlsAreSafe
  <2>1. PICK i \in DOMAIN plan : plan[i].action \in Kinds /\ (plan[i].sel.id # "" => n \in Controls(plan[i].sel.id))
    BY DEF ScenarioInv, Names
  <2>2. Planned(plan[i].sel) /\ Telling(plan[i].sel.id)
    BY <2>1 DEF ScenarioInv, Names, Kinds
  <2>3. PICK m \in Controls(plan[i].sel.id) : m.editable \/ m.safe
    BY <2>2 DEF Planned, Telling
  <2>. QED BY <2>1, <2>2, <2>3 DEF Telling
<1>. QED BY <1>1, <1>3, <1>4 DEF ScenarioTruthful

\* A scenario reaches for the device once per step, its result says which steps
\* were completed, failed and not reached, the cleanup is tried whenever anything
\* was, and a plan whose names tell its controls apart never touches a dangerous
\* one (ScenarioRunner.run, CandidateMicroScenarioService.run).
THEOREM ScenariosTellTheTruth == ASSUME ScenarioAssumption PROVE ScenarioSpec => []ScenarioTruthful
<1>1. ScenarioInit => ScenarioInv
  BY InitScenario
<1>2. ScenarioInv /\ [ScenarioNext]_scenarioVars => ScenarioInv'
  BY ScenarioKept
<1>3. ScenarioInv => ScenarioTruthful
  BY ScenarioHolds
<1>. QED BY <1>1, <1>2, <1>3, PTL DEF ScenarioSpec


(***************************************************************************)
(*                     What the storage report leaves out                  *)
(***************************************************************************)

\* The first numbers of a bounded set: as many as asked for, or all.
LEMMA GreatestNumber ==
  ASSUME NEW n \in Nat, NEW S, S \subseteq 0..n, S # {}
  PROVE  \E m \in S : \A k \in S : k <= m
<1>. DEFINE T == {n - k : k \in S}
<1>1. T # {} /\ T \subseteq Nat
  <2>1. PICK k \in S : TRUE
    OBVIOUS
  <2>2. n - k \in T
    BY <2>1
  <2>3. \A l \in S : n - l \in Nat
    OBVIOUS
  <2>. QED BY <2>2, <2>3
<1>2. PICK b \in T : \A k \in T : b <= k
  <2>. HIDE DEF T
  <2>. QED BY <1>1, LeastNumber
<1>3. PICK m \in S : b = n - m
  BY <1>2
<1>4. ASSUME NEW k \in S PROVE k <= m
  <2>1. b <= n - k /\ k \in 0..n /\ m \in 0..n
    BY <1>2
  <2>. QED BY <1>3, <2>1
<1>. QED BY <1>4

LEMMA FirstsAre ==
  ASSUME NEW n \in Nat, NEW T, T \subseteq 0..n, NEW m \in Nat
  PROVE  /\ FirstOf(T, m) \subseteq T
         /\ IsFiniteSet(FirstOf(T, m)) /\ Cardinality(FirstOf(T, m)) \in Nat
         /\ Cardinality(FirstOf(T, m)) <= m
         /\ FirstOf(T, m) # T => Cardinality(FirstOf(T, m)) >= m
<1>. DEFINE F == FirstOf(T, m)
            Before(i) == {j \in T : j < i}
<1>1. IsFiniteSet(T) /\ F \subseteq T /\ \A i : Before(i) \subseteq T
  <2>1. IsFiniteSet(0..n)
    BY FS_Interval
  <2>2. IsFiniteSet(T)
    BY <2>1, FS_Subset
  <2>. QED BY <2>2 DEF FirstOf
<1>2. IsFiniteSet(F) /\ Cardinality(F) \in Nat
  <2>. HIDE DEF F
  <2>. QED BY <1>1, FS_Subset, FS_CardinalityType
<1>3. ASSUME NEW i PROVE IsFiniteSet(Before(i)) /\ Cardinality(Before(i)) \in Nat
  <2>. HIDE DEF Before
  <2>. QED BY <1>1, FS_Subset, FS_CardinalityType
<1>4. \A i \in T : i \in F <=> Cardinality(Before(i)) < m
  BY DEF FirstOf
<1>5. Cardinality(F) <= m
  <2>1. CASE F = {}
    BY <2>1, FS_EmptySet
  <2>2. CASE F # {}
    <3>1. PICK g \in F : \A k \in F : k <= g
      <4>. HIDE DEF F
      <4>. QED BY <1>1, <2>2, GreatestNumber
    <3>2. F \subseteq Before(g) \cup {g}
      <4>. SUFFICES ASSUME NEW k \in F PROVE k \in Before(g) \cup {g}
        OBVIOUS
      <4>1. k \in T /\ g \in T /\ k <= g /\ k \in 0..n /\ g \in 0..n
        BY <1>1, <3>1
      <4>. QED BY <4>1
    <3>3. Cardinality(Before(g)) < m /\ g \notin Before(g)
      <4>1. g \in T /\ g \in 0..n
        BY <1>1, <3>1
      <4>2. ~(g < g)
        BY <4>1
      <4>3. g \notin Before(g)
        BY <4>2
      <4>. QED BY <1>4, <3>1, <4>1, <4>3
    <3>4. PICK B : B = Before(g)
      OBVIOUS
    <3>5. IsFiniteSet(B \cup {g}) /\ Cardinality(B \cup {g}) = Cardinality(B) + 1
      <4>1. IsFiniteSet(B) /\ g \notin B
        BY <1>3, <3>3, <3>4
      <4>. HIDE DEF F, Before
      <4>. QED BY <4>1, FS_AddElement
    <3>6. Cardinality(F) <= Cardinality(B \cup {g})
      <4>. HIDE DEF F, Before
      <4>. QED BY <3>2, <3>4, <3>5, FS_Subset
    <3>7. Cardinality(B) \in Nat /\ Cardinality(B) < m
      BY <1>3, <3>3, <3>4
    <3>. HIDE DEF F, Before
    <3>. QED BY <1>2, <3>5, <3>6, <3>7
  <2>. QED BY <2>1, <2>2
<1>6. ASSUME F # T PROVE Cardinality(F) >= m
  <2>1. PICK l \in T \ F : \A k \in T \ F : l <= k
    <3>1. T \ F # {} /\ T \ F \subseteq Nat
      <4>1. \E k \in T : k \notin F
        <5>. HIDE DEF F
        <5>. QED BY <1>1, <1>6
      <4>2. T \subseteq Nat
        OBVIOUS
      <4>. HIDE DEF F
      <4>. QED BY <4>1, <4>2
    <3>. HIDE DEF F
    <3>. QED BY <3>1, LeastNumber
  <2>2. Before(l) \subseteq F
    <3>. SUFFICES ASSUME NEW k \in Before(l), k \notin F PROVE FALSE
      OBVIOUS
    <3>1. k \in T \ F /\ k < l /\ k \in 0..n /\ l \in 0..n
      OBVIOUS
    <3>. QED BY <2>1, <3>1
  <2>3. ~(Cardinality(Before(l)) < m)
    BY <1>4, <2>1
  <2>4. PICK B : B = Before(l)
    OBVIOUS
  <2>5. Cardinality(B) <= Cardinality(F)
    <3>. HIDE DEF F, Before
    <3>. QED BY <1>2, <2>2, <2>4, FS_Subset
  <2>6. Cardinality(B) \in Nat /\ ~(Cardinality(B) < m)
    BY <1>3, <2>3, <2>4
  <2>. HIDE DEF F, Before
  <2>. QED BY <1>2, <2>5, <2>6
<1>. HIDE DEF F
<1>. QED BY <1>1, <1>2, <1>5, <1>6 DEF F

\* What is on the device and what was listed: files at numbers that are bounded.
Maps == {m \in UNION {[S -> Files] : S \in SUBSET Nat} : \E n \in Nat : DOMAIN m \subseteq 0..n}

LEMMA MapsAre ==
  ASSUME NEW m \in Maps
  PROVE  /\ \E n \in Nat : DOMAIN m \subseteq 0..n
         /\ \A i \in DOMAIN m : m[i] \in Files
  BY DEF Maps

LEMMA IsMap ==
  ASSUME NEW S, NEW n \in Nat, S \subseteq 0..n, NEW m \in [S -> Files]
  PROVE  m \in Maps
<1>1. S \in SUBSET Nat /\ DOMAIN m = S
  OBVIOUS
<1>. QED BY <1>1 DEF Maps

LEMMA KeptAre ==
  ASSUME StorageAssumption, storage \in [Roots -> Maps], NEW r \in Roots
  PROVE  /\ Kept(r) \subseteq Nat /\ IsFiniteSet(Kept(r)) /\ Cardinality(Kept(r)) <= MaxEntries /\ Cardinality(Kept(r)) \in Nat
         /\ \A i \in Kept(r) : i \in DOMAIN storage[r] /\ storage[r][i] \in Files
         /\ Parsed(r) = Found(r) /\ Kept(r) = Parsed(r) =>
              \A i \in DOMAIN storage[r] : ~storage[r][i].deep /\ Id(storage[r][i]) \notin missed =>
                i \in Kept(r) /\ storage[r][i].line # "malformed"
<1>. DEFINE shallow == {i \in DOMAIN storage[r] : ~storage[r][i].deep /\ Id(storage[r][i]) \notin missed}
<1>1. PICK n \in Nat : DOMAIN storage[r] \subseteq 0..n /\ \A i \in DOMAIN storage[r] : storage[r][i] \in Files
  <2>1. storage[r] \in Maps
    OBVIOUS
  <2>. QED BY <2>1, MapsAre
<1>2. MaxEntries \in Nat /\ MaxEntries + 1 \in Nat
  BY DEF StorageAssumption
<1>3. Found(r) = FirstOf(shallow, MaxEntries + 1)
  BY DEF Found
<1>4. shallow \subseteq 0..n /\ shallow \subseteq DOMAIN storage[r]
  BY <1>1
<1>. HIDE DEF shallow
<1>5. Found(r) \subseteq shallow /\ (Found(r) # shallow => Cardinality(Found(r)) >= MaxEntries + 1)
  BY <1>2, <1>3, <1>4, FirstsAre
<1>6. Parsed(r) \subseteq Found(r) /\ Parsed(r) \subseteq 0..n /\ \A i \in Parsed(r) : storage[r][i].line # "malformed"
  BY <1>4, <1>5 DEF Parsed
<1>7. Kept(r) \subseteq Parsed(r) /\ IsFiniteSet(Kept(r)) /\ Cardinality(Kept(r)) <= MaxEntries /\ Cardinality(Kept(r)) \in Nat
  BY <1>2, <1>6, FirstsAre DEF Kept
<1>8. Kept(r) \subseteq Nat /\ \A i \in Kept(r) : i \in DOMAIN storage[r] /\ storage[r][i] \in Files
  BY <1>1, <1>4, <1>5, <1>6, <1>7
<1>9. ASSUME Parsed(r) = Found(r), Kept(r) = Parsed(r)
      PROVE  \A i \in DOMAIN storage[r] : ~storage[r][i].deep /\ Id(storage[r][i]) \notin missed =>
               i \in Kept(r) /\ storage[r][i].line # "malformed"
  <2>1. Found(r) = shallow
    <3>1. PICK c \in Nat : c = Cardinality(Kept(r))
      BY <1>7
    <3>. QED BY <1>2, <1>5, <1>7, <1>9, <3>1
  <2>. QED BY <1>6, <1>9, <2>1 DEF shallow
<1>. QED BY <1>7, <1>8, <1>9

LEMMA TurnsDiffer ==
  ASSUME StorageAssumption, storage \in [Roots -> Maps],
         NEW r \in Roots, NEW i \in Kept(r)
  PROVE  /\ TurnOf(r, i) \in 0..(2 * MaxEntries + 1)
         /\ \A s \in Roots : \A j \in Kept(s) : TurnOf(r, i) = TurnOf(s, j) => r = s /\ i = j
<1>. DEFINE Rank(s, j) == Cardinality({k \in Kept(s) : k < j})
<1>1. ASSUME NEW s \in Roots, NEW j PROVE Rank(s, j) \in Nat /\ Rank(s, j) <= MaxEntries
  <2>1. PICK B : B = {k \in Kept(s) : k < j} /\ B \subseteq Kept(s)
    OBVIOUS
  <2>2. IsFiniteSet(B) /\ Cardinality(B) \in Nat /\ Cardinality(B) <= Cardinality(Kept(s))
    BY <2>1, KeptAre, FS_Subset, FS_CardinalityType
  <2>3. Cardinality(Kept(s)) <= MaxEntries /\ Cardinality(Kept(s)) \in Nat /\ MaxEntries \in Nat
    BY KeptAre DEF StorageAssumption
  <2>. QED BY <2>1, <2>2, <2>3
<1>2. ASSUME NEW s \in Roots, NEW j \in Kept(s), NEW k \in Kept(s), j < k PROVE Rank(s, j) < Rank(s, k)
  <2>1. PICK A : A = {l \in Kept(s) : l < j}
    OBVIOUS
  <2>2. PICK B : B = {l \in Kept(s) : l < k}
    OBVIOUS
  <2>3. A \cup {j} \subseteq B /\ j \notin A /\ A \subseteq Kept(s) /\ B \subseteq Kept(s)
    <3>1. Kept(s) \subseteq Nat
      BY KeptAre
    <3>. QED BY <1>2, <2>1, <2>2, <3>1
  <2>4. IsFiniteSet(A) /\ IsFiniteSet(B) /\ Cardinality(A) \in Nat /\ Cardinality(B) \in Nat
    BY <2>3, KeptAre, FS_Subset, FS_CardinalityType
  <2>5. Cardinality(A \cup {j}) = Cardinality(A) + 1 /\ Cardinality(A \cup {j}) <= Cardinality(B)
    BY <2>3, <2>4, FS_AddElement, FS_Subset
  <2>. QED BY <2>1, <2>2, <2>4, <2>5
<1>3. \A s \in Roots : \A j : TurnOf(s, j) = 2 * Rank(s, j) + (IF s = "internal" THEN 0 ELSE 1)
  BY DEF TurnOf
<1>. HIDE DEF Rank
<1>4. TurnOf(r, i) \in 0..(2 * MaxEntries + 1)
  <2>1. PICK a \in Nat : a = Rank(r, i) /\ a <= MaxEntries
    BY <1>1
  <2>2. MaxEntries \in Nat
    BY DEF StorageAssumption
  <2>3. TurnOf(r, i) = 2 * a + (IF r = "internal" THEN 0 ELSE 1)
    BY <1>3, <2>1
  <2>. QED BY <2>1, <2>2, <2>3
<1>5. ASSUME NEW s \in Roots, NEW j \in Kept(s), TurnOf(r, i) = TurnOf(s, j) PROVE r = s /\ i = j
  <2>1. PICK a \in Nat : a = Rank(r, i)
    BY <1>1
  <2>2. PICK b \in Nat : b = Rank(s, j)
    BY <1>1
  <2>3. 2 * a + (IF r = "internal" THEN 0 ELSE 1) = 2 * b + (IF s = "internal" THEN 0 ELSE 1)
    BY <1>3, <1>5, <2>1, <2>2
  <2>4. a = b /\ r = s
    BY <2>3 DEF Roots
  <2>e. a = Rank(s, i) /\ a = Rank(s, j)
    BY <2>1, <2>2, <2>4, Zenon
  <2>5. ~(i < j) /\ ~(j < i)
    <3>1. ASSUME i < j PROVE FALSE
      <4>1. Rank(s, i) < Rank(s, j) /\ i \in Kept(s)
        BY <1>2, <2>4, <3>1
      <4>2. a < a
        BY <2>e, <4>1, Zenon
      <4>. QED BY <4>2
    <3>2. ASSUME j < i PROVE FALSE
      <4>1. Rank(s, j) < Rank(s, i) /\ i \in Kept(s)
        BY <1>2, <2>4, <3>2
      <4>2. a < a
        BY <2>e, <4>1, Zenon
      <4>. QED BY <4>2
    <3>. QED BY <3>1, <3>2
  <2>6. i \in Nat /\ j \in Nat
    BY KeptAre
  <2>. QED BY <2>4, <2>5, <2>6
<1>. QED BY <1>4, <1>5

LEMMA ListedAre ==
  ASSUME StorageAssumption, storage \in [Roots -> Maps]
  PROVE  /\ Listed \subseteq 0..(2 * MaxEntries + 1) /\ 2 * MaxEntries + 1 \in Nat /\ Cardinality(Listed) <= MaxEntries
         /\ \A t \in Listed : \E r \in Roots : \E i \in Kept(r) : AtTurn(t) = <<r, i>>
         /\ \A r \in Roots : \A i \in Kept(r) : AtTurn(TurnOf(r, i)) = <<r, i>>
         /\ ~Cut => \A r \in Roots : \A i \in Kept(r) : TurnOf(r, i) \in Listed
<1>. DEFINE Taken == {TurnOf(p[1], p[2]) : p \in ByTurns}
<1>1. 2 * MaxEntries + 1 \in Nat /\ MaxEntries \in Nat
  BY DEF StorageAssumption
<1>2. \A p \in ByTurns : p[1] \in Roots /\ p[2] \in Kept(p[1]) /\ p = <<p[1], p[2]>>
  BY DEF ByTurns
<1>3. \A r \in Roots : \A i \in Kept(r) : <<r, i>> \in ByTurns
  BY DEF ByTurns
<1>4. Taken \subseteq 0..(2 * MaxEntries + 1)
  BY <1>2, TurnsDiffer
<1>5. Listed = FirstOf(Taken, MaxEntries)
  BY DEF Listed
<1>6. Listed \subseteq Taken /\ Cardinality(Listed) <= MaxEntries
  <2>. HIDE DEF Taken
  <2>. QED BY <1>1, <1>4, <1>5, FirstsAre
<1>7. ASSUME NEW r \in Roots, NEW i \in Kept(r) PROVE AtTurn(TurnOf(r, i)) = <<r, i>>
  <2>1. ASSUME NEW p \in ByTurns PROVE TurnOf(p[1], p[2]) = TurnOf(r, i) <=> p = <<r, i>>
    <3>1. p[1] \in Roots /\ p[2] \in Kept(p[1]) /\ p = <<p[1], p[2]>>
      BY <1>2
    <3>2. TurnOf(r, i) = TurnOf(p[1], p[2]) => r = p[1] /\ i = p[2]
      BY <3>1, TurnsDiffer
    <3>3. p = <<r, i>> => p[1] = r /\ p[2] = i
      OBVIOUS
    <3>. QED BY <3>1, <3>2, <3>3
  <2>2. <<r, i>> \in ByTurns
    BY <1>3
  <2>3. PICK q : q = <<r, i>>
    OBVIOUS
  <2>. QED BY <2>1, <2>2, <2>3 DEF AtTurn
<1>8. ASSUME NEW t \in Listed PROVE \E r \in Roots : \E i \in Kept(r) : AtTurn(t) = <<r, i>>
  <2>1. PICK p \in ByTurns : t = TurnOf(p[1], p[2])
    BY <1>6
  <2>. QED BY <1>2, <1>7, <2>1
<1>9. ASSUME ~Cut, NEW r \in Roots, NEW i \in Kept(r) PROVE TurnOf(r, i) \in Listed
  <2>1. PICK p \in ByTurns : p = <<r, i>> /\ p[1] = r /\ p[2] = i
    BY <1>3
  <2>2. TurnOf(p[1], p[2]) \in Listed
    BY <1>9 DEF Cut
  <2>. QED BY <2>1, <2>2
<1>. QED BY <1>1, <1>4, <1>6, <1>7, <1>8, <1>9

AfterListing == collection \in {"listed", "probed", "reported"}

StorageTypes ==
  /\ storage \in [Roots -> Maps] /\ entries \in Maps
  /\ candidates \subseteq DOMAIN entries /\ scanned \in Nat
  /\ collection \in {"idle", "resolved", "listed", "probed", "reported", "failed"}
  /\ collection \in {"idle", "resolved"} => DOMAIN matches = {}
  /\ collection # "listed" => candidates = {}

StorageLimits ==
  /\ Cardinality(DOMAIN entries) <= MaxEntries /\ scanned <= MaxTotal
  /\ IsFiniteSet(DOMAIN matches) /\ IsFiniteSet(candidates)
  /\ Cardinality(DOMAIN matches) + Cardinality(candidates) <= MaxProbes
  /\ \A q \in DOMAIN matches : \E t \in DOMAIN entries : q = entries[t].path

\* Files that differ in what they hold at most.
Alike(f, g) ==
  /\ f.root = g.root /\ f.path = g.path /\ f.kind = g.kind /\ f.size = g.size /\ f.text = g.text
  /\ f.open = g.open /\ f.outside = g.outside /\ f.deep = g.deep /\ f.line = g.line

\* A complete inventory has all that is still there, as it was listed, but for what
\* was kept from it.
Inventoried ==
  AfterListing /\ inventory = "completed" =>
    \A f \in OnDevice : ~f.deep /\ Id(f) \notin missed => \E t \in DOMAIN entries : Alike(f, entries[t]) /\ entries[t].line # "malformed"

\* A file that has held the canary since the listing holds it.
Held == \A f \in OnDevice : Id(f) \in holding => \E g \in OnDevice : Id(g) = Id(f) /\ g.canary

\* A search that goes well has looked into what it has behind it.
Searched ==
  AfterListing /\ scan = "completed" =>
    \A t \in DOMAIN entries : Eligible(entries[t]) =>
      t \in candidates \/ (entries[t].path \in DOMAIN matches /\ entries[t].line # "odd")

\* An answer about a file that has held the canary all the time is yes, if grep ran.
Answered == \A f \in OnDevice : Alone(f) /\ Id(f) \in holding \ missed /\ f.path \in DOMAIN matches => matches[f.path]

\* The report says it of every entry, if it has reached them all.
Written ==
  collection = "reported" =>
    /\ inventory = "completed" => \A t \in DOMAIN entries :
         /\ entries[t].kind = "file" /\ entries[t].line = "good" /\ Matched(entries[t]) => entries[t].path \in report.plaintext
         /\ entries[t].line = "good" /\ HasMode(entries[t]) /\ entries[t].open => entries[t].path \in report.open
         /\ entries[t].line # "good" => entries[t].path \in report.skipped
    /\ \A t \in DOMAIN entries : Eligible(entries[t]) /\ entries[t].path \notin DOMAIN matches =>
         {entries[t].path, "<remaining>"} \cap report.skipped # {}

StorageInv == StorageTypes /\ StorageLimits /\ Inventoried /\ Held /\ Searched /\ Answered /\ Written

LEMMA OnDeviceIs ==
  /\ \A f : f \in OnDevice <=> \E r \in Roots : \E i \in DOMAIN storage[r] : f = storage[r][i]
  /\ \A f : f \in OnDevice' <=> \E r \in Roots : \E i \in DOMAIN storage'[r] : f = storage'[r][i]
  BY DEF OnDevice, Range

LEMMA FilesAre ==
  ASSUME NEW f \in Files
  PROVE  /\ f.line \in {"good", "odd", "short_mode", "malformed"} /\ f.size \in Nat /\ f.canary \in BOOLEAN
         /\ [f EXCEPT !.canary = ~f.canary] \in Files /\ Alike([f EXCEPT !.canary = ~f.canary], f)
  BY DEF Files, Lines, Alike

LEMMA WritingLeaves ==
  ASSUME StorageTypes, AppWrites
  PROVE  /\ storage' \in [Roots -> Maps]
         /\ \E f \in OnDevice : /\ holding' = holding \ {Id(f)}
                                /\ \A g \in OnDevice' : g \in OnDevice \/ Alike(g, f)
                                /\ \A g \in OnDevice : Id(g) # Id(f) => g \in OnDevice'
<1>r. PICK r \in Roots : \E i \in DOMAIN storage[r] :
        /\ \/ storage[r][i].kind = "file" /\ storage' = [storage EXCEPT ![r][i].canary = ~@]
           \/ storage' = [storage EXCEPT ![r] = Restrict(@, DOMAIN @ \ {i})]
        /\ holding' = holding \ {Id(storage[r][i])}
  BY DEF AppWrites
<1>1. PICK i \in DOMAIN storage[r] :
        /\ \/ storage[r][i].kind = "file" /\ storage' = [storage EXCEPT ![r][i].canary = ~@]
           \/ storage' = [storage EXCEPT ![r] = Restrict(@, DOMAIN @ \ {i})]
        /\ holding' = holding \ {Id(storage[r][i])}
  BY <1>r
<1>2. PICK m \in Maps : m = storage[r]
  BY DEF StorageTypes
<1>3. PICK n \in Nat : DOMAIN m \subseteq 0..n
  BY MapsAre
<1>4. PICK f : f = m[i] /\ f \in Files
  BY <1>1, <1>2, MapsAre
<1>5. f \in OnDevice
  BY <1>1, <1>2, <1>4, OnDeviceIs
<1>6. m \in [DOMAIN m -> Files] /\ DOMAIN m \in SUBSET Nat
  BY <1>2 DEF Maps
<1>7. PICK w : /\ w \in Maps /\ storage' = [storage EXCEPT ![r] = w] /\ DOMAIN w \subseteq DOMAIN m
               /\ \A j \in DOMAIN w : w[j] = m[j] \/ Alike(w[j], f)
               /\ \A j \in DOMAIN m : j # i => j \in DOMAIN w /\ w[j] = m[j]
  <2>1. CASE storage' = [storage EXCEPT ![r][i].canary = ~@]
    <3>. DEFINE w == [m EXCEPT ![i] = [f EXCEPT !.canary = ~f.canary]]
    <3>1. w \in [DOMAIN m -> Files] /\ DOMAIN w = DOMAIN m
      BY <1>1, <1>2, <1>4, <1>6, FilesAre
    <3>2. storage' = [storage EXCEPT ![r] = w]
      BY <1>2, <1>4, <2>1
    <3>3. \A j \in DOMAIN w : w[j] = m[j] \/ Alike(w[j], f)
      BY <1>4, <1>6, FilesAre
    <3>4. \A j \in DOMAIN m : j # i => j \in DOMAIN w /\ w[j] = m[j]
      BY <1>6
    <3>. HIDE DEF w
    <3>5. w \in Maps
      BY <1>3, <3>1, IsMap
    <3>. QED BY <3>1, <3>2, <3>3, <3>4, <3>5
  <2>2. CASE storage' = [storage EXCEPT ![r] = Restrict(@, DOMAIN @ \ {i})]
    <3>. DEFINE w == [j \in DOMAIN m \ {i} |-> m[j]]
    <3>1. w \in [DOMAIN m \ {i} -> Files] /\ DOMAIN w = DOMAIN m \ {i} /\ DOMAIN m \ {i} \subseteq 0..n
      BY <1>3, <1>6
    <3>2. storage' = [storage EXCEPT ![r] = w]
      BY <1>2, <2>2 DEF Restrict
    <3>3. \A j \in DOMAIN m : j # i => j \in DOMAIN w /\ w[j] = m[j]
      OBVIOUS
    <3>4. \A j \in DOMAIN w : w[j] = m[j]
      OBVIOUS
    <3>. HIDE DEF w
    <3>5. w \in Maps
      BY <3>1, IsMap
    <3>. QED BY <3>1, <3>2, <3>3, <3>4, <3>5
  <2>. QED BY <1>1, <2>1, <2>2
<1>8. storage \in [Roots -> Maps] /\ storage' \in [Roots -> Maps] /\ storage'[r] = w /\ \A q \in Roots : q # r => storage'[q] = storage[q]
  BY <1>7 DEF StorageTypes
<1>9. ASSUME NEW g \in OnDevice' PROVE g \in OnDevice \/ Alike(g, f)
  <2>q. PICK q \in Roots : \E j \in DOMAIN storage'[q] : g = storage'[q][j]
    BY OnDeviceIs
  <2>1. PICK j \in DOMAIN storage'[q] : g = storage'[q][j]
    BY <2>q
  <2>2. CASE q = r
    <3>1. j \in DOMAIN w /\ g = w[j]
      BY <1>8, <2>1, <2>2
    <3>. QED BY <1>2, <1>7, <3>1, OnDeviceIs
  <2>3. CASE q # r
    BY <1>8, <2>1, <2>3, OnDeviceIs
  <2>. QED BY <2>2, <2>3
<1>10. ASSUME NEW g \in OnDevice, Id(g) # Id(f) PROVE g \in OnDevice'
  <2>q. PICK q \in Roots : \E j \in DOMAIN storage[q] : g = storage[q][j]
    BY OnDeviceIs
  <2>1. PICK j \in DOMAIN storage[q] : g = storage[q][j]
    BY <2>q
  <2>2. CASE q = r
    <3>1. j # i
      BY <1>2, <1>4, <1>10, <2>1, <2>2
    <3>2. j \in DOMAIN w /\ g = w[j]
      BY <1>2, <1>7, <2>1, <2>2, <3>1
    <3>. QED BY <1>8, <3>2, OnDeviceIs
  <2>3. CASE q # r
    BY <1>8, <2>1, <2>3, OnDeviceIs
  <2>. QED BY <2>2, <2>3
<1>. QED BY <1>1, <1>2, <1>4, <1>5, <1>8, <1>9, <1>10

LEMMA WritingKept ==
  ASSUME StorageInv, AppWrites
  PROVE  StorageInv'
<1>1. PICK f \in OnDevice : /\ holding' = holding \ {Id(f)}
                            /\ \A g \in OnDevice' : g \in OnDevice \/ Alike(g, f)
                            /\ \A g \in OnDevice : Id(g) # Id(f) => g \in OnDevice'
  BY WritingLeaves DEF StorageInv
<1>2. /\ entries' = entries /\ candidates' = candidates /\ matches' = matches /\ scanned' = scanned /\ scan' = scan
      /\ inventory' = inventory /\ collection' = collection /\ report' = report /\ missed' = missed
  BY DEF AppWrites
<1>3. \A g : Alike(g, f) => Id(g) = Id(f)
  BY DEF Alike, Id
<1>4. StorageTypes'
  BY <1>2, WritingLeaves DEF StorageInv, StorageTypes
<1>5. StorageLimits' /\ Searched' /\ Written'
  BY <1>2 DEF StorageInv, StorageLimits, Searched, Written, AfterListing, Matched
<1>6. Inventoried'
  <2>. SUFFICES ASSUME AfterListing, inventory = "completed", NEW g \in OnDevice', ~g.deep, Id(g) \notin missed
                PROVE  \E t \in DOMAIN entries : Alike(g, entries[t]) /\ entries[t].line # "malformed"
    BY <1>2 DEF Inventoried, AfterListing
  <2>1. CASE g \in OnDevice
    BY <2>1 DEF StorageInv, Inventoried
  <2>2. CASE Alike(g, f)
    <3>1. ~f.deep /\ Id(f) \notin missed
      BY <1>3, <2>2 DEF Alike
    <3>2. PICK t \in DOMAIN entries : Alike(f, entries[t]) /\ entries[t].line # "malformed"
      BY <3>1 DEF StorageInv, Inventoried
    <3>. QED BY <2>2, <3>2 DEF Alike
  <2>. QED BY <1>1, <2>1, <2>2
<1>7. \A g \in OnDevice' : Id(g) \in holding' => g \in OnDevice /\ Id(g) \in holding /\ Id(g) # Id(f)
  BY <1>1, <1>3
<1>8. Held'
  <2>. SUFFICES ASSUME NEW g \in OnDevice', Id(g) \in holding'
                PROVE  \E h \in OnDevice' : Id(h) = Id(g) /\ h.canary
    BY DEF Held
  <2>1. PICK h \in OnDevice : Id(h) = Id(g) /\ h.canary
    BY <1>7 DEF StorageInv, Held
  <2>. QED BY <1>1, <1>7, <2>1
<1>9. Answered'
  BY <1>2, <1>7 DEF StorageInv, Answered, Alone
<1>. QED BY <1>4, <1>5, <1>6, <1>8, <1>9 DEF StorageInv

LEMMA Unwritten ==
  ASSUME storage' = storage
  PROVE  OnDevice' = OnDevice
  BY DEF OnDevice

LEMMA ListingKept ==
  ASSUME StorageAssumption, StorageInv, ListStorage
  PROVE  StorageInv'
<1>1. /\ collection' = "listed" /\ storage' = storage /\ matches' = matches /\ scanned' = scanned /\ report' = report
      /\ storage \in [Roots -> Maps] /\ DOMAIN matches = {} /\ scanned \in Nat /\ scanned <= MaxTotal
      /\ OnDevice' = OnDevice /\ missed' = missed
  BY Unwritten DEF ListStorage, StorageInv, StorageTypes, StorageLimits
<1>2. PICK n \in Nat : n = 2 * MaxEntries + 1 /\ Listed \subseteq 0..n
  BY <1>1, ListedAre
<1>3. entries' = [t \in Listed |-> storage[AtTurn(t)[1]][AtTurn(t)[2]]]
  BY DEF ListStorage
<1>4. ASSUME NEW t \in Listed PROVE storage[AtTurn(t)[1]][AtTurn(t)[2]] \in Files
  <2>1. PICK r \in Roots : \E i \in Kept(r) : AtTurn(t) = <<r, i>>
    BY <1>1, ListedAre
  <2>2. PICK i \in Kept(r) : AtTurn(t) = <<r, i>>
    BY <2>1
  <2>3. storage[r][i] \in Files
    BY <1>1, KeptAre
  <2>. QED BY <2>2, <2>3
<1>5. entries' \in [Listed -> Files] /\ DOMAIN entries' = Listed
  BY <1>3, <1>4
<1>6. entries' \in Maps
  BY <1>2, <1>5, IsMap
<1>. DEFINE eligible == {t \in Listed : Eligible(entries'[t])}
<1>7. candidates' = FirstOf(eligible, MaxProbes) /\ scan' = IF candidates' # eligible THEN "partial" ELSE "completed"
  BY DEF ListStorage
<1>8. eligible \subseteq 0..n /\ eligible \subseteq Listed /\ MaxProbes \in Nat
      /\ \A t \in Listed : Eligible(entries'[t]) => t \in eligible
  BY <1>2 DEF StorageAssumption
<1>. HIDE DEF eligible
<1>9. candidates' \subseteq Listed /\ IsFiniteSet(candidates') /\ Cardinality(candidates') <= MaxProbes /\ Cardinality(candidates') \in Nat
  BY <1>7, <1>8, FirstsAre
<1>10. StorageTypes'
  BY <1>1, <1>5, <1>6, <1>9 DEF StorageTypes
<1>11. StorageLimits'
  <2>1. IsFiniteSet(DOMAIN matches) /\ Cardinality(DOMAIN matches) = 0
    BY <1>1, FS_EmptySet
  <2>2. Cardinality(Listed) <= MaxEntries
    BY <1>1, ListedAre
  <2>3. IsFiniteSet(DOMAIN matches') /\ Cardinality(DOMAIN matches') = 0 /\ DOMAIN matches' = {} /\ Cardinality(DOMAIN entries') <= MaxEntries
    BY <1>1, <1>5, <2>1, <2>2
  <2>. QED BY <1>1, <1>9, <2>3 DEF StorageLimits
<1>12. Inventoried'
  <2>. SUFFICES ASSUME inventory' = "completed", NEW f \in OnDevice, ~f.deep, Id(f) \notin missed
                PROVE  \E t \in DOMAIN entries' : Alike(f, entries'[t]) /\ entries'[t].line # "malformed"
    BY <1>1 DEF Inventoried
  <2>1. ~Cut
    BY DEF ListStorage
  <2>2. PICK r \in Roots : \E i \in DOMAIN storage[r] : f = storage[r][i]
    BY OnDeviceIs
  <2>3. PICK i \in DOMAIN storage[r] : f = storage[r][i]
    BY <2>2
  <2>4. Parsed(r) = Found(r) /\ Kept(r) = Parsed(r)
    BY <2>1 DEF Cut
  <2>5. i \in Kept(r) /\ f.line # "malformed"
    BY <1>1, <2>3, <2>4, KeptAre
  <2>6. PICK t : t = TurnOf(r, i) /\ t \in Listed /\ AtTurn(t) = <<r, i>>
    BY <1>1, <2>1, <2>5, ListedAre
  <2>7. entries'[t] = f
    BY <1>3, <2>3, <2>6
  <2>. QED BY <1>5, <2>5, <2>6, <2>7 DEF Alike
<1>13. Held'
  <2>1. holding' = {Id(f) : f \in {g \in OnDevice : g.canary}}
    BY DEF ListStorage
  <2>. QED BY <1>1, <2>1 DEF Held
<1>14. Searched'
  BY <1>1, <1>5, <1>7, <1>8 DEF Searched
<1>15. Answered' /\ Written'
  BY <1>1 DEF Answered, Written
<1>. QED BY <1>10, <1>11, <1>12, <1>13, <1>14, <1>15 DEF StorageInv

LEMMA AheadIs ==
  ASSUME StorageTypes, candidates # {}
  PROVE  Ahead \in candidates /\ Ahead \in DOMAIN entries /\ entries[Ahead] \in Files
<1>1. candidates \subseteq Nat
  <2>1. PICK n \in Nat : DOMAIN entries \subseteq 0..n
    BY MapsAre DEF StorageTypes
  <2>. QED BY <2>1 DEF StorageTypes
<1>2. PICK t \in candidates : \A u \in candidates : t <= u
  BY <1>1, LeastNumber
<1>3. Ahead \in candidates
  BY <1>2 DEF Ahead
<1>. QED BY <1>3, MapsAre DEF StorageTypes

LEMMA SearchKept ==
  ASSUME StorageAssumption, StorageInv, OutOfBudget \/ OutOfTime \/ RejectPath \/ ProbeFails \/ Probe
  PROVE  StorageInv'
<1>1. /\ candidates # {} /\ collection = "listed" /\ storage' = storage /\ entries' = entries /\ inventory' = inventory
      /\ holding' = holding /\ collection' = collection /\ missed \subseteq missed'
  BY DEF OutOfBudget, OutOfTime, RejectPath, ProbeFails, Probe, Answer, Stop, Fits, StorageInv, StorageTypes
<1>2. OnDevice' = OnDevice
  BY <1>1, Unwritten
<1>3. PICK f : f = entries[Ahead] /\ f \in Files /\ Ahead \in candidates /\ Ahead \in DOMAIN entries /\ f.size \in Nat
  BY <1>1, AheadIs, FilesAre DEF StorageInv
<1>4. Inventoried' /\ Held' /\ Written'
  BY <1>1, <1>2 DEF StorageInv, Inventoried, AfterListing, Held, Written
<1>5. /\ IsFiniteSet(candidates) /\ IsFiniteSet(DOMAIN matches) /\ candidates \subseteq DOMAIN entries
      /\ Cardinality(DOMAIN matches) \in Nat /\ Cardinality(candidates) \in Nat /\ scanned \in Nat
      /\ Cardinality(DOMAIN matches) + Cardinality(candidates) <= MaxProbes /\ scanned <= MaxTotal
      /\ {MaxProbes, MaxTotal} \subseteq Nat
  BY FS_CardinalityType DEF StorageInv, StorageLimits, StorageTypes, StorageAssumption
<1>6. /\ IsFiniteSet(Behind) /\ Cardinality(Behind) = Cardinality(candidates) - 1 /\ Behind \subseteq candidates
      /\ \A t \in candidates : t # Ahead => t \in Behind
  BY <1>3, <1>5, FS_RemoveElement DEF Behind
<1>7. IsFiniteSet({}) /\ Cardinality({}) = 0
  BY FS_EmptySet
<1>8. CASE ~Probe
  <2>1. /\ matches' = matches /\ candidates' \in {{}, Behind} /\ scan' # "completed"
        /\ scanned' \in Nat /\ scanned' <= MaxTotal
    BY <1>3, <1>5, <1>8 DEF OutOfBudget, OutOfTime, RejectPath, ProbeFails, Stop, Fits
  <2>2. IsFiniteSet(candidates') /\ Cardinality(candidates') \in Nat /\ Cardinality(candidates') <= Cardinality(candidates)
        /\ candidates' \subseteq DOMAIN entries
    <3>1. CASE candidates' = {}
      BY <1>5, <1>7, <3>1
    <3>2. CASE candidates' = Behind
      BY <1>5, <1>6, <3>2, FS_CardinalityType
    <3>. QED BY <2>1, <3>1, <3>2
  <2>3. StorageTypes'
    BY <1>1, <2>1, <2>2 DEF StorageInv, StorageTypes
  <2>4. StorageLimits'
    BY <1>1, <1>5, <2>1, <2>2 DEF StorageInv, StorageLimits
  <2>5. Searched' /\ Answered'
    BY <1>1, <1>2, <2>1 DEF StorageInv, Searched, Answered, Alone
  <2>. QED BY <1>4, <2>3, <2>4, <2>5 DEF StorageInv
<1>9. CASE Probe
  <2>r. PICK ran \in BOOLEAN : Answer(f, ran)
    BY <1>3, <1>9 DEF Probe
  <2>1. PICK found : found = (ran /\ \E g \in Same(f) : g.canary)
    OBVIOUS
  <2>2. /\ matches' = [q \in DOMAIN matches \cup {f.path} |-> IF q = f.path THEN found ELSE matches[q]]
        /\ candidates' = Behind /\ scanned' = scanned + f.size /\ scanned + f.size <= MaxTotal /\ scan' = scan /\ f.line # "odd"
        /\ (ran \/ Id(f) \in missed')
    BY <1>3, <1>9, <2>r, <2>1 DEF Probe, Answer, Fits
  <2>3. DOMAIN matches' = DOMAIN matches \cup {f.path}
    BY <2>2
  <2>4. /\ IsFiniteSet(DOMAIN matches') /\ Cardinality(DOMAIN matches') \in Nat
        /\ Cardinality(DOMAIN matches') <= Cardinality(DOMAIN matches) + 1
    <3>1. PICK D : D = DOMAIN matches /\ IsFiniteSet(D) /\ Cardinality(D) \in Nat
      BY <1>5
    <3>2. IsFiniteSet(D \cup {f.path}) /\ Cardinality(D \cup {f.path}) \in Nat /\ Cardinality(D \cup {f.path}) <= Cardinality(D) + 1
      <4>1. CASE f.path \in D
        <5>1. D \cup {f.path} = D
          BY <4>1
        <5>. QED BY <3>1, <5>1
      <4>2. CASE f.path \notin D
        <5>1. IsFiniteSet(D \cup {f.path}) /\ Cardinality(D \cup {f.path}) = Cardinality(D) + 1
          BY <3>1, <4>2, FS_AddElement
        <5>. QED BY <3>1, <5>1
      <4>. QED BY <4>1, <4>2
    <3>. QED BY <2>3, <3>1, <3>2
  <2>5. StorageTypes'
    BY <1>1, <1>5, <1>3, <1>6, <2>2 DEF StorageInv, StorageTypes
  <2>6. StorageLimits'
    <3>1. \A q \in DOMAIN matches' : \E t \in DOMAIN entries : q = entries[t].path
      BY <1>3, <2>3 DEF StorageInv, StorageLimits
    <3>2. Cardinality(DOMAIN matches') + Cardinality(candidates') <= MaxProbes
      <4>1. PICK a \in Nat, b \in Nat, c \in Nat : a = Cardinality(DOMAIN matches) /\ b = Cardinality(candidates) /\ c = Cardinality(DOMAIN matches')
        BY <1>5, <2>4
      <4>2. PICK d : d = Cardinality(candidates') /\ d = b - 1
        BY <1>6, <2>2, <4>1
      <4>3. a + b <= MaxProbes /\ c <= a + 1 /\ MaxProbes \in Nat
        BY <1>5, <2>4, <4>1
      <4>. QED BY <4>1, <4>2, <4>3
    <3>3. Cardinality(DOMAIN entries) <= MaxEntries
      BY DEF StorageInv, StorageLimits
    <3>. QED BY <1>1, <1>6, <2>2, <2>4, <3>1, <3>2, <3>3 DEF StorageLimits
  <2>7. Searched'
    <3>. SUFFICES ASSUME scan = "completed", NEW t \in DOMAIN entries, Eligible(entries[t])
                  PROVE  t \in Behind \/ (entries[t].path \in DOMAIN matches' /\ entries[t].line # "odd")
      BY <1>1, <2>2 DEF Searched
    <3>1. t \in candidates \/ (entries[t].path \in DOMAIN matches /\ entries[t].line # "odd")
      BY <1>1 DEF StorageInv, Searched, AfterListing
    <3>. QED BY <1>3, <1>6, <2>2, <2>3, <3>1
  <2>8. Answered'
    <3>. SUFFICES ASSUME NEW g \in OnDevice, Alone(g), Id(g) \in holding, Id(g) \notin missed', g.path \in DOMAIN matches'
                  PROVE  matches'[g.path]
      BY <1>1, <1>2 DEF Answered, Alone
    <3>n. Id(g) \notin missed
      BY <1>1
    <3>1. CASE g.path = f.path
      <4>1. Id(g) = Id(f)
        <5>1. f \in Range(entries)
          BY <1>3 DEF Range
        <5>. QED BY <3>1, <5>1 DEF Alone, Id
      <4>2. PICK h \in OnDevice : Id(h) = Id(g) /\ h.canary
        BY DEF StorageInv, Held
      <4>3. found
        BY <2>1, <2>2, <4>1, <4>2 DEF Same
      <4>. QED BY <2>2, <3>1, <4>3
    <3>2. CASE g.path # f.path
      <4>1. g.path \in DOMAIN matches
        BY <2>3, <3>2
      <4>2. matches[g.path]
        BY <3>n, <4>1 DEF StorageInv, Answered
      <4>. QED BY <2>2, <3>2, <4>1, <4>2
    <3>. QED BY <3>1, <3>2
  <2>. QED BY <1>4, <2>5, <2>6, <2>7, <2>8 DEF StorageInv
<1>. QED BY <1>8, <1>9

LEMMA InspectKept ==
  ASSUME StorageInv, Inspect
  PROVE  StorageInv'
<1>1. /\ collection = "probed" /\ collection' = "reported" /\ storage' = storage /\ entries' = entries /\ missed' = missed
      /\ candidates' = candidates /\ matches' = matches /\ scanned' = scanned /\ scan' = scan /\ holding' = holding
      /\ inventory' = "completed" => inventory = "completed" /\ Remaining = {}
  BY DEF Inspect
<1>2. OnDevice' = OnDevice
  BY <1>1, Unwritten
<1>3. StorageTypes' /\ StorageLimits' /\ Inventoried' /\ Held' /\ Searched' /\ Answered'
  BY <1>1, <1>2 DEF StorageInv, StorageTypes, StorageLimits, Inventoried, AfterListing, Held, Searched, Answered, Alone
<1>4. Written'
  <2>. DEFINE files == {entries[t] : t \in Inspected}
              plain == {f.path : f \in {g \in Artifacts : Matched(g)}}
              opened == {f.path : f \in {g \in Artifacts : HasMode(g) /\ g.open}}
              passed == {f.path : f \in {g \in files : PassedOver(g)}}
              left == passed \cup Remaining
  <2>1. report' = [plaintext |-> plain, open |-> opened, skipped |-> left]
    BY Zenon DEF Inspect
  <2>a. \A t \in Inspected : t \in DOMAIN entries /\ entries[t] \in files
    BY Zenon DEF Inspected
  <2>b. \A t \in Inspected : entries[t].kind # "symlink" /\ entries[t].line = "good" => entries[t] \in Artifacts
    BY <2>a, Zenon DEF Artifacts, Usable
  <2>c. \A f \in Artifacts : (Matched(f) => f.path \in plain) /\ (HasMode(f) /\ f.open => f.path \in opened)
    OBVIOUS
  <2>d. \A f \in files : PassedOver(f) => f.path \in passed
    <3>. HIDE DEF files
    <3>. QED OBVIOUS
  <2>e. Inspected \subseteq DOMAIN entries /\ (Remaining = {} => Inspected = DOMAIN entries)
        /\ (Inspected # DOMAIN entries => "<remaining>" \in Remaining)
    <3>1. PICK R : R = Inspected
      OBVIOUS
    <3>2. Inspected \subseteq DOMAIN entries
      BY <2>a
    <3>3. Remaining = IF DOMAIN entries = R THEN {} ELSE {"<remaining>"}
      BY <3>1 DEF Remaining
    <3>. QED BY <3>1, <3>2, <3>3
  <2>4. passed \subseteq left /\ Remaining \subseteq left
    OBVIOUS
  <2>. HIDE DEF files, plain, opened, passed, left
  <2>2. ASSUME NEW t \in Inspected
        PROVE  /\ entries[t].kind = "file" /\ entries[t].line = "good" /\ Matched(entries[t]) => entries[t].path \in plain
               /\ entries[t].line = "good" /\ HasMode(entries[t]) /\ entries[t].open => entries[t].path \in opened
               /\ entries[t].line # "good" => entries[t].path \in passed
               /\ Eligible(entries[t]) /\ entries[t].path \notin DOMAIN matches => entries[t].path \in passed
    <3>1. PassedOver(entries[t]) <=> (entries[t].kind = "symlink" \/ entries[t].line # "good"
                                     \/ (Eligible(entries[t]) /\ entries[t].path \notin DOMAIN matches))
      BY Zenon DEF PassedOver
    <3>2. HasMode(entries[t]) => entries[t].kind = "file"
      BY DEF HasMode
    <3>3. entries[t] \in files
      BY <2>a
    <3>4. entries[t].line # "good" \/ (Eligible(entries[t]) /\ entries[t].path \notin DOMAIN matches) => entries[t].path \in passed
      BY <2>d, <3>1, <3>3, Zenon
    <3>. QED BY <2>b, <2>c, <3>2, <3>4
  <2>3. Inspected \subseteq DOMAIN entries /\ (Remaining = {} => Inspected = DOMAIN entries)
        /\ (Inspected # DOMAIN entries => "<remaining>" \in left)
    BY <2>e, <2>4
  <2>5. report'.plaintext = plain /\ report'.open = opened /\ report'.skipped = left
    BY <2>1
  <2>6. ASSUME NEW t \in DOMAIN entries, Eligible(entries[t]), entries[t].path \notin DOMAIN matches
        PROVE  {entries[t].path, "<remaining>"} \cap left # {}
    <3>1. CASE t \in Inspected
      BY <2>2, <2>4, <2>6, <3>1
    <3>2. CASE t \notin Inspected
      BY <2>3, <3>2
    <3>. QED BY <3>1, <3>2
  <2>. QED BY <1>1, <2>2, <2>3, <2>4, <2>5, <2>6 DEF Written, Matched
<1>. QED BY <1>3, <1>4 DEF StorageInv

LEMMA StorageInvStep ==
  ASSUME StorageAssumption, StorageInv, [StorageNext]_storageVars
  PROVE  StorageInv'
<1>1. CASE AppWrites
  BY <1>1, WritingKept
<1>2. CASE ListStorage
  BY <1>2, ListingKept
<1>3. CASE OutOfBudget \/ OutOfTime \/ RejectPath \/ ProbeFails \/ Probe
  BY <1>3, SearchKept
<1>4. CASE Inspect
  BY <1>4, InspectKept
<1>5. CASE FindDirectory \/ ListFails \/ Probed \/ UNCHANGED storageVars
  <2>1. /\ storage' = storage /\ entries' = entries /\ inventory' = inventory /\ candidates' = candidates /\ matches' = matches
        /\ scanned' = scanned /\ scan' = scan /\ report' = report /\ holding' = holding
        /\ \/ collection' = collection
           \/ collection \in {"idle", "resolved"} /\ collection' \in {"resolved", "failed"}
           \/ collection = "listed" /\ candidates = {} /\ collection' = "probed"
        /\ (collection # "idle" => missed' = missed) /\ (collection' \in {"resolved", "failed"} => ~AfterListing')
        /\ (collection \in {"idle", "resolved"} => DOMAIN matches = {})
    BY <1>5 DEF AfterListing, StorageInv, StorageTypes,  FindDirectory, ListFails, Probed, storageVars
  <2>2. OnDevice' = OnDevice
    BY <2>1, Unwritten
  <2>3. StorageTypes' /\ StorageLimits'
    BY <2>1 DEF StorageInv, StorageTypes, StorageLimits
  <2>4. Inventoried' /\ Searched'
    BY <2>1, <2>2 DEF StorageInv, Inventoried, Searched, AfterListing
  <2>5. Held' /\ Answered' /\ Written'
    BY <2>1, <2>2 DEF StorageInv, Held, Answered, Alone, Written, Matched
  <2>. QED BY <2>3, <2>4, <2>5 DEF StorageInv
<1>. QED BY <1>1, <1>2, <1>3, <1>4, <1>5 DEF StorageNext

LEMMA StorageInvInit ==
  ASSUME StorageAssumption, PrivateStorageInit
  PROVE  StorageInv
<1>1. storage \in [Roots -> Seq(Files)]
  BY DEF StorageAssumption, PrivateStorageInit
<1>2. ASSUME NEW r \in Roots PROVE storage[r] \in Maps
  <2>1. PICK s \in Seq(Files) : s = storage[r]
    BY <1>1
  <2>2. Len(s) \in Nat /\ s \in [1..Len(s) -> Files] /\ 1..Len(s) \subseteq 0..Len(s)
    OBVIOUS
  <2>3. s \in Maps
    BY <2>2, IsMap
  <2>. QED BY <2>1, <2>3
<1>3. storage \in [Roots -> Maps]
  BY <1>1, <1>2
<1>4. DOMAIN entries = {} /\ DOMAIN matches = {} /\ entries \in Maps
  <2>1. DOMAIN entries = {} /\ DOMAIN matches = {} /\ entries = [t \in {} |-> t]
    BY DEF PrivateStorageInit
  <2>2. entries \in [{} -> Files] /\ {} \subseteq 0..0 /\ 0 \in Nat
    BY <2>1
  <2>. QED BY <2>1, <2>2, IsMap
<1>5. IsFiniteSet({}) /\ Cardinality({}) = 0
  BY FS_EmptySet
<1>6. StorageTypes
  BY <1>3, <1>4 DEF PrivateStorageInit, StorageTypes
<1>7. StorageLimits
  BY <1>4, <1>5 DEF PrivateStorageInit, StorageLimits, StorageAssumption
<1>8. Inventoried /\ Held /\ Searched /\ Answered /\ Written
  BY DEF PrivateStorageInit, Inventoried, Held, Searched, Answered, Written, AfterListing
<1>. QED BY <1>6, <1>7, <1>8 DEF StorageInv

LEMMA StorageInvCovers ==
  ASSUME StorageAssumption, StorageInv
  PROVE  ReportCovers
<1>1. StorageTypeOK
  <2>1. IsFiniteSet(DOMAIN matches) /\ IsFiniteSet(candidates) /\ MaxProbes \in Nat
        /\ Cardinality(DOMAIN matches) + Cardinality(candidates) <= MaxProbes
    BY DEF StorageInv, StorageLimits, StorageAssumption
  <2>2. Cardinality(DOMAIN matches) \in Nat /\ Cardinality(candidates) \in Nat
    BY <2>1, FS_CardinalityType
  <2>3. Cardinality(DOMAIN matches) <= MaxProbes
    BY <2>1, <2>2
  <2>4. DOMAIN matches \subseteq {f.path : f \in Range(entries)}
    BY DEF StorageInv, StorageLimits, Range
  <2>. QED BY <2>3, <2>4 DEF StorageTypeOK, StorageInv, StorageLimits
<1>2. ASSUME Reported, inventory = "completed", NEW f \in OnDevice, ~f.deep, Id(f) \notin missed
      PROVE  \E t \in DOMAIN entries : Alike(f, entries[t]) /\ entries[t].line # "malformed" /\ entries[t] \in Files
  BY <1>2, MapsAre DEF StorageInv, StorageTypes, Inventoried, AfterListing, Reported
<1>3. AbsenceIsEvidence
  <2>. SUFFICES ASSUME Reported, inventory = "completed", scan = "completed",
                       NEW f \in OnDevice, Eligible(f), ~f.deep, Alone(f), Id(f) \in holding, Id(f) \notin missed
                PROVE  f.path \in report.plaintext \/ (f.line = "short_mode" /\ f.path \in report.skipped)
    BY DEF AbsenceIsEvidence
  <2>1. PICK t \in DOMAIN entries : Alike(f, entries[t]) /\ entries[t].line # "malformed" /\ entries[t] \in Files
    BY <1>2
  <2>2. Eligible(entries[t]) /\ entries[t].path = f.path /\ entries[t].line = f.line /\ entries[t].kind = "file"
    BY <2>1 DEF Eligible, Alike
  <2>3. entries[t].path \in DOMAIN matches /\ entries[t].line # "odd"
    BY <2>2 DEF StorageInv, Searched, StorageTypes, AfterListing, Reported
  <2>4. Matched(entries[t])
    BY <2>2, <2>3 DEF Matched, StorageInv, Answered
  <2>5. entries[t].line \in {"good", "short_mode"}
    BY <2>1, <2>3, FilesAre
  <2>. QED BY <2>2, <2>4, <2>5 DEF StorageInv, Written, Reported
<1>4. ModesAllSeen
  <2>. SUFFICES ASSUME Reported, inventory = "completed", NEW f \in OnDevice, HasMode(f), ~f.deep, f.open, Id(f) \notin missed
                PROVE  f.path \in report.open \cup report.skipped
    BY DEF ModesAllSeen
  <2>1. PICK t \in DOMAIN entries : Alike(f, entries[t])
    BY <1>2
  <2>2. HasMode(entries[t]) /\ entries[t].open /\ entries[t].path = f.path
    BY <2>1 DEF HasMode, Alike
  <2>. QED BY <2>2 DEF StorageInv, Written, Reported
<1>5. UnsearchedIsSaid
  <2>. SUFFICES ASSUME Reported, NEW t \in DOMAIN entries, Eligible(entries[t]), entries[t].path \notin DOMAIN matches
                PROVE  {entries[t].path, "<remaining>"} \cap report.skipped # {} /\ scan # "completed"
    BY DEF UnsearchedIsSaid, Range
  <2>1. {entries[t].path, "<remaining>"} \cap report.skipped # {}
    BY DEF StorageInv, Written, Reported
  <2>2. scan # "completed"
    BY DEF StorageInv, Searched, StorageTypes, AfterListing, Reported
  <2>. QED BY <2>1, <2>2
<1>. QED BY <1>1, <1>3, <1>4, <1>5 DEF ReportCovers

\* The report of a search of the app's storage covers what it says: if both its
\* parts are completed, no canary that was there from the listing on is missing, and
\* every mode was looked at, in all that find printed and grep opened, or it says that
\* the file was skipped; what was not searched is listed; and no limit is exceeded.
\* This holds of every storage, of any size, whatever the app writes meanwhile, and
\* whatever the shell keeps back without a word (list_storage, probe_exact_canary and
\* inspect in private_storage.py).
THEOREM ReportsCover ==
  ASSUME StorageAssumption
  PROVE  StorageSpec => []ReportCovers
<1>1. PrivateStorageInit => StorageInv
  BY StorageInvInit
<1>2. StorageInv /\ [StorageNext]_storageVars => StorageInv'
  BY StorageInvStep
<1>3. StorageInv => ReportCovers
  BY StorageInvCovers
<1>. QED BY <1>1, <1>2, <1>3, PTL DEF StorageSpec
=============================================================================
