------------------------ MODULE ExplorationLoop_proofs ------------------------
(***************************************************************************)
(* Proofs about AndroidExplorer.run: for every app, manifest and           *)
(* configuration, an exploration stays within its limits, never repeats a  *)
(* tap whose outcome nobody knows, and tells the truth in its result.      *)
(*                                                                         *)
(* The invariant has a part for each of these: the room that a form still  *)
(* needs in the quotas, the place of the loop in the stack of screens, the *)
(* action in hand, the targets without a verdict, the honesty of the flag  *)
(* "partial", and the canaries whose outcome is still open.                *)
(***************************************************************************)
EXTENDS ExplorationLoop, SequenceTheorems, FiniteSetTheorems, TLAPS

(***************************************************************************)
(* The invariant                                                           *)
(***************************************************************************)
Navs == {"navigate", "observeNav", "recoverNav"}
Over == {"cleanup", "done"}
Before == {"start", "first"}
Failing == {"recover", "recoverNav"}

\* What can be the action in hand.
Acts == [node : (UNION {Nodes[s] : s \in Screens}) \cup {NoNode},
         kind : {"none", "input", "tap", "long_tap"}, form : BOOLEAN]

\* What else there is to say of types.
Shape ==
  /\ ExplorerTypeOK
  /\ act \in Acts /\ IsFiniteSet(visited)
  /\ pc \notin Before \cup Over => current \in Screens
  /\ pc \in Navs => target \in Targets
  /\ pc \notin Failing \cup Over => failures < MaxFailures

\* A form from its first field to the observation of its retry.
Forms == {"carrier", "support", "hideForm", "tap", "observeTap", "retryInput", "retryHide", "retryTap",
     "observeRetry"}

\* There is room for the actions that a form still asks for.
Budget ==
  /\ attempted <= MaxActions
  /\ pc \in PerformLabels \cup {"choose"} => attempted < MaxActions
  /\ pc \in {"carrier", "support"} => attempted + 3 <= MaxActions
  /\ pc = "hideForm" => attempted + 2 <= MaxActions

\* Only a tap below the limit of depth, and a navigation from the bottom, lead deeper.
Depth ==
  /\ Len(history) <= MaxDepth
  /\ pc \in Forms => Len(history) < MaxDepth
  /\ pc \in Navs => history = <<>>
  /\ Cardinality(visited) <= MaxStates

Key == <<current, act.node.id, act.kind>>

\* What is being tapped was noted as executed, and its outcome was never in doubt.
Known ==
  /\ unknown \subseteq executed
  /\ pc \in Forms \ {"observeRetry"} => Key \in executed /\ Key \notin unknown

StaleHasCause == current # seen => \E t \in Targets \ Links : nav[t] = "blocked"

\* Every target without a verdict waits, or is the one in hand.
Waiting ==
  /\ \A t \in pending : nav[t] = "attempted"
  /\ pc \in Navs => target \notin pending /\ nav[target] = "attempted"
  /\ pc \in Before => visited = {}
  /\ pc \notin Before \cup Over =>
       \A t \in Targets : nav[t] = "attempted" => t \in pending \/ (pc \in Navs /\ t = target)
  /\ pc = "idle" => pending = {} \/ formPending
  /\ pc = "choose" => pending = {} \/ history # <<>> \/ formPending
  /\ pc \in Over /\ visited # {} =>
       \A t \in Targets : nav[t] = "attempted" =>
         \/ termination \in {"max_runtime", "package_boundary"} /\ t = target
         \/ termination = "coverage_plateau" /\ formPending

Honest ==
  /\ failures > 0 => partial
  /\ pc \in Over /\ ~partial =>
       termination \in {"stop_requested", "max_runtime", "max_actions", "max_states", "coverage_plateau", "raised"}
  /\ pc = "done" /\ ~partial => ~workspace

Bit(p) == IF p THEN 1 ELSE 0
\* A canary was counted as an attempt and its outcome is still open.
InFlight ==
  \/ pc \in {"support", "hideForm"}
  \/ pc \in {"tap", "observeTap"} /\ act.form
  \/ pc = "observeNav" /\ target \in Links /\ Canary
Accounts ==
  /\ pc \in {"carrier", "support", "hideForm"} => act.form
  /\ canary["deliveries"] + canary["failures"] + Bit(InFlight) <= canary["attempts"] + canary["recovered"]
  /\ canary["recovered"] + Bit(pc = "recoverNav") <= failures

IInv == Shape /\ Budget /\ Depth /\ Known /\ StaleHasCause /\ Waiting /\ Honest /\ Accounts

(***************************************************************************)
(* Lemmas about the operators of the model                                 *)
(***************************************************************************)

\* The constants are what ExplorerAssumption says.
LEMMA Constants ==
  /\ MaxActions \in Nat \ {0} /\ MaxStates \in Nat \ {0} /\ MaxDepth \in Nat \ {0}
  /\ MaxFailures \in Nat \ {0} /\ MaxTime \in Nat \ {0}
  /\ NoScreen \notin Screens /\ Links \subseteq Targets /\ NoTarget \notin Targets /\ Canary \in BOOLEAN
  BY ExplorerAssumption DEF ExplorerAssumption

\* What a screen offers is an action.
LEMMA OfferedFacts ==
  ASSUME NEW s \in Screens, NEW a \in Offered(s)
  PROVE  a \in Acts /\ ~a.form /\ a.kind # "none"
BY DEF Offered, Acts

\* What may still be chosen, whatever the observers have heard of.
Eligible ==
  {a \in Offered(current) : /\ <<current, a.node.id, a.kind>> \notin executed
                            /\ Len(history) >= MaxDepth => a.kind = "input"}

LEMMA CandidatesAreEligible == \A heard : Candidates(current, heard) \subseteq Eligible
BY DEF Candidates, Eligible

FormOf(a, b) == [a EXCEPT !.form = b]

\* An action becomes a form, and stays the action it was.
LEMMA FormFacts ==
  ASSUME NEW a \in Acts, NEW b \in BOOLEAN
  PROVE  FormOf(a, b) \in Acts /\ FormOf(a, b).node = a.node /\ FormOf(a, b).kind = a.kind /\ FormOf(a, b).form = b
<1>1. FormOf(a, b) \in Acts
  BY DEF FormOf, Acts
<1>2. FormOf(a, b).node = a.node /\ FormOf(a, b).kind = a.kind
  BY DEF FormOf, Acts
<1>3. FormOf(a, b).form = b
  BY DEF FormOf, Acts
<1>. QED BY <1>1, <1>2, <1>3

\* No action in hand is one of the values.
LEMMA NoActFacts == NoAct \in Acts
BY DEF NoAct, Acts

\* Two entries of a function changed.
LEMMA TwoChanges ==
  ASSUME NEW T, NEW c \in [T -> Nat], NEW k \in T, NEW l \in T, k # l, NEW m \in Nat, NEW n \in Nat
  PROVE  /\ [c EXCEPT ![k] = m, ![l] = n] \in [T -> Nat]
         /\ [c EXCEPT ![k] = m, ![l] = n][k] = m /\ [c EXCEPT ![k] = m, ![l] = n][l] = n
         /\ \A j \in T : j # k /\ j # l => [c EXCEPT ![k] = m, ![l] = n][j] = c[j]
<1>. DEFINE e == [c EXCEPT ![k] = m]
<1>1. e \in [T -> Nat] /\ e[k] = m /\ \A j \in T : j # k => e[j] = c[j]
  OBVIOUS
<1>. HIDE DEF e
<1>2. [e EXCEPT ![l] = n] \in [T -> Nat] /\ [e EXCEPT ![l] = n][l] = n
      /\ \A j \in T : j # l => [e EXCEPT ![l] = n][j] = e[j]
  BY <1>1
<1>3. [c EXCEPT ![k] = m, ![l] = n] = [e EXCEPT ![l] = n]
  BY DEF e
<1>. QED BY <1>1, <1>2, <1>3

Tallies == {"attempts", "failures", "deliveries", "recovered"}
\* The canary counts go from c to d.
Increased(c, d, a, f, l, r) ==
  /\ d \in [Tallies -> Nat]
  /\ d["attempts"] = c["attempts"] + a /\ d["failures"] = c["failures"] + f
  /\ d["deliveries"] = c["deliveries"] + l /\ d["recovered"] = c["recovered"] + r

\* What EXCEPT does to the counts of canaries.
LEMMA Increments ==
  ASSUME NEW c \in [Tallies -> Nat], NEW a \in {0, 1}, NEW f \in {0, 1}
  PROVE  /\ Increased(c, [c EXCEPT !["attempts"] = @ + 1], 1, 0, 0, 0)
         /\ Increased(c, [c EXCEPT !.attempts = @ + 1], 1, 0, 0, 0)
         /\ Increased(c, [c EXCEPT !.failures = @ + 1], 0, 1, 0, 0)
         /\ Increased(c, [c EXCEPT !.deliveries = @ + 1], 0, 0, 1, 0)
         /\ Increased(c, [c EXCEPT !.deliveries = @ + 1, !.recovered = @ + 1], 0, 0, 1, 1)
         /\ Increased(c, c, 0, 0, 0, 0)
         /\ Increased(c, [c EXCEPT !.attempts = @ + 1, !.failures = @ + f], 1, f, 0, 0)
<1>. USE DEF Increased, Tallies
<1>1. Increased(c, [c EXCEPT !["attempts"] = @ + 1], 1, 0, 0, 0)
  OBVIOUS
<1>2. Increased(c, [c EXCEPT !.attempts = @ + 1], 1, 0, 0, 0)
  OBVIOUS
<1>3. Increased(c, [c EXCEPT !.failures = @ + 1], 0, 1, 0, 0)
  OBVIOUS
<1>4. Increased(c, [c EXCEPT !.deliveries = @ + 1], 0, 0, 1, 0)
  OBVIOUS
<1>5. Increased(c, [c EXCEPT !.deliveries = @ + 1, !.recovered = @ + 1], 0, 0, 1, 1)
  <2>. DEFINE d == [c EXCEPT !["deliveries"] = c["deliveries"] + 1, !["recovered"] = c["recovered"] + 1]
  <2>1. [c EXCEPT !.deliveries = @ + 1, !.recovered = @ + 1] = d
    OBVIOUS
  <2>2. c["deliveries"] + 1 \in Nat /\ c["recovered"] + 1 \in Nat
    OBVIOUS
  <2>3. d \in [Tallies -> Nat] /\ d["deliveries"] = c["deliveries"] + 1 /\ d["recovered"] = c["recovered"] + 1
        /\ \A j \in Tallies : j # "deliveries" /\ j # "recovered" => d[j] = c[j]
    BY <2>2, TwoChanges
  <2>. HIDE DEF d
  <2>. QED BY <2>1, <2>3
<1>6. Increased(c, c, 0, 0, 0, 0)
  OBVIOUS
<1>7. Increased(c, [c EXCEPT !.attempts = @ + 1, !.failures = @ + f], 1, f, 0, 0)
  <2>. DEFINE d == [c EXCEPT !["attempts"] = c["attempts"] + 1, !["failures"] = c["failures"] + f]
  <2>1. [c EXCEPT !.attempts = @ + 1, !.failures = @ + f] = d
    OBVIOUS
  <2>2. c["attempts"] + 1 \in Nat /\ c["failures"] + f \in Nat
    OBVIOUS
  <2>3. d \in [Tallies -> Nat] /\ d["attempts"] = c["attempts"] + 1 /\ d["failures"] = c["failures"] + f
        /\ \A j \in Tallies : j # "attempts" /\ j # "failures" => d[j] = c[j]
    BY <2>2, TwoChanges
  <2>. HIDE DEF d
  <2>. QED BY <2>1, <2>3
<1>. HIDE DEF Increased
<1>. QED BY <1>1, <1>2, <1>3, <1>4, <1>5, <1>6, <1>7

\* What an action that fails does to the counts.
LEMMA FailureCounts ==
  ASSUME NEW c \in [Tallies -> Nat], NEW p, NEW q
  PROVE  Increased(c, [c EXCEPT !.attempts = IF p THEN @ + 1 ELSE @, !.failures = IF q THEN @ + 1 ELSE @],
                   IF p THEN 1 ELSE 0, IF q THEN 1 ELSE 0, 0, 0)
<1>. DEFINE m == IF p THEN c["attempts"] + 1 ELSE c["attempts"]
<1>. DEFINE n == IF q THEN c["failures"] + 1 ELSE c["failures"]
<1>. DEFINE d == [c EXCEPT !["attempts"] = m, !["failures"] = n]
<1>0. "attempts" \in Tallies /\ "failures" \in Tallies /\ "deliveries" \in Tallies /\ "recovered" \in Tallies
  BY DEF Tallies
<1>1. [c EXCEPT !.attempts = IF p THEN @ + 1 ELSE @, !.failures = IF q THEN @ + 1 ELSE @] = d
  BY DEF Tallies
<1>2. m \in Nat /\ n \in Nat /\ m = c["attempts"] + (IF p THEN 1 ELSE 0) /\ n = c["failures"] + (IF q THEN 1 ELSE 0)
  BY <1>0
<1>. HIDE DEF m, n
<1>3. d \in [Tallies -> Nat] /\ d["attempts"] = m /\ d["failures"] = n
      /\ \A j \in Tallies : j # "attempts" /\ j # "failures" => d[j] = c[j]
  BY <1>0, <1>2, TwoChanges
<1>. HIDE DEF d
<1>4. d["deliveries"] = c["deliveries"] + 0 /\ d["recovered"] = c["recovered"] + 0
  BY <1>0, <1>3
<1>5. Increased(c, d, IF p THEN 1 ELSE 0, IF q THEN 1 ELSE 0, 0, 0)
  BY <1>2, <1>3, <1>4 DEF Increased
<1>. QED BY <1>1, <1>5

\* Going back and going deeper.
LEMMA PrefixFacts ==
  ASSUME NEW S, NEW s, NEW n \in Nat, \A i \in 1..n : s[i] \in S
  PROVE  SubSeq(s, 1, n) \in Seq(S) /\ Len(SubSeq(s, 1, n)) = n
<1>1. /\ SubSeq(s, 1, n) \in Seq(S)
      /\ Len(SubSeq(s, 1, n)) = IF 1 <= n THEN n - 1 + 1 ELSE 0
      /\ \A i \in 1..(n - 1 + 1) : SubSeq(s, 1, n)[i] = s[1 + i - 1]
  BY SubSeqProperties
<1>. QED BY <1>1

\* Going back leaves one screen less.
LEMMA Shorter ==
  ASSUME NEW S, NEW s \in Seq(S), s # <<>>
  PROVE  Front(s) \in Seq(S) /\ Len(Front(s)) = Len(s) - 1
<1>. DEFINE n == Len(s) - 1
<1>1. n \in Nat /\ \A i \in 1..n : s[i] \in S
  OBVIOUS
<1>2. Front(s) = SubSeq(s, 1, n)
  BY DEF Front
<1>. HIDE DEF n
<1>3. Front(s) \in Seq(S) /\ Len(Front(s)) = n
  BY <1>1, <1>2, PrefixFacts
<1>. QED BY <1>3 DEF n

\* Going deeper leaves one screen more.
LEMMA Deeper ==
  ASSUME NEW S, NEW s \in Seq(S), NEW x \in S
  PROVE  Append(s, x) \in Seq(S) /\ Len(Append(s, x)) = Len(s) + 1
OBVIOUS

(***************************************************************************)
(* What the steps do to the canaries                                       *)
(***************************************************************************)
USE DEF counters, graph, device, navigation, step, Goto

\* What an action adds to the counts of canaries.
Tally(a, f, l, r) == Increased(canary, canary', a, f, l, r)
LinkInHand == target \in Links /\ Canary

\* The counts have a type of their own.
LEMMA CanaryTyped == ASSUME Shape PROVE canary \in [Tallies -> Nat]
BY DEF Shape, ExplorerTypeOK, Tallies

\* Most steps count no canary.
LEMMA StartTally ==
  ASSUME Shape, Start \/ First \/ Limit \/ Visit \/ Choose \/ ObserveOther \/ Idle \/ Process \/ Cleanup
             \/ AppMoves \/ TimePasses
  PROVE  Tally(0, 0, 0, 0)
<1>1. canary' = canary
  BY DEF Start, First, Limit, Visit, Choose, ObserveOther, Idle, Process, Cleanup, AppMoves, TimePasses
<1>. QED BY <1>1, CanaryTyped, Increments DEF Tally

\* A carrier that was typed is an attempt.
LEMMA PerformedTally == ASSUME Shape, Performed PROVE Tally(Bit(pc = "carrier"), 0, 0, 0)
<1>1. IF pc = "carrier" THEN canary' = [canary EXCEPT !["attempts"] = @ + 1] ELSE canary' = canary
  BY DEF Performed, Count
<1>. QED BY <1>1, CanaryTyped, Increments DEF Tally, Bit

\* A step of a form that fails is a failure of its canary.
LEMMA NotPerformedTally == ASSUME Shape, NotPerformed PROVE Tally(Bit(pc = "carrier"), Bit(CanaryStep), 0, 0)
BY CanaryTyped, FailureCounts DEF NotPerformed, Tally, Bit

\* A recovery that finds the target open counts a delivery after all.
LEMMA RecoverTally ==
  ASSUME Shape, Recover
  PROVE  \/ Tally(0, 0, 0, 0)
         \/ Tally(0, 0, 1, 1) /\ pc = "recoverNav" /\ pc' = "top"
<1>1. \/ canary' = canary
      \/ canary' = [canary EXCEPT !.deliveries = @ + 1, !.recovered = @ + 1] /\ pc = "recoverNav" /\ pc' = "top"
  BY DEF Recover
<1>. QED BY <1>1, CanaryTyped, Increments DEF Tally

\* A link that is opened is an attempt, and a failure when the action fails.
LEMMA NavigateTally ==
  ASSUME Shape, Navigate
  PROVE  /\ pc' = "recoverNav" => failures' = failures + 1
         /\ pc' # "recoverNav" => failures' = failures
         /\ Tally(Bit(LinkInHand), Bit(LinkInHand /\ pc' = "recoverNav"), 0, 0)
<1>1. /\ (pc' = "recoverNav" /\ failures' = failures + 1) \/ (pc' # "recoverNav" /\ failures' = failures)
      /\ failures \in Nat
  BY Constants DEF Navigate, Shape, ExplorerTypeOK
<1>2. failures' - failures = Bit(pc' = "recoverNav") /\ failures' - failures \in {0, 1}
  BY <1>1 DEF Bit
<1>3. canary' = IF ~LinkInHand THEN canary ELSE [canary EXCEPT !.attempts = @ + 1,
     !.failures = @ + (failures' - failures)]
  BY Constants DEF Navigate, LinkInHand
<1>4. CASE ~LinkInHand
  BY <1>1, <1>3, <1>4, CanaryTyped, Increments DEF Tally, Bit
<1>5. CASE LinkInHand
  <2>1. Tally(1, failures' - failures, 0, 0)
    BY <1>2, <1>3, <1>5, CanaryTyped, Increments DEF Tally
  <2>. QED BY <1>1, <1>2, <1>5, <2>1 DEF Bit
<1>. QED BY <1>4, <1>5

\* A form whose tap was observed is delivered.
LEMMA ObserveTapTally == ASSUME Shape, ObserveTap PROVE Tally(0, 0, Bit(act.form), 0)
<1>1. canary' = IF act.form THEN [canary EXCEPT !.deliveries = @ + 1] ELSE canary
  BY DEF ObserveTap
<1>. QED BY <1>1, CanaryTyped, Increments DEF Tally, Bit

\* A link whose navigation was observed is delivered.
LEMMA ObserveNavTally == ASSUME Shape, ObserveNav PROVE Tally(0, 0, Bit(LinkInHand), 0)
<1>1. canary' = IF LinkInHand THEN [canary EXCEPT !.deliveries = @ + 1] ELSE canary
  BY DEF ObserveNav, LinkInHand
<1>. QED BY <1>1, CanaryTyped, Increments DEF Tally, Bit

\* An observation that fails is a failure of the form.
LEMMA UnobservedTally ==
  ASSUME Shape, Unobserved
  PROVE  Tally(0, 0, 0, 0) \/ (Tally(0, 1, 0, 0) /\ pc = "observeTap" /\ act.form)
<1>1. \/ canary' = canary
      \/ canary' = [canary EXCEPT !.failures = @ + 1] /\ pc = "observeTap" /\ act.form
  BY DEF Unobserved
<1>. QED BY <1>1, CanaryTyped, Increments DEF Tally

\* The clock may stop a carrier or a link that was counted as an attempt.
LEMMA DeadlineTally == ASSUME Shape, DeadlineReached PROVE Tally(0, 0, 0, 0) \/ Tally(1, 0, 0, 0)
<1>1. canary' = canary \/ canary' = [canary EXCEPT !.attempts = @ + 1]
  BY DEF DeadlineReached
<1>. QED BY <1>1, CanaryTyped, Increments DEF Tally

\* The counts of canaries stay natural numbers.
LEMMA CanaryShape == ASSUME Shape, ExplorerNext PROVE canary' \in [Tallies -> Nat]
<1>1. \E a, f, l, r \in {0, 1} : Tally(a, f, l, r)
  <2>1. CASE Performed
    BY <2>1, PerformedTally DEF Bit
  <2>2. CASE NotPerformed
    BY <2>2, NotPerformedTally DEF Bit
  <2>3. CASE Recover
    BY <2>3, RecoverTally
  <2>4. CASE Navigate
    BY <2>4, NavigateTally DEF Bit
  <2>5. CASE ObserveTap
    BY <2>5, ObserveTapTally DEF Bit
  <2>6. CASE ObserveNav
    BY <2>6, ObserveNavTally DEF Bit
  <2>7. CASE Unobserved
    BY <2>7, UnobservedTally
  <2>8. CASE DeadlineReached
    BY <2>8, DeadlineTally
  <2>. QED BY <2>1, <2>2, <2>3, <2>4, <2>5, <2>6, <2>7, <2>8, StartTally DEF ExplorerNext, RunStep
<1>. QED BY <1>1 DEF Tally, Increased

(***************************************************************************)
(* Types                                                                   *)
(***************************************************************************)
\* The places a step leaves are places, and outside the ends of the run the loop has a screen.
LEMMA PlacesShape ==
  ASSUME Shape, ExplorerNext
  PROVE  /\ place' \in Screens \cup Elsewhere /\ time' \in 0..MaxTime
         /\ current' \in Screens \cup {NoScreen} /\ seen' \in Screens \cup {NoScreen}
         /\ pc' \notin Before \cup Over => current' \in Screens
<1>1. CASE Start \/ Idle \/ AppMoves \/ TimePasses \/ Cleanup
  BY <1>1, Constants DEF Start, Idle, AppMoves, TimePasses, Cleanup, Shape, ExplorerTypeOK, Before, Over, Elsewhere
<1>2. CASE Limit \/ DeadlineReached \/ Process \/ First \/ Unobserved
  BY <1>2 DEF Limit, DeadlineReached, Process, First, Unobserved, Shape, ExplorerTypeOK, Before, Over,
      Elsewhere, Stop, Sees, StopAfter
<1>3. CASE Visit \/ Choose
  BY <1>3 DEF Visit, Choose, Shape, ExplorerTypeOK, Before, Over
<1>4. CASE Performed \/ NotPerformed \/ Recover \/ Navigate
  BY <1>4 DEF Performed, NotPerformed, Recover, Navigate, Shape, ExplorerTypeOK, Before, Over, PerformLabels, Sees
<1>5. CASE ObserveTap \/ ObserveOther \/ ObserveNav
  BY <1>5 DEF ObserveTap, ObserveOther, ObserveNav, Shape, ExplorerTypeOK, Before, Over, SeesAfter, Sees
<1>. QED BY <1>1, <1>2, <1>3, <1>4, <1>5 DEF ExplorerNext, RunStep

\* Every step goes to a label, and a run ends for a reason.
LEMMA LabelsShape ==
  ASSUME Shape, ExplorerNext
  PROVE  pc' \in ExplorerLabels /\ termination' \in Reasons
<1>1. CASE Start \/ Idle \/ AppMoves \/ TimePasses \/ Cleanup
  BY <1>1 DEF Start, Idle, AppMoves, TimePasses, Cleanup, Shape, ExplorerTypeOK, ExplorerLabels, Reasons
<1>2. CASE Limit \/ DeadlineReached \/ Process \/ First \/ Unobserved
  BY <1>2 DEF Limit, DeadlineReached, Process, First, Unobserved, Shape, ExplorerTypeOK, ExplorerLabels,
      ObserveLabels, Reasons, Stop, StopAfter
<1>3. CASE Visit \/ Choose
  BY <1>3 DEF Visit, Choose, Shape, ExplorerTypeOK, ExplorerLabels, PerformLabels
<1>4. CASE Performed \/ NotPerformed \/ Recover \/ Navigate
  BY <1>4 DEF Performed, NotPerformed, Recover, Navigate, Shape, ExplorerTypeOK, ExplorerLabels, PerformLabels,
      ObserveLabels, Reasons, NextForm, NextRetry, StopAfter, Stop
<1>5. CASE ObserveTap \/ ObserveOther \/ ObserveNav
  BY <1>5 DEF ObserveTap, ObserveOther, ObserveNav, Shape, ExplorerTypeOK, ExplorerLabels, PerformLabels
<1>. QED BY <1>1, <1>2, <1>3, <1>4, <1>5 DEF ExplorerNext, RunStep

\* Navigations have a target.
LEMMA TargetsShape ==
  ASSUME Shape, ExplorerNext
  PROVE  /\ target' \in Targets \cup {NoTarget} /\ pending' \subseteq Targets
         /\ pc' \in Navs => target' \in Targets
<1>1. CASE Start \/ Idle \/ AppMoves \/ TimePasses \/ Cleanup
  BY <1>1 DEF Start, Idle, AppMoves, TimePasses, Cleanup, Shape, ExplorerTypeOK, Navs
<1>2. CASE Limit \/ DeadlineReached \/ Process \/ First \/ Unobserved
  BY <1>2 DEF Limit, DeadlineReached, Process, First, Unobserved, Shape, ExplorerTypeOK, Navs, Stop, StopAfter
<1>3. CASE Visit \/ Choose
  BY <1>3 DEF Visit, Choose, Shape, ExplorerTypeOK, Navs
<1>4. CASE Performed \/ NotPerformed \/ Recover \/ Navigate
  BY <1>4 DEF Performed, NotPerformed, Recover, Navigate, Shape, ExplorerTypeOK, Navs, NextForm, NextRetry,
      StopAfter, Stop
<1>5. CASE ObserveTap \/ ObserveOther \/ ObserveNav
  BY <1>5 DEF ObserveTap, ObserveOther, ObserveNav, Shape, ExplorerTypeOK, Navs
<1>. QED BY <1>1, <1>2, <1>3, <1>4, <1>5 DEF ExplorerNext, RunStep

\* Every target keeps a status.
LEMMA NavShape ==
  ASSUME Shape, ExplorerNext
  PROVE  nav' \in [Targets -> NavStatus]
<1>1. CASE Start \/ Idle \/ AppMoves \/ TimePasses \/ Cleanup
  BY <1>1 DEF Start, Idle, AppMoves, TimePasses, Cleanup, Shape, ExplorerTypeOK
<1>2. CASE Limit \/ DeadlineReached \/ Process \/ First \/ Unobserved
  BY <1>2 DEF Limit, DeadlineReached, Process, First, Unobserved, Shape, ExplorerTypeOK, NavStatus,
      FirstStatus, Stop, BlockPending, StopAfter
<1>3. CASE Visit \/ Choose
  BY <1>3 DEF Visit, Choose, Shape, ExplorerTypeOK
<1>4. CASE Performed \/ NotPerformed \/ Recover \/ Navigate
  BY <1>4 DEF Performed, NotPerformed, Recover, Navigate, Shape, ExplorerTypeOK, NavStatus, Verdict, StopAfter,
      Stop, BlockPending
<1>5. CASE ObserveTap \/ ObserveOther \/ ObserveNav
  BY <1>5 DEF ObserveTap, ObserveOther, ObserveNav, Shape, ExplorerTypeOK, NavStatus
<1>. QED BY <1>1, <1>2, <1>3, <1>4, <1>5 DEF ExplorerNext, RunStep

\* The flags stay Boolean.
LEMMA FlagsShape ==
  ASSUME Shape, ExplorerNext
  PROVE  workspace' \in BOOLEAN /\ formPending' \in BOOLEAN /\ keyboard' \in BOOLEAN /\ partial' \in BOOLEAN
<1>1. CASE Start \/ Idle \/ AppMoves \/ TimePasses \/ Cleanup
  BY <1>1 DEF Start, Idle, AppMoves, TimePasses, Cleanup, Shape, ExplorerTypeOK, RemoveWorkspace
<1>2. CASE Limit \/ DeadlineReached \/ Process \/ First \/ Unobserved
  BY <1>2 DEF Limit, DeadlineReached, Process, First, Unobserved, Shape, ExplorerTypeOK, Stop, Sees, DumpUi, StopAfter
<1>3. CASE Visit \/ Choose
  BY <1>3 DEF Visit, Choose, Shape, ExplorerTypeOK
<1>4. CASE Performed \/ NotPerformed \/ Recover \/ Navigate
  BY <1>4 DEF Performed, NotPerformed, Recover, Navigate, Shape, ExplorerTypeOK, Entered, StopAfter, Stop,
      Sees, DumpUi
<1>5. CASE ObserveTap \/ ObserveOther \/ ObserveNav
  BY <1>5 DEF ObserveTap, ObserveOther, ObserveNav, Shape, ExplorerTypeOK, SeesAfter, Sees, DumpUi
<1>. QED BY <1>1, <1>2, <1>3, <1>4, <1>5 DEF ExplorerNext, RunStep

\* No failure leaves the loop running at the limit of failures.
LEMMA CountsShape ==
  ASSUME Shape, ExplorerNext
  PROVE  /\ attempted' \in Nat /\ failures' \in 0..MaxFailures
         /\ pc' \notin Failing \cup Over => failures' < MaxFailures
<1>1. CASE Start \/ Idle \/ AppMoves \/ TimePasses \/ Cleanup
  BY <1>1 DEF Start, Idle, AppMoves, TimePasses, Cleanup, Shape, ExplorerTypeOK, Failing, Over
<1>2. CASE Limit \/ DeadlineReached \/ Process \/ First \/ Unobserved
  BY <1>2 DEF Limit, DeadlineReached, Process, First, Unobserved, Shape, ExplorerTypeOK, Failing, Over, Stop,
      StopAfter
<1>3. CASE Visit \/ Choose
  BY <1>3 DEF Visit, Choose, Shape, ExplorerTypeOK, Failing, Over
<1>4. CASE Performed
  BY <1>4 DEF Performed, Shape, ExplorerTypeOK, Failing, Over, PerformLabels
<1>5. CASE Recover
  BY <1>5 DEF Recover, Shape, ExplorerTypeOK, Over, StopAfter
<1>6. CASE Navigate
  BY <1>6, Constants DEF Navigate, Shape, ExplorerTypeOK, Failing, Over, Verdict
<1>7. CASE ObserveTap \/ ObserveOther \/ ObserveNav
  BY <1>7 DEF ObserveTap, ObserveOther, ObserveNav, Shape, ExplorerTypeOK, Failing, Over
<1>8. CASE NotPerformed
  <2>1. pc \in PerformLabels /\ attempted' = attempted + 1 /\ failures' = failures + 1 /\ pc' = "recover"
    BY <1>8 DEF NotPerformed
  <2>2. failures < MaxFailures /\ failures \in 0..MaxFailures /\ MaxFailures \in Nat
    BY <2>1, Constants DEF PerformLabels, Failing, Over, Shape, ExplorerTypeOK
  <2>3. failures' \in 0..MaxFailures
    BY <2>1, <2>2
  <2>. QED BY <2>1, <2>3 DEF Failing, Shape, ExplorerTypeOK
<1>. QED BY <1>1, <1>2, <1>3, <1>4, <1>5, <1>6, <1>7, <1>8 DEF ExplorerNext, RunStep

\* The part of the types that is about places.
PlacesOK ==
  /\ place \in Screens \cup Elsewhere /\ time \in 0..MaxTime
  /\ current \in Screens \cup {NoScreen} /\ seen \in Screens \cup {NoScreen}

\* What a step may do to the stack of screens.
LEMMA HistoryStep ==
  ASSUME Shape, ExplorerNext
  PROVE  \/ history' = history
         \/ history # <<>> /\ history' = Front(history) /\ pc' = "back"
         \/ /\ history' = Append(history, current) /\ current \in Screens /\ pc' = "top"
            /\ pc \in {"observeTap", "observeRetry", "observeNav", "recoverNav"}
<1>. USE DEF Shape, ExplorerTypeOK
<1>1. CASE Choose
  BY <1>1 DEF Choose, Before, Over
<1>2. CASE Recover
  BY <1>2 DEF Recover, StopAfter, Stop, Before, Over
<1>3. CASE ObserveTap
  BY <1>3 DEF ObserveTap, Push, Before, Over
<1>4. CASE ObserveOther
  BY <1>4 DEF ObserveOther, Push, Before, Over
<1>5. CASE ObserveNav
  BY <1>5 DEF ObserveNav, Push, Before, Over
<1>6. CASE Start \/ First \/ Limit \/ Visit \/ Performed \/ NotPerformed \/ Navigate \/ Unobserved \/ Idle
           \/ Process \/ DeadlineReached \/ Cleanup \/ AppMoves \/ TimePasses
  BY <1>6 DEF Start, First, Limit, Visit, Performed, NotPerformed, Navigate, Unobserved, Idle, Process,
       DeadlineReached, Cleanup, AppMoves, TimePasses
<1>. QED BY <1>1, <1>2, <1>3, <1>4, <1>5, <1>6 DEF ExplorerNext, RunStep

\* What a step may do to the graph of screens.
LEMMA VisitedStep ==
  ASSUME Shape, ExplorerNext
  PROVE  \/ visited' = visited
         \/ /\ visited' = visited \cup {current} /\ current \in Screens /\ pc \notin Before
            /\ Cardinality(visited) < MaxStates \/ current \in visited
<1>. USE DEF Shape, ExplorerTypeOK
<1>1. CASE Visit
  BY <1>1 DEF Visit, Before, Over
<1>2. CASE Start \/ First \/ Limit \/ Choose \/ Performed \/ NotPerformed \/ Recover \/ Navigate
           \/ ObserveTap \/ ObserveOther \/ ObserveNav \/ Unobserved \/ Idle \/ Process \/ DeadlineReached
           \/ Cleanup \/ AppMoves \/ TimePasses
  BY <1>2 DEF Start, First, Limit, Choose, Performed, NotPerformed, Recover, Navigate, ObserveTap,
       ObserveOther, ObserveNav, Unobserved, Idle, Process, DeadlineReached, Cleanup, AppMoves, TimePasses
<1>. QED BY <1>1, <1>2 DEF ExplorerNext, RunStep

\* What a step may do to the screens that were scrolled.
LEMMA ScrolledStep ==
  ASSUME Shape, ExplorerNext
  PROVE  scrolled' = scrolled \/ (scrolled' = scrolled \cup {current} /\ current \in Screens)
<1>. USE DEF Shape, ExplorerTypeOK
<1>1. CASE Choose
  BY <1>1 DEF Choose, Before, Over
<1>2. CASE Start \/ First \/ Limit \/ Visit \/ Performed \/ NotPerformed \/ Recover \/ Navigate
           \/ ObserveTap \/ ObserveOther \/ ObserveNav \/ Unobserved \/ Idle \/ Process \/ DeadlineReached
           \/ Cleanup \/ AppMoves \/ TimePasses
  BY <1>2 DEF Start, First, Limit, Visit, Performed, NotPerformed, Recover, Navigate, ObserveTap, ObserveOther,
       ObserveNav, Unobserved, Idle, Process, DeadlineReached, Cleanup, AppMoves, TimePasses
<1>. QED BY <1>1, <1>2 DEF ExplorerNext, RunStep

\* The stack and the sets of screens hold screens.
LEMMA GraphShape ==
  ASSUME Shape, ExplorerNext
  PROVE  visited' \subseteq Screens /\ IsFiniteSet(visited') /\ scrolled' \subseteq Screens
             /\ history' \in Seq(Screens)
<1>. USE DEF Shape, ExplorerTypeOK
<1>1. visited' \subseteq Screens /\ IsFiniteSet(visited')
  BY VisitedStep, FS_AddElement
<1>2. scrolled' \subseteq Screens
  BY ScrolledStep
<1>3. history' \in Seq(Screens)
  <2>1. history \in Seq(Screens)
    OBVIOUS
  <2>2. CASE history # <<>> /\ history' = Front(history)
    BY <2>1, <2>2, Shorter, Zenon
  <2>3. CASE history' = Append(history, current) /\ current \in Screens
    BY <2>1, <2>3, Deeper, Zenon
  <2>. QED BY <2>1, <2>2, <2>3, HistoryStep
<1>. QED BY <1>1, <1>2, <1>3

\* The action in hand is one of the values.
LEMMA ActShape ==
  ASSUME Shape, ExplorerNext
  PROVE  act' \in Acts
<1>. USE DEF Shape, ExplorerTypeOK
<1>1. CASE Visit
  BY <1>1, NoActFacts DEF Visit
<1>2. CASE Choose
  <2>1. CASE act' = act
    BY <2>1
  <2>2. CASE act' # act
    <3>1. \E a \in Offered(current), f \in BOOLEAN : act' = FormOf(a, f)
      BY <1>2, <2>2, CandidatesAreEligible DEF Choose, Eligible, FormOf
    <3>2. current \in Screens
      BY <1>2 DEF Choose, Shape, Before, Over
    <3>. QED BY <3>1, <3>2, OfferedFacts, FormFacts
  <2>. QED BY <2>1, <2>2
<1>3. CASE Start \/ First \/ Limit \/ Performed \/ NotPerformed \/ Recover \/ Navigate \/ ObserveTap
           \/ ObserveOther \/ ObserveNav \/ Unobserved \/ Idle \/ Process \/ DeadlineReached \/ Cleanup
           \/ AppMoves \/ TimePasses
  BY <1>3 DEF Start, First, Limit, Performed, NotPerformed, Recover, Navigate, ObserveTap, ObserveOther,
       ObserveNav, Unobserved, Idle, Process, DeadlineReached, Cleanup, AppMoves, TimePasses
<1>. QED BY <1>1, <1>2, <1>3 DEF ExplorerNext, RunStep

\* Every step keeps the types.
LEMMA ShapeStep == ASSUME Shape, ExplorerNext PROVE Shape'
<1>1. canary' \in [{"attempts", "failures", "deliveries", "recovered"} -> Nat]
  BY CanaryShape DEF Tallies
<1>2. PlacesOK'
  BY PlacesShape DEF PlacesOK
<1>3. workspace' \in BOOLEAN /\ formPending' \in BOOLEAN /\ keyboard' \in BOOLEAN /\ partial' \in BOOLEAN
  BY FlagsShape
<1>4. pc' \in ExplorerLabels /\ termination' \in Reasons
  BY LabelsShape
<1>5. target' \in Targets \cup {NoTarget} /\ pending' \subseteq Targets /\ nav' \in [Targets -> NavStatus]
  BY TargetsShape, NavShape
<1>6. visited' \subseteq Screens /\ scrolled' \subseteq Screens /\ history' \in Seq(Screens)
  BY GraphShape
<1>7. attempted' \in Nat /\ failures' \in 0..MaxFailures
  BY CountsShape
<1>8. ExplorerTypeOK'
  BY <1>1, <1>2, <1>3, <1>4, <1>5, <1>6, <1>7 DEF ExplorerTypeOK, PlacesOK
<1>. QED BY <1>8, PlacesShape, TargetsShape, CountsShape, GraphShape, ActShape DEF Shape

(***************************************************************************)
(* The quotas                                                              *)
(***************************************************************************)
\* What is chosen, and where the loop goes with it.
Chosen(a, f) ==
  /\ act' = FormOf(a, f) /\ executed' = executed \cup {<<current, a.node.id, a.kind>>}
  /\ current' = current /\ unknown' = unknown /\ history' = history
  /\ pc' = IF a.kind = "input" THEN "input" ELSE IF f THEN "carrier" ELSE "tap"
  /\ f => a.kind # "input" /\ attempted + 3 <= MaxActions

\* What the choice of an action leads to.
LEMMA ChooseFacts ==
  ASSUME Shape, Choose
  PROVE  \/ pc' = "hide" /\ UNCHANGED <<act, executed, unknown, history>>
         \/ \E a \in Eligible, f \in BOOLEAN : Chosen(a, f)
         \/ pc' \in {"scroll", "back", "idle"}
<1>1. CASE \E a \in Eligible : ~(keyboard /\ a.kind # "input")
           /\ executed' = executed \cup {<<current, a.node.id, a.kind>>} /\ current' = current
           /\ unknown' = unknown /\ history' = history
           /\ LET supp == Supports(current, executed) # {}
                  form == Canary /\ a.kind # "input" /\ FormAction(current, a, executed)
                  enough == MaxActions - attempted >= IF supp THEN 4 ELSE 3
              IN /\ act' = [a EXCEPT !.form = form /\ enough]
                 /\ pc' = CASE a.kind = "input" -> "input" [] form /\ enough -> "carrier" [] OTHER -> "tap"
  <2>1. PICK a \in Eligible :
           /\ executed' = executed \cup {<<current, a.node.id, a.kind>>} /\ current' = current
           /\ unknown' = unknown /\ history' = history
           /\ LET supp == Supports(current, executed) # {}
                  form == Canary /\ a.kind # "input" /\ FormAction(current, a, executed)
                  enough == MaxActions - attempted >= IF supp THEN 4 ELSE 3
              IN /\ act' = [a EXCEPT !.form = form /\ enough]
                 /\ pc' = CASE a.kind = "input" -> "input" [] form /\ enough -> "carrier" [] OTHER -> "tap"
    BY <1>1
  <2>. DEFINE enough == MaxActions - attempted >= IF Supports(current, executed) # {} THEN 4 ELSE 3
              f == Canary /\ a.kind # "input" /\ FormAction(current, a, executed) /\ enough
  <2>2. act' = FormOf(a, f) /\ pc' = IF a.kind = "input" THEN "input" ELSE IF f THEN "carrier" ELSE "tap"
    BY <2>1 DEF FormOf
  <2>3. enough => attempted + 3 <= MaxActions
    BY Constants DEF Shape, ExplorerTypeOK
  <2>4. f \in BOOLEAN
    OBVIOUS
  <2>5. Chosen(a, f)
    BY <2>1, <2>2, <2>3 DEF Chosen
  <2>. QED BY <2>1, <2>4, <2>5
<1>2. CASE pc' = "hide" /\ UNCHANGED <<act, executed, unknown, history>>
  BY <1>2
<1>3. CASE pc' \in {"scroll", "back", "idle"}
  BY <1>3
<1>. QED BY <1>1, <1>2, <1>3, CandidatesAreEligible DEF Choose

\* A step that begins another action leaves room for it, and a form is only begun with room for all of it.
LEMMA BudgetStep ==
  ASSUME Shape, Budget, ExplorerNext
  PROVE  Budget'
<1>1. CASE Start \/ Idle \/ AppMoves \/ TimePasses \/ Cleanup
  BY <1>1 DEF Start, Idle, AppMoves, TimePasses, Cleanup, Budget, PerformLabels
<1>2. CASE Limit
  BY <1>2 DEF Limit, Budget, PerformLabels, Stop, StopAfter
<1>3. CASE DeadlineReached
  BY <1>3, Constants DEF DeadlineReached, Budget, Shape, ExplorerTypeOK, PerformLabels, Stop, StopAfter
<1>4. CASE Process \/ First \/ Unobserved
  BY <1>4 DEF Process, First, Unobserved, Budget, PerformLabels, Stop, StopAfter
<1>5. CASE Visit
  BY <1>5 DEF Visit, Budget
<1>6. CASE NotPerformed
  BY <1>6, Constants DEF NotPerformed, Budget, Shape, ExplorerTypeOK, PerformLabels
<1>7. CASE Recover
  BY <1>7 DEF Recover, Budget, PerformLabels, StopAfter, Stop
<1>8. CASE Navigate
  <2>1. attempted' = attempted + 1 /\ attempted < MaxActions /\ attempted \in Nat
    BY <1>8 DEF Navigate, Budget, PerformLabels, Shape, ExplorerTypeOK
  <2>2. pc' \in {"observeNav", "top", "recoverNav"}
    BY <1>8 DEF Navigate
  <2>. QED BY <2>1, <2>2, Constants DEF Budget, PerformLabels
<1>9. CASE ObserveTap \/ ObserveOther \/ ObserveNav
  BY <1>9 DEF ObserveTap, ObserveOther, ObserveNav, Budget, PerformLabels
<1>10. CASE Choose
  <2>1. attempted' = attempted /\ pc = "choose" /\ attempted < MaxActions /\ attempted \in Nat
    BY <1>10 DEF Choose, Budget, Shape, ExplorerTypeOK
  <2>2. pc' \in {"carrier", "support"} => attempted + 3 <= MaxActions
    BY <1>10, ChooseFacts DEF Chosen
  <2>3. pc' # "hideForm"
    BY <1>10, ChooseFacts DEF Chosen
  <2>. QED BY <2>1, <2>2, <2>3, Constants DEF Budget
<1>11. CASE Performed
  <2>1. /\ attempted' = attempted + 1 /\ attempted < MaxActions /\ attempted \in Nat
        /\ pc \in {"carrier", "support"} => attempted + 3 <= MaxActions
        /\ pc = "hideForm" => attempted + 2 <= MaxActions
    BY <1>11 DEF Performed, Budget, Shape, ExplorerTypeOK
  <2>2. \/ pc = "carrier" /\ pc' = NextForm(attempted + 1, Supports(current, executed) # {})
        \/ pc' \in {"hideForm", "tap"} /\ pc = "support"
        \/ pc' = "tap" /\ pc = "hideForm"
        \/ \E left, open : pc' = NextRetry(attempted + 1, left, open)
        \/ pc' \in {"top", "observeHide", "observeTap", "observeRetry", "observeScroll", "observeBack"}
    BY <1>11, Constants DEF Performed, PerformLabels, NextForm
  <2>3. pc' = "support" => attempted + 1 + 3 <= MaxActions
    BY <2>1, <2>2, Constants DEF NextForm, NextRetry
  <2>. QED BY <2>1, <2>2, <2>3, Constants DEF Budget, PerformLabels, NextRetry, NextForm
<1>. QED BY <1>1, <1>2, <1>3, <1>4, <1>5, <1>6, <1>7, <1>8, <1>9, <1>10, <1>11 DEF ExplorerNext, RunStep

\* A form is only begun below the limit of depth, and going on with it goes no deeper.
LEMMA RoomStep ==
  ASSUME Shape, Depth, ExplorerNext
  PROVE  pc' \in Forms => Len(history') < MaxDepth
<1>1. CASE Start \/ Idle \/ AppMoves \/ TimePasses \/ Cleanup
  BY <1>1 DEF Start, Idle, AppMoves, TimePasses, Cleanup, Depth, Forms
<1>2. CASE Limit \/ DeadlineReached \/ Process \/ First \/ Unobserved
  BY <1>2 DEF Limit, DeadlineReached, Process, First, Unobserved, Forms, Stop, StopAfter
<1>3. CASE Visit
  BY <1>3 DEF Visit, Forms
<1>4. CASE Performed \/ NotPerformed \/ Recover \/ Navigate
  BY <1>4 DEF Performed, NotPerformed, Recover, Navigate, Depth, Forms, StopAfter, Stop
<1>5. CASE ObserveTap \/ ObserveOther \/ ObserveNav
  BY <1>5 DEF ObserveTap, ObserveOther, ObserveNav, Depth, Forms
<1>6. CASE Choose
  <2>1. ASSUME NEW a \in Eligible, NEW f \in BOOLEAN, Chosen(a, f), pc' \in Forms
        PROVE  Len(history') < MaxDepth
    <3>1. a.kind # "input" /\ history' = history
      BY <2>1 DEF Chosen, Forms
    <3>. QED BY <2>1, <3>1, Constants DEF Eligible, Shape, ExplorerTypeOK
  <2>. QED BY <1>6, <2>1, ChooseFacts DEF Forms
<1>. QED BY <1>1, <1>2, <1>3, <1>4, <1>5, <1>6 DEF ExplorerNext, RunStep

\* A navigation starts from the bottom of the stack.
LEMMA BottomStep ==
  ASSUME Shape, Depth, ExplorerNext
  PROVE  pc' \in Navs => history' = <<>>
<1>1. CASE Start \/ Idle \/ AppMoves \/ TimePasses \/ Cleanup
  BY <1>1 DEF Start, Idle, AppMoves, TimePasses, Cleanup, Depth, Navs
<1>2. CASE Limit \/ DeadlineReached \/ Process \/ First \/ Unobserved
  BY <1>2 DEF Limit, DeadlineReached, Process, First, Unobserved, Navs, Stop, StopAfter
<1>3. CASE Visit \/ Choose
  BY <1>3 DEF Visit, Choose, Navs
<1>4. CASE Performed \/ NotPerformed \/ Recover \/ Navigate
  BY <1>4 DEF Performed, NotPerformed, Recover, Navigate, Depth, Navs, NextForm, NextRetry, StopAfter, Stop
<1>5. CASE ObserveTap \/ ObserveOther \/ ObserveNav
  BY <1>5 DEF ObserveTap, ObserveOther, ObserveNav, Navs
<1>. QED BY <1>1, <1>2, <1>3, <1>4, <1>5 DEF ExplorerNext, RunStep

\* The stack and the graph of screens stay within their limits.
LEMMA DepthStep == ASSUME Shape, Depth, ExplorerNext PROVE Depth'
<1>1. Len(history') <= MaxDepth
  <2>1. history \in Seq(Screens) /\ Len(history) \in Nat /\ Len(history) <= MaxDepth /\ MaxDepth \in Nat \ {0}
    BY Constants DEF Shape, ExplorerTypeOK, Depth
  <2>2. CASE history # <<>> /\ history' = Front(history)
    <3>1. Len(history') = Len(history) - 1
      BY <2>1, <2>2, Shorter
    <3>. QED BY <2>1, <3>1
  <2>3. CASE history' = Append(history, current) /\ current \in Screens
              /\ pc \in {"observeTap", "observeRetry", "observeNav", "recoverNav"}
    <3>1. Len(history') = Len(history) + 1
      BY <2>1, <2>3, Deeper
    <3>2. Len(history) < MaxDepth
      <4>1. CASE pc \in {"observeTap", "observeRetry"}
        BY <4>1 DEF Depth, Forms
      <4>2. CASE pc \in {"observeNav", "recoverNav"}
        BY <2>1, <4>2 DEF Depth, Navs
      <4>. QED BY <2>3, <4>1, <4>2
    <3>. QED BY <2>1, <3>1, <3>2
  <2>. QED BY <2>1, <2>2, <2>3, HistoryStep
<1>2. Cardinality(visited') <= MaxStates
  <2>1. IsFiniteSet(visited) /\ Cardinality(visited) \in Nat /\ Cardinality(visited) <= MaxStates /\ MaxStates \in Nat
    BY Constants, FS_CardinalityType DEF Shape, Depth
  <2>2. CASE visited' = visited
    BY <2>1, <2>2
  <2>3. CASE visited' = visited \cup {current} /\ (Cardinality(visited) < MaxStates \/ current \in visited)
    <3>1. Cardinality(visited') = IF current \in visited THEN Cardinality(visited) ELSE Cardinality(visited) + 1
      BY <2>1, <2>3, FS_AddElement
    <3>. QED BY <2>1, <2>3, <3>1
  <2>. QED BY <2>2, <2>3, VisitedStep
<1>. QED BY <1>1, <1>2, RoomStep, BottomStep DEF Depth

(***************************************************************************)
(* What the loop knows                                                     *)
(***************************************************************************)
\* What has an unknown outcome was executed.
LEMMA UnknownStep ==
  ASSUME Known, ExplorerNext
  PROVE  unknown' \subseteq executed'
<1>1. CASE Start \/ Idle \/ AppMoves \/ TimePasses \/ Cleanup
  BY <1>1 DEF Start, Idle, AppMoves, TimePasses, Cleanup, Known
<1>2. CASE Limit \/ DeadlineReached \/ Process \/ First \/ Unobserved
  BY <1>2 DEF Limit, DeadlineReached, Process, First, Unobserved, Known
<1>3. CASE Visit \/ Choose
  BY <1>3 DEF Visit, Choose, Known
<1>4. CASE Performed
  BY <1>4 DEF Performed, Known, Entered
<1>5. CASE NotPerformed
  BY <1>5 DEF NotPerformed, Known, Key, Forms
<1>6. CASE Recover \/ Navigate
  BY <1>6 DEF Recover, Navigate, Known
<1>7. CASE ObserveTap \/ ObserveOther \/ ObserveNav
  BY <1>7 DEF ObserveTap, ObserveOther, ObserveNav, Known
<1>. QED BY <1>1, <1>2, <1>3, <1>4, <1>5, <1>6, <1>7 DEF ExplorerNext, RunStep

\* What a form taps stays noted as executed and without a doubt: its candidates were never executed before.
LEMMA KeyStep ==
  ASSUME Shape, Known, ExplorerNext
  PROVE  pc' \in Forms \ {"observeRetry"} => Key' \in executed' /\ Key' \notin unknown'
<1>1. CASE Start \/ Idle \/ AppMoves \/ TimePasses \/ Cleanup
  BY <1>1 DEF Start, Idle, AppMoves, TimePasses, Cleanup, Known, Key, Forms
<1>2. CASE Limit \/ DeadlineReached \/ Process \/ First \/ Unobserved
  BY <1>2 DEF Limit, DeadlineReached, Process, First, Unobserved, Forms, Stop, StopAfter
<1>3. CASE Visit
  BY <1>3 DEF Visit, Forms
<1>4. CASE Performed \/ NotPerformed \/ Recover \/ Navigate
  BY <1>4 DEF Performed, NotPerformed, Recover, Navigate, Known, Key, Forms, NextForm, NextRetry, Entered,
      StopAfter, Stop
<1>5. CASE ObserveTap \/ ObserveOther \/ ObserveNav
  BY <1>5 DEF ObserveTap, ObserveOther, ObserveNav, Known, Key, Forms
<1>6. CASE Choose
  <2>1. ASSUME NEW a \in Eligible, NEW f \in BOOLEAN, Chosen(a, f)
        PROVE  Key' \in executed' /\ Key' \notin unknown'
    <3>1. a \in Acts
      BY <1>6, OfferedFacts DEF Eligible, Choose, Shape, Before, Over
    <3>2. Key' = <<current, a.node.id, a.kind>>
      BY <2>1, <3>1, FormFacts DEF Key, Chosen
    <3>3. <<current, a.node.id, a.kind>> \notin executed
      BY DEF Eligible
    <3>. QED BY <2>1, <3>2, <3>3 DEF Known, Chosen
  <2>. QED BY <1>6, <2>1, ChooseFacts DEF Forms
<1>. QED BY <1>1, <1>2, <1>3, <1>4, <1>5, <1>6 DEF ExplorerNext, RunStep

\* The screen of the loop is the one last seen, or an activity that was started did not resume.
LEMMA StaleStep ==
  ASSUME Shape, Waiting, StaleHasCause, ExplorerNext
  PROVE  StaleHasCause'
<1>1. CASE Start \/ Idle \/ AppMoves \/ TimePasses \/ Cleanup
  BY <1>1 DEF Start, Idle, AppMoves, TimePasses, Cleanup, StaleHasCause
<1>2. CASE Limit \/ DeadlineReached \/ Process \/ First \/ Unobserved
  BY <1>2 DEF Limit, DeadlineReached, Process, First, Unobserved, Waiting, StaleHasCause, Navs, Stop, Sees,
      BlockPending, StopAfter
<1>3. CASE Visit \/ Choose
  BY <1>3 DEF Visit, Choose, StaleHasCause
<1>4. CASE Performed \/ NotPerformed
  BY <1>4 DEF Performed, NotPerformed, StaleHasCause
<1>5. CASE Recover \/ Navigate
  BY <1>5 DEF Recover, Navigate, Waiting, Shape, ExplorerTypeOK, StaleHasCause, Navs, Verdict, StopAfter, Stop,
      Sees, BlockPending
<1>6. CASE ObserveTap \/ ObserveOther \/ ObserveNav
  BY <1>6 DEF ObserveTap, ObserveOther, ObserveNav, Shape, ExplorerTypeOK, StaleHasCause, Navs, SeesAfter, Sees
<1>. QED BY <1>1, <1>2, <1>3, <1>4, <1>5, <1>6 DEF ExplorerNext, RunStep

(***************************************************************************)
(* What the result tells                                                   *)
(***************************************************************************)
\* What waits has no verdict yet.
LEMMA PendingStep ==
  ASSUME Shape, Waiting, ExplorerNext
  PROVE  \A t \in pending' : nav'[t] = "attempted"
<1>1. CASE Start \/ Idle \/ AppMoves \/ TimePasses \/ Cleanup
  BY <1>1 DEF Start, Idle, AppMoves, TimePasses, Cleanup, Waiting
<1>2. CASE Limit \/ DeadlineReached \/ Process \/ First \/ Unobserved
  BY <1>2 DEF Limit, DeadlineReached, Process, First, Unobserved, Waiting, Stop, StopAfter
<1>3. CASE Visit \/ Choose
  BY <1>3 DEF Visit, Choose, Waiting
<1>4. CASE Performed \/ NotPerformed \/ Recover \/ Navigate
  BY <1>4 DEF Performed, NotPerformed, Recover, Navigate, Waiting, Shape, ExplorerTypeOK, Navs, NextForm,
      NextRetry, Verdict, StopAfter, Stop
<1>5. CASE ObserveTap \/ ObserveOther \/ ObserveNav
  BY <1>5 DEF ObserveTap, ObserveOther, ObserveNav, Waiting, Shape, ExplorerTypeOK, Navs
<1>. QED BY <1>1, <1>2, <1>3, <1>4, <1>5 DEF ExplorerNext, RunStep

\* The target in hand waits no more and has no verdict yet.
LEMMA InHandStep ==
  ASSUME Shape, Waiting, ExplorerNext
  PROVE  pc' \in Navs => target' \notin pending' /\ nav'[target'] = "attempted"
<1>1. CASE Start \/ Idle \/ AppMoves \/ TimePasses \/ Cleanup
  BY <1>1 DEF Start, Idle, AppMoves, TimePasses, Cleanup, Waiting, Navs
<1>2. CASE Limit \/ DeadlineReached \/ Process \/ First \/ Unobserved
  BY <1>2 DEF Limit, DeadlineReached, Process, First, Unobserved, Navs, Stop, StopAfter
<1>3. CASE Visit \/ Choose
  BY <1>3 DEF Visit, Choose, Waiting, Navs
<1>4. CASE Performed \/ NotPerformed \/ Recover \/ Navigate
  BY <1>4 DEF Performed, NotPerformed, Recover, Navigate, Waiting, Navs, NextForm, NextRetry, StopAfter, Stop
<1>5. CASE ObserveTap \/ ObserveOther \/ ObserveNav
  BY <1>5 DEF ObserveTap, ObserveOther, ObserveNav, Navs
<1>. QED BY <1>1, <1>2, <1>3, <1>4, <1>5 DEF ExplorerNext, RunStep

\* Nothing is visited before the loop.
LEMMA UnseenStep ==
  ASSUME Shape, Waiting, ExplorerNext
  PROVE  pc' \in Before => visited' = {}
<1>1. CASE Start \/ Idle \/ AppMoves \/ TimePasses \/ Cleanup
  BY <1>1 DEF Start, Idle, AppMoves, TimePasses, Cleanup, Waiting, Before
<1>2. CASE Limit \/ DeadlineReached \/ Process \/ First \/ Unobserved
  BY <1>2 DEF Limit, DeadlineReached, Process, First, Unobserved, Before, Stop, StopAfter
<1>3. CASE Visit \/ Choose
  BY <1>3 DEF Visit, Choose, Before
<1>4. CASE Performed \/ NotPerformed \/ Recover \/ Navigate
  BY <1>4 DEF Performed, NotPerformed, Recover, Navigate, Before, NextForm, NextRetry, StopAfter, Stop
<1>5. CASE ObserveTap \/ ObserveOther \/ ObserveNav
  BY <1>5 DEF ObserveTap, ObserveOther, ObserveNav, Before
<1>. QED BY <1>1, <1>2, <1>3, <1>4, <1>5 DEF ExplorerNext, RunStep

\* While the loop runs, a target without a verdict waits or is in hand.
LEMMA OpenStep ==
  ASSUME Shape, Waiting, ExplorerNext
  PROVE  pc' \notin Before \cup Over =>
           \A t \in Targets : nav'[t] = "attempted" => t \in pending' \/ (pc' \in Navs /\ t = target')
<1>1. CASE Start \/ Idle \/ AppMoves \/ TimePasses \/ Cleanup
  BY <1>1 DEF Start, Idle, AppMoves, TimePasses, Cleanup, Waiting, Before, Over, Navs
<1>2. CASE Limit \/ DeadlineReached \/ Process \/ First \/ Unobserved
  BY <1>2 DEF Limit, DeadlineReached, Process, First, Unobserved, Waiting, Before, Over, Navs, Stop, StopAfter
<1>3. CASE Visit \/ Choose
  BY <1>3 DEF Visit, Choose, Waiting, Before, Over, Navs
<1>4. CASE Performed \/ NotPerformed \/ Recover \/ Navigate
  BY <1>4 DEF Performed, NotPerformed, Recover, Navigate, Waiting, Shape, ExplorerTypeOK, Before, Over, Navs,
      PerformLabels, Verdict, StopAfter, Stop
<1>5. CASE ObserveTap \/ ObserveOther \/ ObserveNav
  BY <1>5 DEF ObserveTap, ObserveOther, ObserveNav, Waiting, Shape, ExplorerTypeOK, Before, Over, Navs
<1>. QED BY <1>1, <1>2, <1>3, <1>4, <1>5 DEF ExplorerNext, RunStep

\* The loop waits for something to happen only when no target does, or when a form has to be found first.
LEMMA IdleStep ==
  ASSUME Shape, Waiting, ExplorerNext
  PROVE  /\ pc' = "idle" => pending' = {} \/ formPending'
         /\ pc' = "choose" => pending' = {} \/ history' # <<>> \/ formPending'
<1>1. CASE Start \/ Idle \/ AppMoves \/ TimePasses \/ Cleanup
  BY <1>1 DEF Start, Idle, AppMoves, TimePasses, Cleanup, Waiting
<1>2. CASE Limit \/ DeadlineReached \/ Process \/ First \/ Unobserved
  BY <1>2 DEF Limit, DeadlineReached, Process, First, Unobserved, Stop, StopAfter
<1>3. CASE Visit \/ Choose
  BY <1>3 DEF Visit, Choose, Waiting
<1>4. CASE Performed \/ NotPerformed \/ Recover \/ Navigate
  BY <1>4 DEF Performed, NotPerformed, Recover, Navigate, NextForm, NextRetry, StopAfter, Stop
<1>5. CASE ObserveTap \/ ObserveOther \/ ObserveNav
  BY <1>5 DEF ObserveTap, ObserveOther, ObserveNav
<1>. QED BY <1>1, <1>2, <1>3, <1>4, <1>5 DEF ExplorerNext, RunStep

\* The end of the run gives a verdict to every target that waits.
LEMMA SettledStep ==
  ASSUME Shape, Waiting, ExplorerNext
  PROVE  pc' \in Over /\ visited' # {} =>
           \A t \in Targets : nav'[t] = "attempted" =>
             \/ termination' \in {"max_runtime", "package_boundary"} /\ t = target'
             \/ termination' = "coverage_plateau" /\ formPending'
<1>1. CASE Start \/ Idle \/ AppMoves \/ TimePasses \/ Cleanup
  BY <1>1 DEF Start, Idle, AppMoves, TimePasses, Cleanup, Waiting, Before, Over, Navs
<1>2. CASE Limit \/ DeadlineReached \/ Process \/ First \/ Unobserved
  BY <1>2 DEF Limit, DeadlineReached, Process, First, Unobserved, Waiting, Before, Over, Navs, PerformLabels,
      ObserveLabels, Stop, BlockPending, StopAfter
<1>3. CASE Visit \/ Choose
  BY <1>3 DEF Visit, Choose, Over
<1>4. CASE Performed \/ NotPerformed \/ Recover \/ Navigate
  BY <1>4 DEF Performed, NotPerformed, Recover, Navigate, Waiting, Shape, ExplorerTypeOK, Over, Navs, NextForm,
      NextRetry, Verdict, StopAfter, Stop, BlockPending
<1>5. CASE ObserveTap \/ ObserveOther \/ ObserveNav
  BY <1>5 DEF ObserveTap, ObserveOther, ObserveNav, Over
<1>. QED BY <1>1, <1>2, <1>3, <1>4, <1>5 DEF ExplorerNext, RunStep

\* Every step keeps what is known of the targets.
LEMMA WaitingStep == ASSUME Shape, Waiting, ExplorerNext PROVE Waiting'
BY PendingStep, InHandStep, UnseenStep, OpenStep, IdleStep, SettledStep DEF Waiting

\* A failure makes the result partial, and only a run that was not cut short may claim to be complete.
LEMMA HonestStep ==
  ASSUME Shape, Honest, ExplorerNext
  PROVE  Honest'
<1>1. CASE Start \/ Idle \/ AppMoves \/ TimePasses \/ Cleanup
  BY <1>1 DEF Start, Idle, AppMoves, TimePasses, Cleanup, Honest, Over, RemoveWorkspace
<1>2. CASE Limit \/ DeadlineReached \/ First \/ Unobserved
  BY <1>2 DEF Limit, DeadlineReached, First, Unobserved, Honest, Over, Stop, StopAfter
<1>3. CASE Visit \/ Choose
  BY <1>3 DEF Visit, Choose, Honest, Over
<1>4. CASE Performed \/ NotPerformed \/ Navigate
  BY <1>4 DEF Performed, NotPerformed, Navigate, Honest, Over, NextForm, NextRetry
<1>5. CASE ObserveTap \/ ObserveOther \/ ObserveNav
  BY <1>5 DEF ObserveTap, ObserveOther, ObserveNav, Honest, Over
<1>6. CASE Recover
  <2>1. failures' = failures /\ failures \in Nat /\ MaxFailures \in Nat \ {0} /\ partial \in BOOLEAN
    BY <1>6, Constants DEF Recover, StopAfter, Stop, Shape, ExplorerTypeOK
  <2>2. \/ failures >= MaxFailures /\ (partial => partial')
        \/ partial'
        \/ pc' = "top" /\ partial' = partial
    BY <1>6 DEF Recover, StopAfter, Stop
  <2>3. CASE failures >= MaxFailures /\ (partial => partial')
    <3>1. failures > 0
      BY <2>1, <2>3
    <3>. QED BY <2>1, <2>3, <3>1 DEF Honest
  <2>4. CASE partial'
    BY <2>4 DEF Honest
  <2>5. CASE pc' = "top" /\ partial' = partial
    BY <2>1, <2>5 DEF Honest, Over
  <2>. QED BY <2>2, <2>3, <2>4, <2>5
<1>7. CASE Process
  <2>1. failures' = failures
    BY <1>7 DEF Process, StopAfter, Stop
  <2>2. partial' \/ (pc' \in {"top", "observeStart"} /\ partial' = partial)
    BY <1>7 DEF Process, StopAfter, Stop
  <2>3. CASE partial'
    BY <2>3 DEF Honest
  <2>4. CASE pc' \in {"top", "observeStart"} /\ partial' = partial
    BY <2>1, <2>4 DEF Honest, Over
  <2>. QED BY <2>2, <2>3, <2>4
<1>. QED BY <1>1, <1>2, <1>3, <1>4, <1>5, <1>6, <1>7 DEF ExplorerNext, RunStep

\* A truth value as a number.
LEMMA BitFacts == ASSUME NEW p PROVE Bit(p) \in {0, 1} /\ (p => Bit(p) = 1) /\ (~p => Bit(p) = 0)
BY DEF Bit

Balanced(a, f, l, r) ==
  /\ Tally(a, f, l, r)
  /\ l + f + Bit(InFlight') <= a + r + Bit(InFlight)
  /\ r + Bit((pc = "recoverNav")') + failures <= Bit(pc = "recoverNav") + failures'

\* Counts that grow in balance stay in balance.
LEMMA Sums ==
  ASSUME NEW c1 \in Nat, NEW c2 \in Nat, NEW c3 \in Nat, NEW c4 \in Nat,
         NEW a \in {0, 1}, NEW f \in {0, 1}, NEW l \in {0, 1}, NEW r \in {0, 1},
         NEW i \in {0, 1}, NEW j \in {0, 1}, NEW m \in {0, 1}, NEW n \in {0, 1}, NEW x \in Nat, NEW y \in Nat,
         c3 + c2 + i <= c1 + c4, l + f + j <= a + r + i, c4 + m <= x, r + n + x <= m + y
  PROVE  (c3 + l) + (c2 + f) + j <= (c1 + a) + (c4 + r) /\ (c4 + r) + n <= y
OBVIOUS

\* A step in balance keeps the accounts.
LEMMA BalancedStep ==
  ASSUME Shape, Accounts, ExplorerNext, NEW a \in {0, 1}, NEW f \in {0, 1}, NEW l \in {0, 1}, NEW r \in {0, 1},
       Balanced(a, f, l, r)
  PROVE  /\ canary'["deliveries"] + canary'["failures"] + Bit(InFlight') <= canary'["attempts"] + canary'["recovered"]
         /\ canary'["recovered"] + Bit((pc = "recoverNav")') <= failures'
<1>1. failures \in Nat /\ failures' \in Nat
  BY ShapeStep, Constants DEF Shape, ExplorerTypeOK
<1>2. /\ canary["attempts"] \in Nat /\ canary["failures"] \in Nat /\ canary["deliveries"] \in Nat
           /\ canary["recovered"] \in Nat
  BY CanaryTyped DEF Tallies
<1>3. Bit(InFlight) \in {0, 1} /\ Bit(InFlight') \in {0, 1} /\ Bit(pc = "recoverNav") \in {0,
     1} /\ Bit((pc = "recoverNav")') \in {0, 1}
  BY BitFacts
<1>4. /\ canary'["attempts"] = canary["attempts"] + a /\ canary'["failures"] = canary["failures"] + f
      /\ canary'["deliveries"] = canary["deliveries"] + l /\ canary'["recovered"] = canary["recovered"] + r
  BY DEF Balanced, Tally, Increased
<1>5. /\ canary["deliveries"] + canary["failures"] + Bit(InFlight) <= canary["attempts"] + canary["recovered"]
      /\ canary["recovered"] + Bit(pc = "recoverNav") <= failures
      /\ l + f + Bit(InFlight') <= a + r + Bit(InFlight)
      /\ r + Bit((pc = "recoverNav")') + failures <= Bit(pc = "recoverNav") + failures'
  BY DEF Accounts, Balanced
<1>. QED BY <1>1, <1>2, <1>3, <1>4, <1>5, Sums

BalancedSomehow == \E a, f, l, r \in {0, 1} : Balanced(a, f, l, r)

\* Nothing is counted, and nothing new is open.
LEMMA QuietBalance ==
  ASSUME Shape, Accounts, Shape', Tally(0, 0, 0, 0), InFlight' => InFlight,
         (pc = "recoverNav")' => pc = "recoverNav", failures' = failures
  PROVE  BalancedSomehow
<1>1. Bit(InFlight') <= Bit(InFlight) /\ Bit((pc = "recoverNav")') <= Bit(pc = "recoverNav")
  BY DEF Bit
<1>2. failures \in Nat /\ Bit(InFlight) \in Nat /\ Bit(InFlight') \in Nat /\ Bit(pc = "recoverNav") \in Nat
           /\ Bit((pc = "recoverNav")') \in Nat
  BY Constants DEF Bit, Shape, ExplorerTypeOK
<1>3. Balanced(0, 0, 0, 0)
  <2>1. 0 + 0 + Bit(InFlight') <= 0 + 0 + Bit(InFlight)
             /\ 0 + Bit((pc = "recoverNav")') + failures <= Bit(pc = "recoverNav") + failures'
    BY <1>1, <1>2
  <2>. QED BY <2>1 DEF Balanced
<1>. QED BY <1>3 DEF BalancedSomehow

\* Every step is in balance.
LEMMA AccountSteps ==
  ASSUME Shape, Accounts, Shape', ExplorerNext
  PROVE  BalancedSomehow
<1>. USE DEF InFlight, CanaryStep, StopAfter, Stop
<1>0. failures \in Nat /\ failures' \in Nat
  BY Constants DEF Shape, ExplorerTypeOK
<1>1. CASE Start \/ First \/ Limit \/ Visit \/ ObserveOther \/ Idle \/ Process \/ Cleanup \/ AppMoves \/ TimePasses
  <2>1. InFlight' => InFlight
    BY <1>1 DEF Start, First, Limit, Visit, ObserveOther, Idle, Process, Cleanup, AppMoves, TimePasses
  <2>2. (pc = "recoverNav")' => pc = "recoverNav"
    BY <1>1 DEF Start, First, Limit, Visit, ObserveOther, Idle, Process, Cleanup, AppMoves, TimePasses
  <2>3. failures' = failures
    BY <1>1 DEF Start, First, Limit, Visit, ObserveOther, Idle, Process, Cleanup, AppMoves, TimePasses
  <2>. QED BY <1>1, <2>1, <2>2, <2>3, StartTally, QuietBalance
<1>2. CASE Choose
  <2>1. ~InFlight'
    <3>1. ASSUME NEW a \in Eligible, NEW f \in BOOLEAN, Chosen(a, f) PROVE ~InFlight'
      <4>1. a \in Acts
        BY <1>2, OfferedFacts DEF Eligible, Choose, Shape, Before, Over
      <4>2. act'.form = f
        BY <3>1, <4>1, FormFacts DEF Chosen
      <4>. QED BY <3>1, <4>2 DEF Chosen
    <3>. QED BY <1>2, <3>1, ChooseFacts
  <2>2. ~(pc = "recoverNav")' /\ failures' = failures
    BY <1>2 DEF Choose
  <2>. QED BY <1>2, <2>1, <2>2, StartTally, QuietBalance
<1>3. CASE Performed
  <2>1. /\ Bit(InFlight') <= Bit(pc = "carrier") + Bit(InFlight)
        /\ ~(pc = "recoverNav")' /\ failures' = failures
    <3>1. InFlight' => pc = "carrier" \/ InFlight
      BY <1>3 DEF Performed, NextForm, NextRetry, PerformLabels
    <3>2. ~(pc = "recoverNav")' /\ failures' = failures
      BY <1>3 DEF Performed, NextForm, NextRetry, PerformLabels
    <3>. QED BY <3>1, <3>2, BitFacts DEF Bit
  <2>2. Bit(pc = "carrier") \in {0, 1} /\ Bit(pc = "recoverNav") \in Nat /\ Bit((pc = "recoverNav")') = 0
        /\ Bit(InFlight) \in Nat /\ Bit(InFlight') \in Nat
    BY <2>1 DEF Bit
  <2>3. Balanced(Bit(pc = "carrier"), 0, 0, 0)
    <3>. HIDE DEF InFlight, CanaryStep
    <3>1. 0 + 0 + Bit(InFlight') <= Bit(pc = "carrier") + 0 + Bit(InFlight)
      BY <1>0, <1>3, <2>1, <2>2
    <3>2. 0 + Bit((pc = "recoverNav")') + failures <= Bit(pc = "recoverNav") + failures'
      BY <1>0, <1>3, <2>1, <2>2
    <3>3. Tally(Bit(pc = "carrier"), 0, 0, 0)
      BY <1>0, <1>3, <2>1, <2>2, PerformedTally
    <3>. QED BY <3>1, <3>2, <3>3 DEF Balanced
  <2>. QED BY <2>2, <2>3 DEF BalancedSomehow
<1>4. CASE NotPerformed
  <2>1. Bit(CanaryStep) <= Bit(pc = "carrier") + Bit(InFlight)
    BY DEF Bit
  <2>2. ~InFlight' /\ ~(pc = "recoverNav")' /\ failures' = failures + 1
    BY <1>4 DEF NotPerformed
  <2>3. Bit(pc = "carrier") \in {0, 1} /\ Bit(CanaryStep) \in {0, 1} /\ Bit(pc = "recoverNav") \in Nat
        /\ Bit((pc = "recoverNav")') = 0 /\ Bit(InFlight) \in Nat /\ Bit(InFlight') = 0
    BY <2>2 DEF Bit
  <2>4. Balanced(Bit(pc = "carrier"), Bit(CanaryStep), 0, 0)
    <3>. HIDE DEF InFlight, CanaryStep
    <3>1. 0 + Bit(CanaryStep) + Bit(InFlight') <= Bit(pc = "carrier") + 0 + Bit(InFlight)
      BY <1>0, <1>4, <2>1, <2>2, <2>3
    <3>2. 0 + Bit((pc = "recoverNav")') + failures <= Bit(pc = "recoverNav") + failures'
      BY <1>0, <1>4, <2>1, <2>2, <2>3
    <3>3. Tally(Bit(pc = "carrier"), Bit(CanaryStep), 0, 0)
      BY <1>0, <1>4, <2>1, <2>2, <2>3, NotPerformedTally
    <3>. QED BY <3>1, <3>2, <3>3 DEF Balanced
  <2>. QED BY <2>3, <2>4 DEF BalancedSomehow
<1>5. CASE Recover
  <2>1. ~InFlight' /\ ~(pc = "recoverNav")' /\ failures' = failures
    BY <1>5 DEF Recover
  <2>2. CASE Tally(0, 0, 0, 0)
    BY <2>1, <2>2, QuietBalance
  <2>3. CASE Tally(0, 0, 1, 1) /\ pc = "recoverNav"
    <3>1. Bit(pc = "recoverNav") = 1 /\ Bit((pc = "recoverNav")') = 0 /\ Bit(InFlight) \in Nat /\ Bit(InFlight') = 0
      BY <2>1, <2>3 DEF Bit
    <3>2. Balanced(0, 0, 1, 1)
      <4>. HIDE DEF InFlight, CanaryStep
      <4>1. 1 + 0 + Bit(InFlight') <= 0 + 1 + Bit(InFlight)
        BY <1>0, <2>1, <2>3, <3>1
      <4>2. 1 + Bit((pc = "recoverNav")') + failures <= Bit(pc = "recoverNav") + failures'
        BY <1>0, <2>1, <2>3, <3>1
      <4>3. Tally(0, 0, 1, 1)
        BY <1>0, <2>1, <2>3, <3>1
      <4>. QED BY <4>1, <4>2, <4>3 DEF Balanced
    <3>. QED BY <3>2 DEF BalancedSomehow
  <2>. QED BY <1>5, <2>2, <2>3, RecoverTally
<1>6. CASE Navigate
  <2>. DEFINE a == Bit(LinkInHand)  f == Bit(LinkInHand /\ pc' = "recoverNav")
  <2>1. /\ InFlight' => LinkInHand /\ pc' # "recoverNav"
        /\ pc # "recoverNav"
    BY <1>6 DEF Navigate, LinkInHand
  <2>2. a \in {0, 1} /\ f \in {0, 1} /\ f + Bit(InFlight') <= a /\ Bit(InFlight) \in Nat /\ Bit(InFlight') \in Nat
    BY <2>1 DEF Bit
  <2>3. Bit((pc = "recoverNav")') + failures <= failures' /\ Bit(pc = "recoverNav") = 0
             /\ Bit((pc = "recoverNav")') \in Nat
    BY <1>0, <1>6, <2>1, NavigateTally DEF Bit
  <2>4. Tally(a, f, 0, 0)
    BY <1>6, NavigateTally
  <2>. HIDE DEF a, f
  <2>5. Balanced(a, f, 0, 0)
    <3>. HIDE DEF InFlight, CanaryStep
    <3>1. 0 + f + Bit(InFlight') <= a + 0 + Bit(InFlight)
      BY <1>0, <2>2, <2>3, <2>4
    <3>2. 0 + Bit((pc = "recoverNav")') + failures <= Bit(pc = "recoverNav") + failures'
      BY <1>0, <2>2, <2>3, <2>4
    <3>3. Tally(a, f, 0, 0)
      BY <1>0, <2>2, <2>3, <2>4
    <3>. QED BY <3>1, <3>2, <3>3 DEF Balanced
  <2>. QED BY <2>2, <2>5 DEF BalancedSomehow
<1>7. CASE ObserveTap
  <2>1. /\ Bit(act.form) <= Bit(InFlight) /\ ~InFlight'
        /\ ~(pc = "recoverNav")' /\ failures' = failures
    BY <1>7 DEF ObserveTap, Bit
  <2>2. Bit(act.form) \in {0, 1} /\ Bit(pc = "recoverNav") \in Nat /\ Bit((pc = "recoverNav")') = 0
        /\ Bit(InFlight) \in Nat /\ Bit(InFlight') = 0
    BY <2>1 DEF Bit
  <2>3. Balanced(0, 0, Bit(act.form), 0)
    <3>. HIDE DEF InFlight, CanaryStep
    <3>1. Bit(act.form) + 0 + Bit(InFlight') <= 0 + 0 + Bit(InFlight)
      BY <1>0, <1>7, <2>1, <2>2
    <3>2. 0 + Bit((pc = "recoverNav")') + failures <= Bit(pc = "recoverNav") + failures'
      BY <1>0, <1>7, <2>1, <2>2
    <3>3. Tally(0, 0, Bit(act.form), 0)
      BY <1>0, <1>7, <2>1, <2>2, ObserveTapTally
    <3>. QED BY <3>1, <3>2, <3>3 DEF Balanced
  <2>. QED BY <2>2, <2>3 DEF BalancedSomehow
<1>8. CASE ObserveNav
  <2>1. /\ Bit(LinkInHand) <= Bit(InFlight) /\ ~InFlight'
        /\ ~(pc = "recoverNav")' /\ failures' = failures
    BY <1>8 DEF ObserveNav, Bit, LinkInHand
  <2>2. Bit(LinkInHand) \in {0, 1} /\ Bit(pc = "recoverNav") \in Nat /\ Bit((pc = "recoverNav")') = 0
        /\ Bit(InFlight) \in Nat /\ Bit(InFlight') = 0
    BY <2>1 DEF Bit
  <2>3. Balanced(0, 0, Bit(LinkInHand), 0)
    <3>. HIDE DEF InFlight, CanaryStep
    <3>1. Bit(LinkInHand) + 0 + Bit(InFlight') <= 0 + 0 + Bit(InFlight)
      BY <1>0, <1>8, <2>1, <2>2
    <3>2. 0 + Bit((pc = "recoverNav")') + failures <= Bit(pc = "recoverNav") + failures'
      BY <1>0, <1>8, <2>1, <2>2
    <3>3. Tally(0, 0, Bit(LinkInHand), 0)
      BY <1>0, <1>8, <2>1, <2>2, ObserveNavTally
    <3>. QED BY <3>1, <3>2, <3>3 DEF Balanced
  <2>. QED BY <2>2, <2>3 DEF BalancedSomehow
<1>9. CASE Unobserved
  <2>1. ~InFlight' /\ ~(pc = "recoverNav")' /\ failures' = failures
    BY <1>9 DEF Unobserved
  <2>2. CASE Tally(0, 0, 0, 0)
    BY <2>1, <2>2, QuietBalance
  <2>3. CASE Tally(0, 1, 0, 0) /\ pc = "observeTap" /\ act.form
    <3>1. Bit(InFlight) = 1 /\ Bit(InFlight') = 0 /\ Bit(pc = "recoverNav") \in Nat /\ Bit((pc = "recoverNav")') = 0
      BY <2>1, <2>3 DEF Bit
    <3>2. Balanced(0, 1, 0, 0)
      <4>. HIDE DEF InFlight, CanaryStep
      <4>1. 0 + 1 + Bit(InFlight') <= 0 + 0 + Bit(InFlight)
        BY <1>0, <2>1, <2>3, <3>1
      <4>2. 0 + Bit((pc = "recoverNav")') + failures <= Bit(pc = "recoverNav") + failures'
        BY <1>0, <2>1, <2>3, <3>1
      <4>3. Tally(0, 1, 0, 0)
        BY <1>0, <2>1, <2>3, <3>1
      <4>. QED BY <4>1, <4>2, <4>3 DEF Balanced
    <3>. QED BY <3>2 DEF BalancedSomehow
  <2>. QED BY <1>9, <2>2, <2>3, UnobservedTally
<1>10. CASE DeadlineReached
  <2>1. ~InFlight' /\ ~(pc = "recoverNav")' /\ failures' = failures
    BY <1>10 DEF DeadlineReached
  <2>2. CASE Tally(0, 0, 0, 0)
    BY <2>1, <2>2, QuietBalance
  <2>3. CASE Tally(1, 0, 0, 0)
    <3>1. Bit(InFlight) \in Nat /\ Bit(InFlight') = 0 /\ Bit(pc = "recoverNav") \in Nat
               /\ Bit((pc = "recoverNav")') = 0
      BY <2>1, <2>3 DEF Bit
    <3>2. Balanced(1, 0, 0, 0)
      <4>. HIDE DEF InFlight, CanaryStep
      <4>1. 0 + 0 + Bit(InFlight') <= 1 + 0 + Bit(InFlight)
        BY <1>0, <2>1, <2>3, <3>1
      <4>2. 0 + Bit((pc = "recoverNav")') + failures <= Bit(pc = "recoverNav") + failures'
        BY <1>0, <2>1, <2>3, <3>1
      <4>3. Tally(1, 0, 0, 0)
        BY <1>0, <2>1, <2>3, <3>1
      <4>. QED BY <4>1, <4>2, <4>3 DEF Balanced
    <3>. QED BY <3>2 DEF BalancedSomehow
  <2>. QED BY <1>10, <2>2, <2>3, DeadlineTally
<1>. QED BY <1>1, <1>2, <1>3, <1>4, <1>5, <1>6, <1>7, <1>8, <1>9, <1>10 DEF ExplorerNext, RunStep

\* Only a form that carries a canary is filled in to deliver it.
LEMMA FormStep ==
  ASSUME Shape, Accounts, ExplorerNext
  PROVE  pc' \in {"carrier", "support", "hideForm"} => act'.form
<1>. USE DEF StopAfter, Stop
<1>1. CASE Choose
  <2>1. ASSUME NEW a \in Eligible, NEW f \in BOOLEAN, Chosen(a, f), pc' = "carrier" PROVE act'.form
    <3>1. a \in Acts
      BY <1>1, OfferedFacts DEF Eligible, Choose, Shape, Before, Over
    <3>. QED BY <2>1, <3>1, FormFacts DEF Chosen
  <2>. QED BY <1>1, <2>1, ChooseFacts DEF Chosen
<1>2. CASE Performed
  BY <1>2 DEF Performed, PerformLabels, NextForm, NextRetry, Accounts
<1>3. CASE Start \/ First \/ Limit \/ Visit \/ NotPerformed \/ Recover \/ Navigate \/ ObserveTap
           \/ ObserveOther \/ ObserveNav
           \/ Unobserved \/ Idle \/ Process \/ DeadlineReached \/ Cleanup \/ AppMoves \/ TimePasses
  BY <1>3 DEF Start, First, Limit, Visit, NotPerformed, Recover, Navigate, ObserveTap, ObserveOther, ObserveNav,
              Unobserved, Idle, Process, DeadlineReached, Cleanup, AppMoves, TimePasses, Accounts
<1>. QED BY <1>1, <1>2, <1>3 DEF ExplorerNext, RunStep

\* Every step keeps the accounts of canaries.
LEMMA AccountsStep == ASSUME Shape, Accounts, ExplorerNext PROVE Accounts'
<1>1. PICK a \in {0, 1}, f \in {0, 1}, l \in {0, 1}, r \in {0, 1} : Balanced(a, f, l, r)
  BY AccountSteps, ShapeStep DEF BalancedSomehow
<1>2. /\ canary'["deliveries"] + canary'["failures"] + Bit(InFlight') <= canary'["attempts"] + canary'["recovered"]
      /\ canary'["recovered"] + Bit((pc = "recoverNav")') <= failures'
  BY <1>1, BalancedStep
<1>. QED BY <1>2, FormStep DEF Accounts

(***************************************************************************)
(* The theorems                                                            *)
(***************************************************************************)

\* The invariant holds when the run begins.
LEMMA InitIInv == ASSUME ExplorerInit PROVE IInv
<1>. USE DEF ExplorerInit
<1>1. Shape
  <2>1. ExplorerTypeOK
    <3>1. place \in Screens \cup Elsewhere /\ workspace \in BOOLEAN
      BY DEF Elsewhere
    <3>5. time \in 0..MaxTime /\ attempted \in Nat /\ failures \in 0..MaxFailures
      BY Constants
    <3>2. pc \in ExplorerLabels /\ termination \in Reasons
      BY DEF ExplorerLabels, Reasons
    <3>3. nav \in [Targets -> NavStatus] /\ canary \in [{"attempts", "failures", "deliveries", "recovered"} -> Nat]
      BY DEF NavStatus
    <3>4. history \in Seq(Screens) /\ visited \subseteq Screens /\ scrolled \subseteq Screens
               /\ pending \subseteq Targets
      OBVIOUS
    <3>. QED BY <3>1, <3>2, <3>3, <3>4, <3>5 DEF ExplorerTypeOK
  <2>2. IsFiniteSet(visited) /\ act \in Acts
    BY NoActFacts, FS_EmptySet
  <2>3. failures < MaxFailures
    BY Constants
  <2>. QED BY <2>1, <2>2, <2>3 DEF Shape, Before, Over, Navs
<1>2. Budget
  BY Constants DEF Budget, PerformLabels
<1>3. Depth
  BY Constants, FS_EmptySet DEF Depth, Forms, Navs
<1>4. Known /\ StaleHasCause
  BY DEF Known, Forms, StaleHasCause
<1>5. Waiting
  BY DEF Waiting, Before, Over, Navs
<1>6. Honest
  BY DEF Honest, Over
<1>7. Accounts
  BY DEF Accounts, InFlight, Bit, NoAct
<1>. QED BY <1>1, <1>2, <1>3, <1>4, <1>5, <1>6, <1>7 DEF IInv

\* Steps that change nothing keep the invariant.
LEMMA Stutter == ASSUME IInv, UNCHANGED explorerVars PROVE IInv'
<1>. USE DEF explorerVars
<1>1. Shape'
  BY DEF IInv, Shape, ExplorerTypeOK
<1>2. Budget' /\ Depth' /\ Known' /\ StaleHasCause'
  BY DEF IInv, Budget, Depth, Known, Key, StaleHasCause
<1>3. Waiting' /\ Honest'
  BY DEF IInv, Waiting, Honest
<1>4. Accounts'
  BY DEF IInv, Accounts, InFlight
<1>. QED BY <1>1, <1>2, <1>3, <1>4 DEF IInv

\* Every step keeps the invariant.
LEMMA NextIInv == ASSUME IInv, [ExplorerNext]_explorerVars PROVE IInv'
<1>1. CASE ExplorerNext
  <2>. USE <1>1
  <2>1. Shape' /\ Budget' /\ Depth' /\ StaleHasCause'
    BY ShapeStep, BudgetStep, DepthStep, StaleStep DEF IInv
  <2>2. Known'
    BY UnknownStep, KeyStep DEF IInv, Known
  <2>3. Waiting' /\ Honest' /\ Accounts'
    BY WaitingStep, HonestStep, AccountsStep DEF IInv
  <2>. QED BY <2>1, <2>2, <2>3 DEF IInv
<1>2. CASE UNCHANGED explorerVars
  BY <1>2, Stutter
<1>. QED BY <1>1, <1>2

\* Every reachable state satisfies the invariant.
THEOREM Invariance == ExplorerSpec => []IInv
BY InitIInv, NextIInv, PTL DEF ExplorerSpec

\* The limits of ExplorerConfig hold over every path through forms, retries, navigations
\* and recoveries, whatever they are (AndroidExplorer.run).
THEOREM LimitsAreHeld == ExplorerSpec => []LimitsHold
<1>1. IInv => LimitsHold
  BY DEF IInv, Shape, Budget, Depth, LimitsHold, BudgetsHold, ExplorerLimited
<1>. QED BY <1>1, Invariance, PTL

\* No tap whose outcome nobody knows is sent again from the same screen, and the loop acts
\* on the screen it saw last unless a started activity did not resume.
THEOREM NeverActsBlindly == ExplorerSpec => []NoBlindAction
<1>1. IInv => NoBlindRepeat
  BY DEF IInv, Known, Key, Forms, NoBlindRepeat
<1>2. IInv => StaleScreenHasCause
  BY DEF IInv, StaleHasCause, StaleScreenHasCause
<1>. QED BY <1>1, <1>2, Invariance, PTL DEF NoBlindAction

\* The result gives a verdict to every target of the manifest, hides no failure and no
\* leftover, and accounts for every canary.
THEOREM ResultIsTruthful == ExplorerSpec => []ResultTruthful
<1>1. IInv => NavigationSettled
  BY DEF IInv, Waiting, NavigationSettled, Over
<1>2. IInv => TruthfulResult
  <2>1. IInv => failures \in Nat
    BY Constants DEF IInv, Shape, ExplorerTypeOK
  <2>. QED BY <2>1 DEF IInv, Honest, TruthfulResult, Over
<1>3. IInv => CanaryAccounts
  <2>1. IInv => /\ canary["attempts"] \in Nat /\ canary["failures"] \in Nat /\ canary["deliveries"] \in Nat
                /\ canary["recovered"] \in Nat /\ failures \in Nat
    BY Constants, CanaryTyped DEF IInv, Shape, ExplorerTypeOK, Tallies
  <2>2. Bit(InFlight) \in {0, 1} /\ Bit(pc = "recoverNav") \in {0, 1}
    BY BitFacts
  <2>. QED BY <2>1, <2>2 DEF IInv, Accounts, CanaryAccounts
<1>. QED BY <1>1, <1>2, <1>3, Invariance, PTL DEF ResultTruthful
===============================================================================
