----------------------------- MODULE StringScan -----------------------------
(***************************************************************************)
(* The search for secrets and endpoints in the strings of one APK          *)
(* (static_apk_analysis.py): every region - a string of a DEX file, a line *)
(* of a text file, a resource string - is searched through windows that    *)
(* overlap, under budgets of bytes, candidates and time that its file and  *)
(* the APK share.  A token is what a pattern matches: the bytes from       *)
(* [1] up to [2] of the region.  What is left of a token whose beginning a *)
(* window cuts off does not match; one whose end is cut off does.          *)
(***************************************************************************)
EXTENDS Integers, Sequences, FiniteSets

CONSTANTS
  Policies,          \* [chunk, string, file, source, candidates]
  Apks               \* an APK is a sequence of [file, size, tokens, long]

Regions == [file : STRING, size : Nat, tokens : SUBSET (Nat \X Nat), long : BOOLEAN]

ASSUME ScanAssumption ==
  /\ Policies \subseteq [chunk : Nat, string : Nat \ {0}, file : Nat, source : Nat, candidates : Nat \ {0}]
  /\ \A p \in Policies : p.string < p.chunk /\ p.chunk <= p.file /\ p.file <= p.source
  /\ Apks \subseteq Seq(Regions)
  /\ \A a \in Apks : \A i \in DOMAIN a : \A t \in a[i].tokens : t[1] < t[2] /\ t[2] <= a[i].size

VARIABLES
  policy, apk,
  region,            \* the region in hand, Len(apk) + 1 at the end
  offset, covered,   \* where the next window starts, what was charged so far
  size, whole,       \* how much of the region may be searched, and whether that is all of it
  entered,           \* the region was measured
  fileUsed, sourceUsed, timedOut, scanLimits,
  found,             \* <<region, first, last>> of every candidate recorded
  searched           \* history: how far each region was searched

stringVars == <<policy, apk, region, offset, covered, size, whole, entered, fileUsed, sourceUsed, timedOut,
                scanLimits, found, searched>>

Limits == {"file_bytes", "source_bytes", "candidates", "candidate_bytes", "timeout"}
ScannedFiles == UNION {{a[i].file : i \in DOMAIN a} : a \in Apks}

StringTypeOK ==
  /\ policy \in Policies /\ apk \in Apks /\ region \in 1..(Len(apk) + 1)
  /\ offset \in Nat /\ covered \in Nat /\ size \in Nat /\ whole \in BOOLEAN /\ entered \in BOOLEAN
  /\ \A f \in ScannedFiles : fileUsed[f] \in 0..policy.file
  /\ sourceUsed \in 0..policy.source /\ timedOut \in BOOLEAN /\ scanLimits \subseteq Limits
  /\ Cardinality(found) <= policy.candidates

Least(S) == CHOOSE x \in S : \A y \in S : x <= y
Overlap == Least({policy.string, policy.chunk - 1})
FileLeft == policy.file - fileUsed[apk[region].file]
SourceLeft == policy.source - sourceUsed

\* What a region may still have.
Left == Least({FileLeft, SourceLeft})
Full == Cardinality(found) >= policy.candidates
Scarce == (IF FileLeft <= SourceLeft THEN {"file_bytes"} ELSE {}) \cup (IF SourceLeft <= FileLeft THEN {"source_bytes"} ELSE {})

StringInit ==
  /\ policy \in Policies /\ apk \in Apks /\ region = 1
  /\ offset = 0 /\ covered = 0 /\ size = 0 /\ whole = TRUE /\ entered = FALSE
  /\ fileUsed = [f \in ScannedFiles |-> 0] /\ sourceUsed = 0 /\ timedOut = FALSE /\ scanLimits = {}
  /\ found = {} /\ searched = <<>>

NextRegion(reached) ==
  /\ region' = region + 1 /\ entered' = FALSE /\ offset' = 0 /\ covered' = 0
  /\ searched' = Append(searched, reached) /\ UNCHANGED <<size, whole>>

\* _string_scan_timed_out: the clock starts with the first question.
TimedOut ==
  \/ timedOut /\ UNCHANGED <<timedOut, scanLimits>>
  \/ ~timedOut /\ (sourceUsed > 0 \/ entered) /\ timedOut' = TRUE /\ scanLimits' = scanLimits \cup {"timeout"}

\* Why a claim gets nothing.
Denied ==
  \/ TimedOut
  \/ /\ ~timedOut /\ UNCHANGED timedOut
     /\ \/ Full /\ scanLimits' = scanLimits \cup {"candidates"}
        \/ ~Full /\ Left = 0 /\ scanLimits' = scanLimits \cup Scarce

\* An ordinary string is searched to its end; of one that is too long for the
\* string table only as much as the budgets have left is looked for an end in.
Measure ==
  /\ region <= Len(apk) /\ ~entered
  /\ LET r == apk[region] IN
       \/ r.long /\ (IF Left = 0 THEN Denied ELSE TimedOut) /\ NextRegion(0)
       \/ /\ r.long => Left > 0 /\ ~timedOut
          /\ entered' = TRUE /\ size' = IF r.long THEN Least({r.size, Left}) ELSE r.size
          /\ whole' = (~r.long \/ r.size < Left)
          /\ scanLimits' = scanLimits \cup (IF whole' THEN {} ELSE Scarce)
          /\ UNCHANGED <<region, offset, covered, searched, timedOut>>
  /\ UNCHANGED <<policy, apk, fileUsed, sourceUsed, found>>

\* _accepted_scan_match
Accepted(last, end, final) == final \/ last < end

\* What the patterns find in a window.
Matches(end, final) ==
  {m \in {<<t[1], Least({t[2], end})>> : t \in {u \in apk[region].tokens : offset <= u[1] /\ u[1] < end}} :
     Accepted(m[2], end, final)}

\* Mutation: the next window starts where the last one ended.
AdvanceNoOverlap(end) == end

\* The step to the next window of _scan_encoded_region.
Advance(end) ==
  LET step == offset + policy.chunk - Overlap IN IF step > end - Overlap THEN step ELSE end - Overlap

\* The bytes that no window has had yet.
Requested(end) == end - covered

\* Mutation: a refused claim is made again.
RefusedWaits == Denied /\ UNCHANGED <<policy, apk, region, offset, covered, size, whole, entered, fileUsed, sourceUsed, found, searched>>

\* _claim_string_scan_bytes refuses: nothing more of this region is searched.
Refused == Denied /\ NextRegion(covered) /\ UNCHANGED <<policy, apk, fileUsed, sourceUsed, found>>

\* A window of _scan_encoded_region with what _record_secret and _record_endpoint
\* make of the matches; which of too many are recorded is the order of patterns.
Window ==
  LET end == Least({offset + policy.chunk, size})
      allowed == Least({Requested(end), Left})
      last == covered + allowed
      fresh == {<<region, m[1], m[2]>> : m \in Matches(last, whole /\ last >= size)} \ found
      small == {c \in fresh : c[3] - c[2] <= policy.string}
  IN /\ allowed > 0 /\ ~timedOut /\ ~Full
     /\ fileUsed' = [fileUsed EXCEPT ![apk[region].file] = @ + allowed] /\ sourceUsed' = sourceUsed + allowed
     /\ \E recorded \in SUBSET small :
          /\ recorded = small \/ Cardinality(found \cup recorded) = policy.candidates
          /\ Cardinality(found \cup recorded) <= policy.candidates
          /\ found' = found \cup recorded
          /\ scanLimits' = scanLimits \cup (IF allowed < Requested(end) THEN Scarce ELSE {})
                         \cup (IF recorded # small THEN {"candidates"} ELSE {})
                         \cup (IF fresh # small THEN {"candidate_bytes"} ELSE {})
     /\ IF allowed < Requested(end) \/ last >= size THEN NextRegion(last)
        ELSE offset' = Advance(last) /\ covered' = last /\ UNCHANGED <<region, size, whole, entered, searched>>
     /\ UNCHANGED <<policy, apk, timedOut>>

\* A region with nothing in it is done.
EmptyRegion ==
  /\ size = 0 /\ NextRegion(0) /\ UNCHANGED <<policy, apk, fileUsed, sourceUsed, timedOut, scanLimits, found>>

ScanRegion == region <= Len(apk) /\ entered /\ (IF size = 0 THEN EmptyRegion ELSE Refused \/ Window)

StringNext == Measure \/ ScanRegion
StringSpec == StringInit /\ [][StringNext]_stringVars

(***************************************************************************)
(* Properties                                                              *)
(***************************************************************************)
\* A result without a limitation has searched everything, and no token that is
\* short enough to be a candidate was lost where two windows meet.
NothingLost ==
  region > Len(apk) /\ scanLimits = {} =>
    \A i \in DOMAIN apk : /\ searched[i] = apk[i].size
                          /\ \A t \in apk[i].tokens : t[2] - t[1] <= policy.string => <<i, t[1], t[2]>> \in found

\* No piece of a token is taken for a candidate, wherever a window or a budget ends.
OnlyWholeTokens == \A c \in found : <<c[2], c[3]>> \in apk[c[1]].tokens

\* The bytes a window has had, each once.
BytesSearched ==
  (UNION {{i} \X (0..(searched[i] - 1)) : i \in DOMAIN searched}) \cup ({region} \X (0..(covered - 1)))

\* The overlap of windows is charged once: the budget pays for bytes searched.
ChargedOnce ==
  /\ sourceUsed = Cardinality(BytesSearched) /\ covered <= size
  /\ \A i \in DOMAIN searched : searched[i] <= apk[i].size

\* The windows find every token whole, search every byte once, and say what they left.
SearchComplete == StringTypeOK /\ NothingLost /\ OnlyWholeTokens /\ ChargedOnce
=============================================================================
