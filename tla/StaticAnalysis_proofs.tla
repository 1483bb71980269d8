------------------------ MODULE StaticAnalysis_proofs ------------------------
(***************************************************************************)
(* What the static analyses of an APK report, for every instance of their  *)
(* models.                                                                 *)
(*                                                                         *)
(* The search through the strings finds every token whole, searches and    *)
(* charges every byte once, and says what it left.  The pass over the code *)
(* of a method claims of a call only what the machine can have passed to   *)
(* it.  And the walk over the archives without a limitation has analysed   *)
(* every entry that it should, inside its budgets.                         *)
(***************************************************************************)
EXTENDS StringScan, DexFlow, ArchiveScan, FiniteSetTheorems, TLAPS

(***************************************************************************)
(*                   The search through the windows of an APK              *)
(***************************************************************************)

LEMMA LeastIs ==
  ASSUME NEW a \in Int, NEW b \in Int
  PROVE  /\ Least({a, b}) \in Int /\ Least({a, b}) \in {a, b} /\ Least({a, b}) <= a /\ Least({a, b}) <= b
<1>1. \E x \in {a, b} : \A y \in {a, b} : x <= y
  OBVIOUS
<1>2. Least({a, b}) \in {a, b} /\ \A y \in {a, b} : Least({a, b}) <= y
  BY <1>1 DEF Least
<1>. QED BY <1>2

\* The bytes that are charged: those of the regions behind and those of this one.
Charged(s, r, c) == (UNION {{i} \X (0..(s[i] - 1)) : i \in DOMAIN s}) \cup ({r} \X (0..(c - 1)))

LEMMA ChargedIs ==
  ASSUME NEW s, NEW r, NEW c, NEW x
  PROVE  x \in Charged(s, r, c) <=> \/ \E i \in DOMAIN s : x \in {i} \X (0..(s[i] - 1))
                                    \/ x \in {r} \X (0..(c - 1))
<1>1. PICK P : P = UNION {{i} \X (0..(s[i] - 1)) : i \in DOMAIN s}
  OBVIOUS
<1>2. PICK R : R = {r} \X (0..(c - 1))
  OBVIOUS
<1>3. Charged(s, r, c) = P \cup R
  BY <1>1, <1>2 DEF Charged
<1>4. x \in P <=> \E i \in DOMAIN s : x \in {i} \X (0..(s[i] - 1))
  BY <1>1, Zenon
<1>5. x \in P \cup R <=> x \in P \/ x \in R
  OBVIOUS
<1>. QED BY <1>2, <1>3, <1>4, <1>5, Zenon

LEMMA IntervalIs ==
  ASSUME NEW c \in Nat, NEW n \in Nat, c <= n
  PROVE  IsFiniteSet(c..(n - 1)) /\ Cardinality(c..(n - 1)) = n - c
<1>1. PICK m \in Int : m = n - 1
  OBVIOUS
<1>2. IsFiniteSet(c..m) /\ Cardinality(c..m) = IF c > m THEN 0 ELSE m - c + 1
  BY FS_Interval
<1>. QED BY <1>1, <1>2

\* A window that goes on from c to n charges n - c bytes that nobody has paid for.
LEMMA ChargingIs ==
  ASSUME NEW s \in Seq(Nat), NEW c \in Nat, NEW n \in Nat, c <= n, IsFiniteSet(Charged(s, Len(s) + 1, c))
  PROVE  /\ IsFiniteSet(Charged(s, Len(s) + 1, n))
         /\ Cardinality(Charged(s, Len(s) + 1, n)) = Cardinality(Charged(s, Len(s) + 1, c)) + (n - c)
         /\ Charged(Append(s, n), Len(s) + 2, 0) = Charged(s, Len(s) + 1, n)
<1>r. PICK r \in Nat : r = Len(s) + 1
  OBVIOUS
<1>. DEFINE New == {r} \X (c..(n - 1))
<1>1. PICK B : B = Charged(s, r, c)
  OBVIOUS
<1>2. IsFiniteSet(New) /\ Cardinality(New) = n - c
      /\ {r} \X (0..(n - 1)) = ({r} \X (0..(c - 1))) \cup New
  <2>1. IsFiniteSet({r}) /\ Cardinality({r}) = 1
    BY FS_Singleton
  <2>2. IsFiniteSet(c..(n - 1)) /\ Cardinality(c..(n - 1)) = n - c
    BY IntervalIs
  <2>3. IsFiniteSet({r} \X (c..(n - 1))) /\ Cardinality({r} \X (c..(n - 1))) = Cardinality({r}) * Cardinality(c..(n - 1))
    BY <2>1, <2>2, FS_Product
  <2>4. Cardinality({r} \X (c..(n - 1))) = n - c
    BY <2>1, <2>2, <2>3
  <2>5. 0..(n - 1) = (0..(c - 1)) \cup (c..(n - 1))
    OBVIOUS
  <2>. QED BY <2>3, <2>4, <2>5
<1>3. Charged(s, r, n) = B \cup New
  <2>0. PICK Old : Old = UNION {{i} \X (0..(s[i] - 1)) : i \in DOMAIN s}
    OBVIOUS
  <2>1. Charged(s, r, n) = Old \cup ({r} \X (0..(n - 1))) /\ B = Old \cup ({r} \X (0..(c - 1)))
    BY <1>1, <2>0 DEF Charged
  <2>. HIDE DEF New
  <2>. QED BY <1>2, <2>1
<1>4. B \cap New = {}
  <2>. SUFFICES ASSUME NEW x \in B, x \in New PROVE FALSE
    OBVIOUS
  <2>1. PICK b \in c..(n - 1) : x = <<r, b>>
    OBVIOUS
  <2>2. \/ \E i \in DOMAIN s : x \in {i} \X (0..(s[i] - 1))
        \/ x \in {r} \X (0..(c - 1))
    BY <1>1, ChargedIs
  <2>3. ASSUME NEW i \in DOMAIN s, x \in {i} \X (0..(s[i] - 1)) PROVE FALSE
    <3>1. r = i
      BY <2>1, <2>3
    <3>2. i \in 1..Len(s) /\ Len(s) \in Nat
      OBVIOUS
    <3>. QED BY <1>r, <3>1, <3>2
  <2>4. ASSUME x \in {r} \X (0..(c - 1)) PROVE FALSE
    <3>1. b \in 0..(c - 1)
      BY <2>1, <2>4
    <3>. QED BY <3>1
  <2>. QED BY <2>2, <2>3, <2>4
<1>5. Charged(Append(s, n), Len(s) + 2, 0) = Charged(s, r, n)
  <2>1. PICK z : z = Append(s, n) /\ DOMAIN z = (DOMAIN s) \cup {r} /\ z[r] = n /\ \A i \in DOMAIN s : z[i] = s[i]
    <3>1. DOMAIN Append(s, n) = (DOMAIN s) \cup {r}
      BY <1>r
    <3>2. Append(s, n)[r] = n /\ \A i \in DOMAIN s : Append(s, n)[i] = s[i]
      BY <1>r
    <3>. QED BY <3>1, <3>2
  <2>2. 0..(0 - 1) = {}
    OBVIOUS
  <2>3. \A x : x \in Charged(z, Len(s) + 2, 0) <=> x \in Charged(s, r, n)
    <3>. SUFFICES ASSUME NEW x PROVE x \in Charged(z, Len(s) + 2, 0) <=> x \in Charged(s, r, n)
      OBVIOUS
    <3>1. x \in Charged(z, Len(s) + 2, 0) <=> \E i \in DOMAIN z : x \in {i} \X (0..(z[i] - 1))
      <4>1. x \notin {Len(s) + 2} \X (0..(0 - 1))
        BY <2>2
      <4>. QED BY <4>1, ChargedIs
    <3>2. (\E i \in DOMAIN z : x \in {i} \X (0..(z[i] - 1))) <=>
            (\E i \in DOMAIN s : x \in {i} \X (0..(s[i] - 1))) \/ x \in {r} \X (0..(n - 1))
      BY <2>1
    <3>. QED BY <3>1, <3>2, ChargedIs
  <2>4. Charged(z, Len(s) + 2, 0) = Charged(s, r, n)
    <3>. QED BY <2>3
  <2>. QED BY <2>1, <2>4
<1>. HIDE DEF New
<1>6. IsFiniteSet(B) /\ Cardinality(B) \in Nat
  BY <1>r, <1>1, FS_CardinalityType
<1>7. IsFiniteSet(B \cup New) /\ Cardinality(B \cup New) = Cardinality(B) + Cardinality(New)
  <2>1. IsFiniteSet(B \cup New) /\ Cardinality(B \cup New) = Cardinality(B) + Cardinality(New) - Cardinality(B \cap New)
    BY <1>2, <1>6, FS_Union
  <2>2. Cardinality(B \cap New) = 0
    BY <1>4, FS_EmptySet
  <2>. QED BY <1>2, <1>6, <2>1, <2>2
<1>8. IsFiniteSet(Charged(s, r, n)) /\ Cardinality(Charged(s, r, n)) = Cardinality(Charged(s, r, c)) + (n - c)
  BY <1>1, <1>2, <1>3, <1>7
<1>. QED BY <1>r, <1>5, <1>8

ScanTypes ==
  /\ policy \in Policies /\ apk \in Apks /\ region \in 1..(Len(apk) + 1)
  /\ offset \in Nat /\ covered \in Nat /\ size \in Nat
  /\ fileUsed \in [ScannedFiles -> Nat] /\ \A f \in ScannedFiles : fileUsed[f] <= policy.file
  /\ sourceUsed \in 0..policy.source /\ scanLimits \subseteq Limits /\ Cardinality(found) <= policy.candidates
  /\ searched \in Seq(Nat) /\ Len(searched) + 1 = region

Flags == whole \in BOOLEAN /\ entered \in BOOLEAN /\ timedOut \in BOOLEAN /\ (timedOut => scanLimits # {})

\* A window begins where the last one could still have cut a candidate off, and a
\* region that is not searched as a whole has a limitation.
WindowsMeet ==
  /\ (covered = 0 /\ offset = 0) \/ (covered <= size /\ offset + policy.string = covered)
  /\ ~entered => covered = 0
  /\ entered => /\ region <= Len(apk) /\ size <= apk[region].size
                /\ whole => size = apk[region].size
                /\ ~whole => scanLimits # {}

Short(t) == t[2] - t[1] <= policy.string

\* Without a limitation, what is behind has been searched and found.
FoundSoFar ==
  scanLimits = {} =>
    /\ \A i \in DOMAIN searched : /\ searched[i] = apk[i].size
                                  /\ \A t \in apk[i].tokens : Short(t) => <<i, t[1], t[2]>> \in found
    /\ region <= Len(apk) => \A t \in apk[region].tokens : Short(t) /\ t[2] < covered => <<region, t[1], t[2]>> \in found

Paid ==
  /\ IsFiniteSet(Charged(searched, region, covered)) /\ sourceUsed = Cardinality(Charged(searched, region, covered))
  /\ \A i \in DOMAIN searched : searched[i] <= apk[i].size

ScanInv == ScanTypes /\ Flags /\ WindowsMeet /\ FoundSoFar /\ OnlyWholeTokens /\ Paid

LEMMA PolicyIs ==
  ASSUME ScanAssumption, policy \in Policies
  PROVE  /\ policy.chunk \in Nat /\ policy.string \in Nat \ {0} /\ policy.file \in Nat /\ policy.source \in Nat /\ policy.candidates \in Nat
         /\ policy.string < policy.chunk /\ Overlap = policy.string
<1>1. /\ policy.chunk \in Nat /\ policy.string \in Nat \ {0} /\ policy.file \in Nat /\ policy.source \in Nat /\ policy.candidates \in Nat
      /\ policy.string < policy.chunk
  BY DEF ScanAssumption
<1>2. Overlap = policy.string
  <2>1. PICK a \in Int, b \in Int : a = policy.string /\ b = policy.chunk - 1 /\ a <= b
    BY <1>1
  <2>2. Overlap = Least({a, b})
    BY <2>1 DEF Overlap
  <2>3. Least({a, b}) \in {a, b} /\ Least({a, b}) <= a /\ Least({a, b}) <= b
    BY LeastIs, Zenon
  <2>4. Least({a, b}) = a
    <3>1. PICK l : l = Least({a, b})
      OBVIOUS
    <3>2. l \in {a, b} /\ l <= a
      BY <2>3, <3>1, Zenon
    <3>3. l = a
      BY <2>1, <3>2
    <3>. QED BY <3>1, <3>3
  <2>. QED BY <2>1, <2>2, <2>4
<1>. QED BY <1>1, <1>2

LEMMA RegionsAre ==
  ASSUME ScanAssumption, apk \in Apks
  PROVE  /\ Len(apk) \in Nat /\ DOMAIN apk = 1..Len(apk)
         /\ \A i \in 1..Len(apk) : /\ apk[i] \in Regions /\ apk[i].size \in Nat /\ apk[i].file \in ScannedFiles
                                   /\ \A t \in apk[i].tokens : /\ t[1] \in Nat /\ t[2] \in Nat /\ t = <<t[1], t[2]>>
                                                               /\ t[1] < t[2] /\ t[2] <= apk[i].size
<1>1. apk \in Seq(Regions)
  BY DEF ScanAssumption
<1>2. Len(apk) \in Nat /\ DOMAIN apk = 1..Len(apk)
  BY <1>1
<1>3. ASSUME NEW i \in 1..Len(apk)
      PROVE  /\ apk[i] \in Regions /\ apk[i].size \in Nat /\ apk[i].file \in ScannedFiles
             /\ \A t \in apk[i].tokens : /\ t[1] \in Nat /\ t[2] \in Nat /\ t = <<t[1], t[2]>>
                                         /\ t[1] < t[2] /\ t[2] <= apk[i].size
  <2>1. apk[i] \in Regions
    BY <1>1
  <2>2. apk[i].size \in Nat /\ apk[i].tokens \subseteq Nat \X Nat
    BY <2>1 DEF Regions
  <2>3. apk[i].file \in ScannedFiles
    BY <1>2 DEF ScannedFiles
  <2>4. \A t \in apk[i].tokens : t[1] < t[2] /\ t[2] <= apk[i].size
    BY <1>2 DEF ScanAssumption
  <2>5. \A t \in apk[i].tokens : t[1] \in Nat /\ t[2] \in Nat /\ t = <<t[1], t[2]>>
    BY <2>2
  <2>. QED BY <2>1, <2>2, <2>3, <2>4, <2>5
<1>. QED BY <1>2, <1>3

LEMMA LeftIs ==
  ASSUME ScanAssumption, ScanTypes, region <= Len(apk)
  PROVE  /\ region \in 1..Len(apk) /\ apk[region].file \in ScannedFiles
         /\ FileLeft \in Nat /\ SourceLeft \in Nat /\ Left \in Nat /\ Left <= FileLeft /\ Left <= SourceLeft
         /\ Scarce # {} /\ Scarce \subseteq Limits
<1>1. region \in 1..Len(apk) /\ apk[region].file \in ScannedFiles
  BY RegionsAre DEF ScanTypes
<1>2. FileLeft \in Nat /\ SourceLeft \in Nat
  <2>1. policy \in Policies /\ fileUsed \in [ScannedFiles -> Nat] /\ (\A f \in ScannedFiles : fileUsed[f] <= policy.file) /\ sourceUsed \in 0..policy.source
    BY DEF ScanTypes
  <2>2. policy.file \in Nat /\ policy.source \in Nat
    BY <2>1, PolicyIs
  <2>3. fileUsed[apk[region].file] \in Nat /\ fileUsed[apk[region].file] <= policy.file
    BY <1>1, <2>1
  <2>. QED BY <2>1, <2>2, <2>3 DEF FileLeft, SourceLeft
<1>3. Left \in Nat /\ Left <= FileLeft /\ Left <= SourceLeft
  <2>1. PICK a \in Int, b \in Int : a = FileLeft /\ b = SourceLeft
    BY <1>2
  <2>2. Left = Least({a, b})
    BY <2>1 DEF Left
  <2>3. Left \in {a, b} /\ Left <= a /\ Left <= b
    BY <2>2, LeastIs
  <2>. QED BY <1>2, <2>1, <2>3
<1>4. Scarce # {} /\ Scarce \subseteq Limits
  BY <1>2 DEF Scarce, Limits
<1>. QED BY <1>1, <1>2, <1>3, <1>4

LEMMA DeniedIs ==
  ASSUME ScanAssumption, ScanTypes, Flags, region <= Len(apk), Denied \/ TimedOut
  PROVE  /\ scanLimits \subseteq scanLimits' /\ scanLimits' \subseteq Limits /\ scanLimits' # {}
         /\ timedOut' \in BOOLEAN
<1>1. scanLimits \subseteq Limits /\ Scarce # {} /\ Scarce \subseteq Limits
  BY LeftIs DEF ScanTypes
<1>2. \/ timedOut /\ timedOut' = timedOut /\ scanLimits' = scanLimits
      \/ timedOut' = TRUE /\ scanLimits' = scanLimits \cup {"timeout"}
      \/ timedOut' = timedOut /\ \E S \in {Scarce, {"candidates"}} : scanLimits' = scanLimits \cup S
  BY DEF Denied, TimedOut
<1>3. timedOut \in BOOLEAN /\ (timedOut => scanLimits # {})
  BY DEF Flags
<1>4. timedOut' \in BOOLEAN
  BY <1>2, <1>3, Zenon
<1>5. CASE timedOut /\ scanLimits' = scanLimits
  BY <1>1, <1>3, <1>5, <1>4
<1>6. CASE \E S \in {Scarce, {"candidates"}, {"timeout"}} : scanLimits' = scanLimits \cup S
  <2>1. scanLimits \subseteq scanLimits' /\ scanLimits' \subseteq Limits /\ scanLimits' # {}
    BY <1>1, <1>6 DEF Limits
  <2>. QED BY <1>4, <2>1
<1>. QED BY <1>2, <1>5, <1>6

\* What a step that has come to n has recorded, in the budgets and of the tokens.
Recorded(n) ==
  /\ policy' = policy /\ apk' = apk /\ covered <= n /\ n <= apk[region].size
  /\ fileUsed' \in [ScannedFiles -> Nat] /\ \A f \in ScannedFiles : fileUsed'[f] <= policy.file
  /\ sourceUsed' = sourceUsed + (n - covered) /\ sourceUsed' <= policy.source
  /\ scanLimits \subseteq scanLimits' /\ scanLimits' \subseteq Limits
  /\ found \subseteq found' /\ Cardinality(found') <= policy.candidates
  /\ \A c \in found' : c \in found \/ <<c[2], c[3]>> \in apk[c[1]].tokens

Clocked == timedOut' \in BOOLEAN /\ (timedOut' => scanLimits' # {})

LEMMA PaidTypes ==
  ASSUME ScanAssumption, ScanTypes, Paid, NEW n \in Nat, Recorded(n)
  PROVE  /\ policy' \in Policies /\ apk' \in Apks /\ Len(apk') = Len(apk)
         /\ fileUsed' \in [ScannedFiles -> Nat] /\ \A f \in ScannedFiles : fileUsed'[f] <= policy'.file
         /\ sourceUsed' \in 0..policy'.source /\ scanLimits' \subseteq Limits /\ Cardinality(found') <= policy'.candidates
         /\ sourceUsed' = Cardinality(Charged(searched, region, n)) /\ IsFiniteSet(Charged(searched, region, n))
         /\ Charged(Append(searched, n), region + 1, 0) = Charged(searched, region, n)
<1>1. policy' = policy /\ apk' = apk /\ policy \in Policies /\ apk \in Apks
  BY DEF Recorded, ScanTypes
<1>2. policy' \in Policies /\ apk' \in Apks /\ Len(apk') = Len(apk)
  BY <1>1
<1>3. fileUsed' \in [ScannedFiles -> Nat] /\ \A f \in ScannedFiles : fileUsed'[f] <= policy'.file
  BY <1>1 DEF Recorded
<1>4. sourceUsed' \in 0..policy'.source
  BY <1>1, PolicyIs DEF Recorded, ScanTypes
<1>5. scanLimits' \subseteq Limits /\ Cardinality(found') <= policy'.candidates
  BY <1>1 DEF Recorded
<1>6. PICK s \in Seq(Nat), c \in Nat : s = searched /\ c = covered
  BY DEF ScanTypes
<1>7. region = Len(s) + 1 /\ region + 1 = Len(s) + 2 /\ Len(s) \in Nat
  BY <1>6 DEF ScanTypes
<1>8. IsFiniteSet(Charged(s, Len(s) + 1, c)) /\ sourceUsed = Cardinality(Charged(s, Len(s) + 1, c))
  BY <1>6, <1>7 DEF Paid
<1>9. c <= n /\ sourceUsed' = sourceUsed + (n - c)
  BY <1>6 DEF Recorded
<1>10. /\ IsFiniteSet(Charged(s, Len(s) + 1, n))
       /\ Cardinality(Charged(s, Len(s) + 1, n)) = Cardinality(Charged(s, Len(s) + 1, c)) + (n - c)
       /\ Charged(Append(s, n), Len(s) + 2, 0) = Charged(s, Len(s) + 1, n)
  BY <1>8, <1>9, ChargingIs
<1>11. sourceUsed' = Cardinality(Charged(searched, region, n)) /\ IsFiniteSet(Charged(searched, region, n))
       /\ Charged(Append(searched, n), region + 1, 0) = Charged(searched, region, n)
  BY <1>6, <1>7, <1>8, <1>9, <1>10
<1>. QED BY <1>2, <1>3, <1>4, <1>5, <1>11

LEMMA WholeKept ==
  ASSUME OnlyWholeTokens, NEW n, Recorded(n) PROVE OnlyWholeTokens'
<1>1. apk' = apk /\ \A c \in found' : c \in found \/ <<c[2], c[3]>> \in apk[c[1]].tokens
  BY DEF Recorded
<1>2. \A c \in found' : <<c[2], c[3]>> \in apk[c[1]].tokens
  BY <1>1 DEF OnlyWholeTokens
<1>. QED BY <1>1, <1>2 DEF OnlyWholeTokens

\* The region is done, as far as n.
LEMMA NextRegionKept ==
  ASSUME ScanAssumption, ScanInv, region <= Len(apk), NEW n \in Nat, Recorded(n), Clocked, NextRegion(n),
         scanLimits' = {} => /\ n = apk[region].size
                             /\ \A t \in apk[region].tokens : Short(t) => <<region, t[1], t[2]>> \in found'
  PROVE  ScanInv'
<1>1. ScanTypes /\ Flags /\ WindowsMeet /\ FoundSoFar /\ OnlyWholeTokens /\ Paid
  BY DEF ScanInv
<1>2. /\ policy' \in Policies /\ apk' \in Apks /\ Len(apk') = Len(apk)
      /\ fileUsed' \in [ScannedFiles -> Nat] /\ \A f \in ScannedFiles : fileUsed'[f] <= policy'.file
      /\ sourceUsed' \in 0..policy'.source /\ scanLimits' \subseteq Limits /\ Cardinality(found') <= policy'.candidates
      /\ sourceUsed' = Cardinality(Charged(searched, region, n)) /\ IsFiniteSet(Charged(searched, region, n))
      /\ Charged(Append(searched, n), region + 1, 0) = Charged(searched, region, n)
  BY <1>1, PaidTypes
<1>3. /\ policy' = policy /\ apk' = apk /\ n <= apk[region].size /\ scanLimits \subseteq scanLimits' /\ found \subseteq found'
      /\ region' = region + 1 /\ offset' = 0 /\ covered' = 0 /\ size' = size /\ searched' = Append(searched, n)
  BY DEF Recorded, NextRegion
<1>4. /\ DOMAIN searched' = 1..region /\ searched' \in Seq(Nat) /\ Len(searched') + 1 = region'
      /\ searched'[region] = n /\ \A i \in DOMAIN searched : searched'[i] = searched[i]
      /\ \A i \in 1..region : i = region \/ i \in DOMAIN searched
  <2>1. searched \in Seq(Nat) /\ Len(searched) + 1 = region /\ region \in Int
    BY <1>1 DEF ScanTypes
  <2>. QED BY <1>3, <2>1
<1>5. ScanTypes'
  <2>1. region' \in 1..(Len(apk') + 1)
    <3>1. Len(apk) \in Nat
      BY <1>1, RegionsAre DEF ScanTypes
    <3>2. region \in Nat
      BY <1>1 DEF ScanTypes
    <3>3. region' = region + 1 /\ Len(apk') = Len(apk)
      BY <1>2, <1>3
    <3>. QED BY <3>1, <3>2, <3>3
  <2>2. offset' \in Nat /\ covered' \in Nat /\ size' \in Nat
    BY <1>1, <1>3 DEF ScanTypes
  <2>. QED BY <1>2, <1>4, <2>1, <2>2 DEF ScanTypes
<1>6. Flags'
  <2>1. whole' \in BOOLEAN /\ entered' \in BOOLEAN
    BY <1>1, Zenon DEF Flags, NextRegion
  <2>. QED BY <2>1, Zenon DEF Clocked, Flags
<1>7. WindowsMeet'
  <2>1. ~entered'
    BY DEF NextRegion
  <2>. QED BY <1>3, <2>1 DEF WindowsMeet
<1>8. FoundSoFar'
  <2>. SUFFICES ASSUME scanLimits' = {} PROVE FoundSoFar'
    BY DEF FoundSoFar
  <2>1. scanLimits = {}
    BY <1>3
  <2>2. ASSUME NEW i \in 1..region
        PROVE  /\ searched'[i] = apk[i].size
               /\ \A t \in apk[i].tokens : t[2] - t[1] <= policy.string => <<i, t[1], t[2]>> \in found'
    <3>1. CASE i = region
      BY <1>4, <3>1 DEF Short
    <3>2. CASE i \in DOMAIN searched
      <4>1. /\ searched[i] = apk[i].size
            /\ \A t \in apk[i].tokens : t[2] - t[1] <= policy.string => <<i, t[1], t[2]>> \in found
        BY <1>1, <2>1, <3>2 DEF FoundSoFar, Short
      <4>. QED BY <1>3, <1>4, <3>2, <4>1
    <3>. QED BY <1>4, <3>1, <3>2
  <2>3. region + 1 <= Len(apk) => \A t \in apk[region + 1].tokens : ~(t[2] < 0)
    <3>1. region \in Nat
      BY <1>1 DEF ScanTypes
    <3>2. Len(apk) \in Nat /\ \A i \in 1..Len(apk) : \A t \in apk[i].tokens : t[2] \in Nat
      BY <1>1, RegionsAre DEF ScanTypes
    <3>. QED BY <3>1, <3>2
  <2>. QED BY <1>3, <1>4, <2>2, <2>3 DEF FoundSoFar, Short
<1>9. Paid'
  <2>1. Charged(searched', region', covered') = Charged(searched, region, n)
    BY <1>2, <1>3
  <2>2. \A i \in DOMAIN searched' : searched'[i] <= apk'[i].size
    <3>1. \A i \in DOMAIN searched : searched[i] <= apk[i].size
      BY <1>1 DEF Paid
    <3>. QED BY <1>3, <1>4, <3>1
  <2>3. IsFiniteSet(Charged(searched', region', covered')) /\ sourceUsed' = Cardinality(Charged(searched', region', covered'))
    BY <1>2, <2>1
  <2>. QED BY <2>2, <2>3 DEF Paid
<1>10. OnlyWholeTokens'
  BY <1>1, WholeKept
<1>. QED BY <1>5, <1>6, <1>7, <1>8, <1>9, <1>10 DEF ScanInv

\* The next window begins where a short token that reaches over n could begin.
LEMMA GoesOnKept ==
  ASSUME ScanAssumption, ScanInv, entered, region <= Len(apk), NEW n \in Nat, Recorded(n), Clocked, n <= size,
         offset' \in Nat, offset' + policy.string = n, covered' = n, UNCHANGED <<region, size, whole, entered, searched>>,
         scanLimits' = {} => \A t \in apk[region].tokens : Short(t) /\ t[2] < n => <<region, t[1], t[2]>> \in found'
  PROVE  ScanInv'
<1>1. ScanTypes /\ Flags /\ WindowsMeet /\ FoundSoFar /\ OnlyWholeTokens /\ Paid
  BY DEF ScanInv
<1>2. /\ policy' \in Policies /\ apk' \in Apks /\ Len(apk') = Len(apk)
      /\ fileUsed' \in [ScannedFiles -> Nat] /\ \A f \in ScannedFiles : fileUsed'[f] <= policy'.file
      /\ sourceUsed' \in 0..policy'.source /\ scanLimits' \subseteq Limits /\ Cardinality(found') <= policy'.candidates
      /\ sourceUsed' = Cardinality(Charged(searched, region, n)) /\ IsFiniteSet(Charged(searched, region, n))
  BY <1>1, PaidTypes
<1>3. /\ policy' = policy /\ apk' = apk /\ scanLimits \subseteq scanLimits' /\ found \subseteq found'
      /\ region' = region /\ size' = size /\ searched' = searched
  BY DEF Recorded
<1>5. ScanTypes'
  <2>1. region' \in 1..(Len(apk') + 1) /\ searched' \in Seq(Nat) /\ Len(searched') + 1 = region'
    BY <1>1, <1>2, <1>3 DEF ScanTypes
  <2>2. offset' \in Nat /\ covered' \in Nat /\ size' \in Nat
    BY <1>1, <1>3 DEF ScanTypes
  <2>. QED BY <1>2, <2>1, <2>2 DEF ScanTypes
<1>6. Flags'
  <2>1. whole' \in BOOLEAN /\ entered' \in BOOLEAN
    BY <1>1, Zenon DEF Flags
  <2>. QED BY <2>1, Zenon DEF Clocked, Flags
<1>7. WindowsMeet'
  <2>1. entered' /\ region <= Len(apk) /\ size <= apk[region].size /\ (whole => size = apk[region].size) /\ (~whole => scanLimits # {})
    BY <1>1 DEF WindowsMeet
  <2>2. covered' <= size' /\ offset' + policy'.string = covered' /\ region' <= Len(apk') /\ size' <= apk'[region'].size
    BY <1>2, <1>3, <2>1
  <2>3. (whole' => size' = apk'[region'].size) /\ (~whole' => scanLimits' # {})
    BY <1>3, <2>1
  <2>. QED BY <2>1, <2>2, <2>3, Zenon DEF WindowsMeet
<1>8. FoundSoFar'
  <2>. SUFFICES ASSUME scanLimits' = {} PROVE FoundSoFar'
    BY DEF FoundSoFar
  <2>1. scanLimits = {}
    BY <1>3
  <2>2. \A i \in DOMAIN searched :
            /\ searched[i] = apk[i].size
            /\ \A t \in apk[i].tokens : t[2] - t[1] <= policy.string => <<i, t[1], t[2]>> \in found
    BY <1>1, <2>1 DEF FoundSoFar, Short
  <2>. QED BY <1>3, <2>2 DEF FoundSoFar, Short
<1>9. Paid'
  BY <1>1, <1>2, <1>3 DEF Paid
<1>10. OnlyWholeTokens'
  BY <1>1, WholeKept
<1>. QED BY <1>5, <1>6, <1>7, <1>8, <1>9, <1>10 DEF ScanInv

\* What a window takes for a candidate is a token of the region, ...
LEMMA MatchesAreTokens ==
  ASSUME ScanAssumption, ScanInv, entered, region <= Len(apk), NEW n \in Nat, n <= size,
         NEW m \in Matches(n, whole /\ n >= size)
  PROVE  <<m[1], m[2]>> \in apk[region].tokens
<1>1. PICK u \in apk[region].tokens : m = <<u[1], Least({u[2], n})>> /\ ((whole /\ n >= size) \/ m[2] < n)
  BY DEF Matches, Accepted
<1>2. region \in 1..Len(apk) /\ ScanTypes /\ (whole => size = apk[region].size) /\ size \in Nat
  BY LeftIs DEF ScanInv, WindowsMeet, ScanTypes
<1>3. u[1] \in Nat /\ u[2] \in Nat /\ u = <<u[1], u[2]>> /\ u[2] <= apk[region].size
  BY <1>2, RegionsAre DEF ScanTypes
<1>4. PICK a \in Int, b \in Int : a = u[2] /\ b = n
  BY <1>3
<1>5. Least({a, b}) \in {a, b} /\ Least({a, b}) <= a
  BY LeastIs, Zenon
<1>6. PICK l : l = Least({a, b})
  OBVIOUS
<1>7. l \in {a, b} /\ l <= a /\ m = <<u[1], l>>
  BY <1>1, <1>4, <1>5, <1>6, Zenon
<1>8. l = a
  <2>1. CASE whole /\ n >= size
    <3>1. n = size /\ size = apk[region].size
      BY <1>2, <2>1
    <3>. QED BY <1>3, <1>4, <1>7, <3>1
  <2>2. CASE m[2] < n
    BY <1>4, <1>7, <2>2
  <2>. QED BY <1>1, <2>1, <2>2
<1>. QED BY <1>3, <1>4, <1>7, <1>8

\* ... and every short token that ends in it is one of them.
LEMMA TokensAreMatches ==
  ASSUME ScanAssumption, ScanInv, entered, region <= Len(apk), NEW n \in Nat,
         NEW t \in apk[region].tokens, Short(t), covered <= t[2], t[2] < n \/ (whole /\ n >= size /\ t[2] <= n)
  PROVE  <<t[1], t[2]>> \in Matches(n, whole /\ n >= size)
<1>1. region \in 1..Len(apk) /\ ScanTypes
  BY LeftIs DEF ScanInv
<1>2. t[1] \in Nat /\ t[2] \in Nat /\ t[1] < t[2]
  BY <1>1, RegionsAre DEF ScanTypes
<1>3. policy.string \in Nat /\ offset \in Nat /\ covered \in Nat
  BY <1>1, PolicyIs DEF ScanTypes
<1>4. offset <= t[1]
  BY <1>2, <1>3 DEF ScanInv, WindowsMeet, Short
<1>5. t[1] < n /\ t[2] <= n
  BY <1>2
<1>6. Least({t[2], n}) = t[2]
  <2>1. PICK a \in Int, b \in Int : a = t[2] /\ b = n
    BY <1>2
  <2>2. Least({a, b}) \in {a, b} /\ Least({a, b}) <= a
    BY LeastIs, Zenon
  <2>3. PICK l : l = Least({a, b})
    OBVIOUS
  <2>4. l \in {a, b} /\ l <= a
    BY <2>2, <2>3, Zenon
  <2>5. l = a
    BY <1>5, <2>1, <2>4
  <2>. QED BY <2>1, <2>3, <2>5, Zenon
<1>7. (whole /\ n >= size) \/ t[2] < n
  OBVIOUS
<1>8. <<t[1], t[2]>> \in {<<u[1], Least({u[2], n})>> : u \in {v \in apk[region].tokens : offset <= v[1] /\ v[1] < n}}
  BY <1>4, <1>5, <1>6
<1>9. Accepted(<<t[1], t[2]>>[2], n, whole /\ n >= size)
  BY <1>7 DEF Accepted
<1>. QED BY <1>8, <1>9 DEF Matches

LEMMA WindowKept ==
  ASSUME ScanAssumption, ScanInv, entered, region <= Len(apk), size # 0, Window
  PROVE  ScanInv'
<1>1. ScanTypes /\ Flags /\ WindowsMeet /\ FoundSoFar /\ OnlyWholeTokens /\ Paid
  BY DEF ScanInv
<1>2. /\ region \in 1..Len(apk) /\ apk[region].file \in ScannedFiles /\ apk[region].size \in Nat
      /\ FileLeft \in Nat /\ SourceLeft \in Nat /\ Left \in Nat /\ Left <= FileLeft /\ Left <= SourceLeft
      /\ Scarce # {} /\ Scarce \subseteq Limits
  BY <1>1, LeftIs, RegionsAre DEF ScanTypes
<1>3. /\ policy.chunk \in Nat /\ policy.string \in Nat /\ policy.file \in Nat /\ policy.source \in Nat
      /\ policy.string < policy.chunk /\ Overlap = policy.string
      /\ offset \in Nat /\ covered \in Nat /\ size \in Nat /\ size <= apk[region].size
  BY <1>1, PolicyIs DEF ScanTypes, WindowsMeet
<1>4. PICK e \in Nat : /\ e = Least({offset + policy.chunk, size})
                       /\ covered <= e /\ e <= size /\ (e = size \/ e = offset + policy.chunk)
  <2>0. offset + policy.chunk \in Int /\ size \in Int
    BY <1>3
  <2>1. PICK a \in Int, b \in Int : a = offset + policy.chunk /\ b = size
    BY <2>0, Zenon
  <2>2. Least({a, b}) \in {a, b} /\ Least({a, b}) <= b
    BY LeastIs, Zenon
  <2>3. PICK l : l = Least({a, b})
    OBVIOUS
  <2>4. l \in {a, b} /\ l <= b
    BY <2>2, <2>3, Zenon
  <2>5. l \in Nat /\ covered <= l /\ l <= size /\ (l = size \/ l = offset + policy.chunk)
    BY <1>1, <1>3, <2>1, <2>4 DEF WindowsMeet
  <2>6. l = Least({offset + policy.chunk, size})
    BY <2>1, <2>3, Zenon
  <2>. QED BY <2>5, <2>6
<1>5. PICK k \in Nat : k = Least({Requested(e), Left}) /\ k <= Left /\ k <= e - covered /\ Requested(e) = e - covered
  <2>1. PICK a \in Int, b \in Int : a = e - covered /\ b = Left /\ a >= 0
    BY <1>2, <1>3, <1>4
  <2>2. Least({a, b}) \in {a, b} /\ Least({a, b}) <= a /\ Least({a, b}) <= b
    BY LeastIs, Zenon
  <2>3. PICK l : l = Least({a, b})
    OBVIOUS
  <2>4. l \in {a, b} /\ l <= a /\ l <= b
    BY <2>2, <2>3, Zenon
  <2>5. l \in Nat /\ l <= Left /\ l <= e - covered
    BY <1>2, <2>1, <2>4
  <2>6. Requested(e) = a
    BY <2>1 DEF Requested
  <2>7. l = Least({Requested(e), Left})
    BY <2>1, <2>3, <2>6, Zenon
  <2>. QED BY <2>1, <2>5, <2>6, <2>7
<1>6. PICK n \in Nat : n = covered + k
  BY <1>3
<1>. DEFINE Recent == {<<region, m[1], m[2]>> : m \in Matches(n, whole /\ n >= size)} \ found
            Small == {c \in Recent : c[3] - c[2] <= policy.string}
<1>7. /\ k > 0
      /\ fileUsed' = [fileUsed EXCEPT ![apk[region].file] = @ + k] /\ sourceUsed' = sourceUsed + k
      /\ \E recorded \in SUBSET Small :
           /\ recorded = Small \/ Cardinality(found \cup recorded) = policy.candidates
           /\ Cardinality(found \cup recorded) <= policy.candidates
           /\ found' = found \cup recorded
           /\ scanLimits' = scanLimits \cup (IF k < Requested(e) THEN Scarce ELSE {})
                          \cup (IF recorded # Small THEN {"candidates"} ELSE {})
                          \cup (IF Recent # Small THEN {"candidate_bytes"} ELSE {})
      /\ IF k < Requested(e) \/ n >= size THEN NextRegion(n)
         ELSE offset' = Advance(n) /\ covered' = n /\ UNCHANGED <<region, size, whole, entered, searched>>
      /\ UNCHANGED <<policy, apk, timedOut>>
  <2>1. e = Least({offset + policy.chunk, size}) /\ k = Least({Requested(e), Left}) /\ n = covered + k
    BY <1>4, <1>5, <1>6
  <2>2. k > 0 /\ UNCHANGED <<policy, apk, timedOut>>
    BY <2>1, Zenon DEF Window
  <2>3. fileUsed' = [fileUsed EXCEPT ![apk[region].file] = @ + k] /\ sourceUsed' = sourceUsed + k
    BY <2>1, Zenon DEF Window
  <2>4. \E recorded \in SUBSET Small :
          /\ recorded = Small \/ Cardinality(found \cup recorded) = policy.candidates
          /\ Cardinality(found \cup recorded) <= policy.candidates
          /\ found' = found \cup recorded
          /\ scanLimits' = scanLimits \cup (IF k < Requested(e) THEN Scarce ELSE {})
                         \cup (IF recorded # Small THEN {"candidates"} ELSE {})
                         \cup (IF Recent # Small THEN {"candidate_bytes"} ELSE {})
    BY <2>1, ZenonT(30) DEF Window
  <2>5. IF k < Requested(e) \/ n >= size THEN NextRegion(n)
        ELSE offset' = Advance(n) /\ covered' = n /\ UNCHANGED <<region, size, whole, entered, searched>>
    BY <2>1, Zenon DEF Window
  <2>. QED BY <2>2, <2>3, <2>4, <2>5, Zenon
<1>8. /\ found \subseteq found' /\ Cardinality(found') <= policy.candidates
      /\ \A c \in found' : c \in found \/ \E m \in Matches(n, whole /\ n >= size) : c = <<region, m[1], m[2]>>
      /\ scanLimits \subseteq scanLimits' /\ scanLimits' \subseteq Limits
      /\ scanLimits' = {} => ~(k < Requested(e)) /\ found' = found \cup Recent
  <2>0. PICK F : F = Recent
    OBVIOUS
  <2>1. PICK S : S = Small
    OBVIOUS
  <2>2. F \subseteq {<<region, m[1], m[2]>> : m \in Matches(n, whole /\ n >= size)} /\ S \subseteq F
    BY <2>0, <2>1
  <2>3. \A c \in F : \E m \in Matches(n, whole /\ n >= size) : c = <<region, m[1], m[2]>>
    BY <2>2
  <2>4. PICK recorded \in SUBSET S :
           /\ Cardinality(found \cup recorded) <= policy.candidates
           /\ found' = found \cup recorded
           /\ scanLimits' = scanLimits \cup (IF k < Requested(e) THEN Scarce ELSE {})
                          \cup (IF recorded # S THEN {"candidates"} ELSE {})
                          \cup (IF F # S THEN {"candidate_bytes"} ELSE {})
    BY <1>7, <2>0, <2>1, Zenon
  <2>5. scanLimits \subseteq Limits
    BY <1>1 DEF ScanTypes
  <2>. HIDE DEF Recent, Small
  <2>6. found \subseteq found' /\ Cardinality(found') <= policy.candidates /\ \A c \in found' : c \in found \/ c \in F
    BY <2>2, <2>4
  <2>7. scanLimits \subseteq scanLimits' /\ scanLimits' \subseteq Limits
    BY <1>2, <2>4, <2>5 DEF Limits
  <2>8. scanLimits' = {} => ~(k < Requested(e)) /\ recorded = S /\ F = S
    BY <1>2, <2>4
  <2>. QED BY <2>0, <2>3, <2>4, <2>6, <2>7, <2>8
<1>9. covered <= n /\ n <= e /\ n <= size /\ n <= apk[region].size
  <2>1. k <= e - covered
    BY <1>5
  <2>2. covered <= e /\ e <= size
    BY <1>4
  <2>3. covered <= n /\ n <= e
    BY <1>3, <1>6, <2>1, <2>2
  <2>. QED BY <1>2, <1>3, <1>6, <2>2, <2>3
<1>10. Recorded(n)
  <2>1. fileUsed' \in [ScannedFiles -> Nat] /\ \A f \in ScannedFiles : fileUsed'[f] <= policy.file
    <3>1. fileUsed \in [ScannedFiles -> Nat] /\ \A f \in ScannedFiles : fileUsed[f] <= policy.file
      BY <1>1 DEF ScanTypes
    <3>2. PICK h \in ScannedFiles : h = apk[region].file
      BY <1>2
    <3>3. fileUsed' = [fileUsed EXCEPT ![h] = @ + k]
      BY <1>7, <3>2
    <3>4. k <= policy.file - fileUsed[h]
      BY <1>2, <1>5, <3>1, <3>2, <1>3 DEF FileLeft
    <3>5. \A f \in ScannedFiles : fileUsed'[f] = IF f = h THEN fileUsed[h] + k ELSE fileUsed[f]
      BY <3>1, <3>3
    <3>6. fileUsed' \in [ScannedFiles -> Nat]
      BY <3>1, <3>2, <3>3
    <3>7. ASSUME NEW f \in ScannedFiles PROVE fileUsed'[f] <= policy.file
      <4>1. CASE f = h
        <5>1. fileUsed'[h] = fileUsed[h] + k /\ fileUsed[h] \in Nat /\ policy.file \in Nat
          BY <1>3, <3>1, <3>2, <3>5
        <5>. QED BY <3>4, <4>1, <5>1
      <4>2. CASE f # h
        <5>1. fileUsed'[f] = fileUsed[f] /\ fileUsed[f] <= policy.file
          BY <3>1, <3>5, <4>2
        <5>. QED BY <5>1
      <4>. QED BY <4>1, <4>2
    <3>. QED BY <3>6, <3>7
  <2>2. sourceUsed' = sourceUsed + (n - covered) /\ sourceUsed' <= policy.source
    <3>1. sourceUsed \in Nat /\ policy.source \in Nat
      BY <1>1, <1>3 DEF ScanTypes
    <3>2. k <= policy.source - sourceUsed
      BY <1>2, <1>5, <3>1 DEF SourceLeft
    <3>3. sourceUsed' = sourceUsed + k
      BY <1>7
    <3>4. k = n - covered
      BY <1>3, <1>6
    <3>. QED BY <3>1, <3>2, <3>3, <3>4
  <2>3. \A c \in found' : c \in found \/ <<c[2], c[3]>> \in apk[c[1]].tokens
    <3>. SUFFICES ASSUME NEW c \in found', c \notin found PROVE <<c[2], c[3]>> \in apk[c[1]].tokens
      OBVIOUS
    <3>1. PICK m \in Matches(n, whole /\ n >= size) : c = <<region, m[1], m[2]>>
      BY <1>8
    <3>2. <<m[1], m[2]>> \in apk[region].tokens
      BY <1>9, MatchesAreTokens
    <3>. QED BY <3>1, <3>2
  <2>. QED BY <1>7, <1>8, <1>9, <2>1, <2>2, <2>3 DEF Recorded
<1>11. Clocked
  <2>1. timedOut' = timedOut /\ timedOut \in BOOLEAN /\ (timedOut => scanLimits # {})
    BY <1>1, <1>7, Zenon DEF Flags
  <2>2. scanLimits # {} => scanLimits' # {}
    BY <1>8
  <2>. QED BY <2>1, <2>2, Zenon DEF Clocked
<1>12. ASSUME scanLimits' = {}, NEW t \in apk[region].tokens, Short(t), t[2] < n \/ (whole /\ n >= size /\ t[2] <= n)
       PROVE  <<region, t[1], t[2]>> \in found'
  <2>1. scanLimits = {}
    BY <1>8, <1>12
  <2>2. t[2] \in Nat
    BY <1>1, <1>2, RegionsAre DEF ScanTypes
  <2>3. CASE t[2] < covered
    BY <1>1, <1>8, <1>12, <2>1, <2>3 DEF FoundSoFar
  <2>4. CASE covered <= t[2]
    <3>1. PICK m \in Matches(n, whole /\ n >= size) : m = <<t[1], t[2]>>
      BY <1>12, <2>4, TokensAreMatches
    <3>2. <<region, m[1], m[2]>> \in found \cup Recent
      BY <3>1
    <3>. QED BY <1>8, <1>12, <3>1, <3>2
  <2>. QED BY <1>3, <2>2, <2>3, <2>4
<1>. HIDE DEF Recent, Small
<1>13. CASE k < Requested(e) \/ n >= size
  <2>1. NextRegion(n)
    BY <1>7, <1>13
  <2>2. ASSUME scanLimits' = {}
        PROVE  /\ n = apk[region].size
               /\ \A t \in apk[region].tokens : Short(t) => <<region, t[1], t[2]>> \in found'
    <3>1. n >= size /\ n = size
      BY <1>3, <1>8, <1>9, <1>13, <2>2
    <3>2. scanLimits = {}
      BY <1>8, <2>2
    <3>3. whole /\ size = apk[region].size
      BY <1>1, <3>2 DEF WindowsMeet
    <3>4. \A t \in apk[region].tokens : t[2] <= n
      BY <1>1, <1>2, <3>1, <3>3, RegionsAre DEF ScanTypes
    <3>. QED BY <1>12, <2>2, <3>1, <3>3, <3>4
  <2>. QED BY <1>10, <1>11, <2>1, <2>2, NextRegionKept
<1>14. CASE ~(k < Requested(e) \/ n >= size)
  <2>1. offset' = Advance(n) /\ covered' = n /\ UNCHANGED <<region, size, whole, entered, searched>>
    BY <1>7, <1>14
  <2>2. n = e /\ e = offset + policy.chunk
    BY <1>3, <1>4, <1>5, <1>6, <1>14
  <2>3. Advance(n) = n - policy.string
    BY <1>3, <2>2 DEF Advance
  <2>4. offset' \in Nat /\ offset' + policy.string = n
    BY <1>3, <2>1, <2>2, <2>3
  <2>5. scanLimits' = {} => \A t \in apk[region].tokens : Short(t) /\ t[2] < n => <<region, t[1], t[2]>> \in found'
    BY <1>12
  <2>. QED BY <1>9, <1>10, <1>11, <2>1, <2>4, <2>5, GoesOnKept
<1>. QED BY <1>13, <1>14

LEMMA MeasureKept ==
  ASSUME ScanAssumption, ScanInv, Measure PROVE ScanInv'
<1>1. ScanTypes /\ Flags /\ WindowsMeet /\ FoundSoFar /\ OnlyWholeTokens /\ Paid
  BY DEF ScanInv
<1>2. /\ region <= Len(apk) /\ ~entered /\ policy' = policy /\ apk' = apk /\ fileUsed' = fileUsed
      /\ sourceUsed' = sourceUsed /\ found' = found
  BY DEF Measure
<1>3. /\ region \in 1..Len(apk) /\ Left \in Nat /\ Scarce # {} /\ Scarce \subseteq Limits
      /\ apk[region].size \in Nat /\ covered = 0 /\ sourceUsed \in Nat
  <2>1. region \in 1..Len(apk) /\ Left \in Nat /\ Scarce # {} /\ Scarce \subseteq Limits
    BY <1>1, <1>2, LeftIs
  <2>2. apk[region].size \in Nat
    BY <1>1, <2>1, RegionsAre DEF ScanTypes
  <2>3. covered = 0
    BY <1>1, <1>2 DEF WindowsMeet
  <2>4. sourceUsed \in Nat
    BY <1>1 DEF ScanTypes
  <2>. QED BY <2>1, <2>2, <2>3, <2>4
<1>4. CASE (Denied \/ TimedOut) /\ NextRegion(0)
  <2>1. scanLimits \subseteq scanLimits' /\ scanLimits' \subseteq Limits /\ scanLimits' # {} /\ timedOut' \in BOOLEAN
    BY <1>1, <1>2, <1>4, DeniedIs
  <2>2. Clocked
    BY <2>1, Zenon DEF Clocked
  <2>3. PICK n \in Nat : n = 0
    OBVIOUS
  <2>4. Recorded(n)
    BY <1>1, <1>2, <1>3, <2>1, <2>3 DEF Recorded, ScanTypes
  <2>5. NextRegion(n)
    BY <1>4, <2>3
  <2>. QED BY <1>2, <2>1, <2>2, <2>4, <2>5, NextRegionKept
<1>5. ASSUME /\ entered' = TRUE /\ size' = IF apk[region].long THEN Least({apk[region].size, Left}) ELSE apk[region].size
             /\ whole' = (~apk[region].long \/ apk[region].size < Left)
             /\ scanLimits' = scanLimits \cup (IF whole' THEN {} ELSE Scarce)
             /\ UNCHANGED <<region, offset, covered, searched, timedOut>>
      PROVE  ScanInv'
  <2>1. /\ size' \in Nat /\ size' <= apk[region].size /\ (whole' => size' = apk[region].size)
    <3>1. PICK a \in Int, b \in Int : a = apk[region].size /\ b = Left
      BY <1>3
    <3>2. Least({a, b}) \in {a, b} /\ Least({a, b}) <= a
      BY LeastIs, Zenon
    <3>3. PICK l : l = Least({a, b})
      OBVIOUS
    <3>4. l \in {a, b} /\ l <= a
      BY <3>2, <3>3, Zenon
    <3>5. size' = (IF apk[region].long THEN l ELSE a)
      BY <1>5, <3>1, <3>3
    <3>6. a < b => l = a
      BY <3>4
    <3>7. whole' <=> ~apk[region].long \/ a < b
      BY <1>5, <3>1
    <3>. QED BY <1>3, <3>1, <3>4, <3>5, <3>6, <3>7
  <2>2. scanLimits \subseteq scanLimits' /\ scanLimits' \subseteq Limits /\ (~whole' => scanLimits' # {})
    BY <1>1, <1>3, <1>5 DEF ScanTypes
  <2>3. ScanTypes'
    BY <1>1, <1>2, <1>5, <2>1, <2>2 DEF ScanTypes
  <2>4. Flags'
    <3>1. whole' \in BOOLEAN /\ entered' \in BOOLEAN /\ timedOut' = timedOut
      BY <1>5
    <3>2. timedOut' \in BOOLEAN /\ (timedOut' => scanLimits # {})
      BY <1>1, <3>1, Zenon DEF Flags
    <3>3. scanLimits # {} => scanLimits' # {}
      BY <2>2
    <3>. QED BY <3>1, <3>2, <3>3, Zenon DEF Flags
  <2>5. WindowsMeet'
    <3>1. covered' = 0 /\ offset' = 0 /\ region' = region /\ entered' /\ apk' = apk
      BY <1>1, <1>2, <1>3, <1>5, PolicyIs DEF WindowsMeet, ScanTypes
    <3>2. region' <= Len(apk') /\ size' <= apk'[region'].size
      BY <1>2, <2>1, <3>1
    <3>3. (whole' => size' = apk'[region'].size) /\ (~whole' => scanLimits' # {})
      BY <2>1, <2>2, <3>1
    <3>. QED BY <3>1, <3>2, <3>3, Zenon DEF WindowsMeet
  <2>6. FoundSoFar'
    <3>. SUFFICES ASSUME scanLimits' = {} PROVE FoundSoFar'
      BY DEF FoundSoFar
    <3>1. scanLimits = {}
      BY <2>2
    <3>. QED BY <1>1, <1>2, <1>5, <3>1 DEF FoundSoFar, Short
  <2>7. OnlyWholeTokens'
    BY <1>1, <1>2 DEF OnlyWholeTokens
  <2>8. Paid'
    BY <1>1, <1>2, <1>5 DEF Paid
  <2>. QED BY <2>3, <2>4, <2>5, <2>6, <2>7, <2>8 DEF ScanInv
<1>6. \/ (Denied \/ TimedOut) /\ NextRegion(0)
      \/ /\ entered' = TRUE /\ size' = IF apk[region].long THEN Least({apk[region].size, Left}) ELSE apk[region].size
         /\ whole' = (~apk[region].long \/ apk[region].size < Left)
         /\ scanLimits' = scanLimits \cup (IF whole' THEN {} ELSE Scarce)
         /\ UNCHANGED <<region, offset, covered, searched, timedOut>>
  BY Zenon DEF Measure
<1>. QED BY <1>4, <1>5, <1>6

LEMMA ScanRegionKept ==
  ASSUME ScanAssumption, ScanInv, ScanRegion PROVE ScanInv'
<1>1. ScanTypes /\ Flags /\ WindowsMeet /\ FoundSoFar /\ OnlyWholeTokens /\ Paid /\ region <= Len(apk) /\ entered
  BY DEF ScanInv, ScanRegion
<1>2. /\ region \in 1..Len(apk) /\ apk[region].size \in Nat /\ covered \in Nat /\ sourceUsed \in Nat /\ size \in Nat
      /\ size <= apk[region].size /\ covered <= size
  <2>1. region \in 1..Len(apk)
    BY <1>1, LeftIs
  <2>2. apk[region].size \in Nat
    BY <1>1, <2>1, RegionsAre DEF ScanTypes
  <2>3. covered \in Nat /\ sourceUsed \in Nat /\ size \in Nat
    BY <1>1 DEF ScanTypes
  <2>4. size <= apk[region].size /\ covered <= size
    BY <1>1, <2>3 DEF WindowsMeet
  <2>. QED BY <2>1, <2>2, <2>3, <2>4
<1>3. CASE size = 0 /\ EmptyRegion
  <2>1. /\ NextRegion(0) /\ policy' = policy /\ apk' = apk /\ fileUsed' = fileUsed /\ sourceUsed' = sourceUsed
        /\ timedOut' = timedOut /\ scanLimits' = scanLimits /\ found' = found
    BY <1>3 DEF EmptyRegion
  <2>2. PICK n \in Nat : n = 0 /\ n = covered
    BY <1>2, <1>3
  <2>3. Recorded(n)
    BY <1>1, <1>2, <2>1, <2>2 DEF Recorded, ScanTypes
  <2>4. Clocked
    BY <1>1, <2>1, Zenon DEF Clocked, Flags
  <2>5. scanLimits' = {} => /\ n = apk[region].size
                            /\ \A t \in apk[region].tokens : Short(t) => <<region, t[1], t[2]>> \in found'
    <3>. SUFFICES ASSUME scanLimits' = {}
                  PROVE  n = apk[region].size /\ \A t \in apk[region].tokens : FALSE
      OBVIOUS
    <3>1. scanLimits = {}
      BY <2>1
    <3>2. apk[region].size = 0
      BY <1>1, <1>3, <3>1 DEF WindowsMeet
    <3>3. \A t \in apk[region].tokens : t[1] \in Nat /\ t[2] \in Nat /\ t[1] < t[2] /\ t[2] <= apk[region].size
      BY <1>1, <1>2, RegionsAre DEF ScanTypes
    <3>. QED BY <2>2, <3>2, <3>3
  <2>6. NextRegion(n)
    BY <2>1, <2>2
  <2>. QED BY <1>1, <2>3, <2>4, <2>5, <2>6, NextRegionKept
<1>4. CASE size # 0 /\ Refused
  <2>1. /\ Denied /\ NextRegion(covered) /\ policy' = policy /\ apk' = apk /\ fileUsed' = fileUsed
        /\ sourceUsed' = sourceUsed /\ found' = found
    BY <1>4 DEF Refused
  <2>2. scanLimits \subseteq scanLimits' /\ scanLimits' \subseteq Limits /\ scanLimits' # {} /\ timedOut' \in BOOLEAN
    BY <1>1, <2>1, DeniedIs
  <2>3. PICK n \in Nat : n = covered
    BY <1>2
  <2>4. Recorded(n)
    BY <1>1, <1>2, <2>1, <2>2, <2>3 DEF Recorded, ScanTypes
  <2>5. Clocked
    BY <2>2, Zenon DEF Clocked
  <2>6. NextRegion(n)
    BY <2>1, <2>3
  <2>. QED BY <1>1, <2>2, <2>4, <2>5, <2>6, NextRegionKept
<1>5. CASE size # 0 /\ Window
  BY <1>1, <1>5, WindowKept
<1>6. (size = 0 /\ EmptyRegion) \/ (size # 0 /\ Refused) \/ (size # 0 /\ Window)
  BY Zenon DEF ScanRegion
<1>. QED BY <1>3, <1>4, <1>5, <1>6

LEMMA ScanInvInit ==
  ASSUME ScanAssumption, StringInit PROVE ScanInv
<1>1. /\ policy \in Policies /\ apk \in Apks /\ region = 1 /\ offset = 0 /\ covered = 0 /\ size = 0
      /\ fileUsed = [f \in ScannedFiles |-> 0] /\ sourceUsed = 0 /\ scanLimits = {} /\ found = {} /\ searched = <<>>
      /\ whole = TRUE /\ entered = FALSE /\ timedOut = FALSE
  BY DEF StringInit
<1>2. Charged(searched, region, covered) = {}
  <2>1. \A x : x \notin Charged(<<>>, 1, 0)
    <3>. SUFFICES ASSUME NEW x PROVE x \notin Charged(<<>>, 1, 0)
      OBVIOUS
    <3>1. 0..(0 - 1) = {} /\ DOMAIN <<>> = {}
      OBVIOUS
    <3>2. x \notin {1} \X (0..(0 - 1)) /\ ~\E i \in DOMAIN <<>> : x \in {i} \X (0..(<<>>[i] - 1))
      BY <3>1
    <3>. QED BY <3>2, ChargedIs
  <2>2. Charged(<<>>, 1, 0) = {}
    BY <2>1
  <2>. QED BY <1>1, <2>2
<1>3. Paid
  <2>1. DOMAIN searched = {}
    BY <1>1
  <2>2. IsFiniteSet({}) /\ Cardinality({}) = 0
    BY FS_EmptySet
  <2>. QED BY <1>1, <1>2, <2>1, <2>2 DEF Paid
<1>4. ScanTypes
  <2>1. Len(apk) \in Nat
    BY <1>1, RegionsAre
  <2>2. policy.source \in Nat /\ policy.file \in Nat /\ policy.candidates \in Nat
    BY <1>1, PolicyIs
  <2>3. Cardinality(found) = 0
    BY <1>1, FS_EmptySet
  <2>4. searched \in Seq(Nat) /\ Len(searched) = 0
    BY <1>1
  <2>. QED BY <1>1, <2>1, <2>2, <2>3, <2>4 DEF ScanTypes
<1>5. Flags
  BY <1>1, Zenon DEF Flags
<1>6. WindowsMeet /\ OnlyWholeTokens
  BY <1>1 DEF WindowsMeet, OnlyWholeTokens
<1>7. FoundSoFar
  <2>1. 1 <= Len(apk) => \A t \in apk[1].tokens : ~(t[2] < 0)
    <3>1. Len(apk) \in Nat /\ \A i \in 1..Len(apk) : \A t \in apk[i].tokens : t[2] \in Nat
      BY <1>1, RegionsAre
    <3>. QED BY <3>1
  <2>2. DOMAIN searched = {}
    BY <1>1
  <2>. QED BY <1>1, <2>1, <2>2 DEF FoundSoFar
<1>. QED BY <1>3, <1>4, <1>5, <1>6, <1>7 DEF ScanInv

LEMMA ScanInvStep ==
  ASSUME ScanAssumption, ScanInv, [StringNext]_stringVars PROVE ScanInv'
<1>1. CASE Measure
  BY <1>1, MeasureKept
<1>2. CASE ScanRegion
  BY <1>2, ScanRegionKept
<1>3. CASE UNCHANGED stringVars
  <2>1. /\ policy' = policy /\ apk' = apk /\ region' = region /\ offset' = offset /\ covered' = covered /\ size' = size
        /\ whole' = whole /\ entered' = entered /\ fileUsed' = fileUsed /\ sourceUsed' = sourceUsed
        /\ timedOut' = timedOut /\ scanLimits' = scanLimits /\ found' = found /\ searched' = searched
    BY <1>3 DEF stringVars
  <2>2. ScanTypes' /\ WindowsMeet' /\ OnlyWholeTokens' /\ Paid'
    BY <2>1 DEF ScanInv, ScanTypes, WindowsMeet, OnlyWholeTokens, Paid
  <2>3. Flags'
    BY <2>1, Zenon DEF ScanInv, Flags
  <2>4. FoundSoFar'
    BY <2>1 DEF ScanInv, FoundSoFar, Short
  <2>. QED BY <2>2, <2>3, <2>4 DEF ScanInv
<1>. QED BY <1>1, <1>2, <1>3 DEF StringNext

LEMMA ScanInvSuffices ==
  ASSUME ScanAssumption, ScanInv PROVE SearchComplete
<1>1. ScanTypes /\ Flags /\ WindowsMeet /\ FoundSoFar /\ OnlyWholeTokens /\ Paid
  BY DEF ScanInv
<1>2. StringTypeOK
  <2>1. whole \in BOOLEAN /\ entered \in BOOLEAN /\ timedOut \in BOOLEAN
    BY <1>1, Zenon DEF Flags
  <2>2. \A f \in ScannedFiles : fileUsed[f] \in 0..policy.file
    BY <1>1, PolicyIs DEF ScanTypes
  <2>3. /\ policy \in Policies /\ apk \in Apks /\ region \in 1..(Len(apk) + 1)
        /\ offset \in Nat /\ covered \in Nat /\ size \in Nat
        /\ sourceUsed \in 0..policy.source /\ scanLimits \subseteq Limits /\ Cardinality(found) <= policy.candidates
    BY <1>1 DEF ScanTypes
  <2>. QED BY <2>1, <2>2, <2>3, Zenon DEF StringTypeOK
<1>3. NothingLost
  <2>. SUFFICES ASSUME region > Len(apk), scanLimits = {}
                PROVE  \A i \in DOMAIN apk : /\ searched[i] = apk[i].size
                          /\ \A t \in apk[i].tokens : t[2] - t[1] <= policy.string => <<i, t[1], t[2]>> \in found
    BY DEF NothingLost
  <2>1. DOMAIN apk = DOMAIN searched
    <3>1. Len(apk) \in Nat /\ DOMAIN apk = 1..Len(apk)
      BY <1>1, RegionsAre DEF ScanTypes
    <3>2. DOMAIN searched = 1..Len(searched) /\ Len(searched) = Len(apk)
      BY <1>1, <3>1 DEF ScanTypes
    <3>. QED BY <3>1, <3>2
  <2>. QED BY <1>1, <2>1 DEF FoundSoFar, Short
<1>4. ChargedOnce
  <2>1. BytesSearched = Charged(searched, region, covered)
    BY Zenon DEF BytesSearched, Charged
  <2>2. sourceUsed = Cardinality(BytesSearched)
    BY <1>1, <2>1 DEF Paid
  <2>3. covered <= size
    BY <1>1 DEF WindowsMeet, ScanTypes
  <2>4. \A i \in DOMAIN searched : searched[i] <= apk[i].size
    BY <1>1 DEF Paid
  <2>. QED BY <2>2, <2>3, <2>4 DEF ChargedOnce
<1>. QED BY <1>1, <1>2, <1>3, <1>4 DEF SearchComplete

\* A search without a limitation has searched every byte and found every token that is
\* short enough, wherever its windows meet; no piece of a token is taken for one; and
\* the budget has paid for each byte once.  This holds of every APK, with tokens of any
\* number and place, and of every policy whose overlap is shorter than its windows
\* (_scan_encoded_region, _claim_string_scan_bytes in static_apk_analysis.py).
THEOREM SearchesAreComplete == ASSUME ScanAssumption PROVE StringSpec => []SearchComplete
<1>1. StringInit => ScanInv
  BY ScanInvInit
<1>2. ScanInv /\ [StringNext]_stringVars => ScanInv'
  BY ScanInvStep
<1>3. ScanInv => SearchComplete
  BY ScanInvSuffices
<1>. QED BY <1>1, <1>2, <1>3, PTL DEF StringSpec

(***************************************************************************)
(*                    The pass over the code of a method                   *)
(***************************************************************************)

\* The lowest generation that a register can have had since the pass began.
Lowest == -(flowEpoch * RegisterSpace + RegisterSpace)

\* Every generation given so far is between the lowest one and the next.
GenerationsBounded ==
  /\ \A r \in Registers : Lowest <= generations[r] /\ generations[r] < nextGeneration
  /\ \A g \in randomGenerations : Lowest <= g /\ g < nextGeneration

\* What is left of a method has been admitted.
Admitted == left + unitsUsed <= MaxUnits

DexInv == FlowTrue /\ GenerationsBounded /\ Admitted

LEMMA RegistersAre ==
  ASSUME DexAssumption, NEW r \in Registers
  PROVE  r \in Nat /\ r < RegisterSpace /\ r <= LastRegister
  BY DEF DexAssumption, Registers, RegisterSpace

LEMMA GenerationIs ==
  ASSUME DexAssumption, DexTypeOK, GenerationsBounded, NEW r \in Registers
  PROVE  /\ Generation(r) \in Int /\ Generation(r) # 0
         /\ Lowest \in Int /\ Lowest <= Generation(r) /\ Generation(r) < nextGeneration
<1>1. generations[r] \in Int /\ flowEpoch \in Nat /\ nextGeneration \in Nat \ {0}
  BY DEF DexTypeOK
<1>. QED BY <1>1, RegistersAre DEF Generation, GenerationsBounded, Lowest, RegisterSpace

\* Where no generation was given, registers differ.
LEMMA DefaultsDiffer ==
  ASSUME DexAssumption, flowEpoch \in Nat, generations = [r \in Registers |-> 0], NEW r \in Registers, NEW s \in Registers
  PROVE  Generation(r) = Generation(s) => r = s
  BY RegistersAre DEF Generation, RegisterSpace

LEMMA EpochsFall ==
  ASSUME NEW e \in Nat, NEW f \in Nat, e <= f
  PROVE  /\ -(f * RegisterSpace + RegisterSpace) <= -(e * RegisterSpace + RegisterSpace)
         /\ -(f * RegisterSpace + RegisterSpace) \in Int /\ -(e * RegisterSpace + RegisterSpace) \in Int
  BY DEF RegisterSpace

\* What the instructions that only move values share: the machine and the pass go
\* on, and no generation that was given before is given again.
LEMMA MovingKept ==
  ASSUME DexAssumption, DexInv, Running, Next1, UNCHANGED callVars, methods' = methods,
         constants' \in [Registers -> Constants \cup {Unknown}], generations' \in [Registers -> Int],
         nextGeneration' \in Nat \ {0}, nextGeneration <= nextGeneration', flowEpoch' \in Nat, flowEpoch <= flowEpoch',
         value' \in [Registers -> Constants \cup Nat], nextValue' \in Nat,
         \A r \in Registers : Lowest' <= generations'[r] /\ generations'[r] < nextGeneration',
         ConstantsTrue', GenerationsTrue'
  PROVE  DexInv'
<1>1. DexTypeOK'
  BY DEF DexInv, FlowTrue, DexTypeOK, Running, Next1, callVars, Admitted, DexAssumption
<1>2. GenerationsBounded'
  <2>1. randomGenerations' = randomGenerations /\ Lowest' <= Lowest /\ Lowest' \in Int /\ Lowest \in Int /\ nextGeneration \in Nat
        /\ randomGenerations \subseteq Int
    <3>1. flowEpoch \in Nat /\ flowEpoch' \in Nat /\ flowEpoch <= flowEpoch' /\ nextGeneration \in Nat /\ randomGenerations \subseteq Int
      BY DEF DexInv, FlowTrue, DexTypeOK
    <3>2. Lowest = -(flowEpoch * RegisterSpace + RegisterSpace) /\ Lowest' = -(flowEpoch' * RegisterSpace + RegisterSpace)
      BY DEF Lowest
    <3>3. randomGenerations' = randomGenerations
      BY DEF callVars
    <3>4. PICK e \in Nat, f \in Nat : e = flowEpoch /\ f = flowEpoch' /\ e <= f
      BY <3>1
    <3>5. Lowest = -(e * RegisterSpace + RegisterSpace) /\ Lowest' = -(f * RegisterSpace + RegisterSpace)
      BY <3>2, <3>4
    <3>6. -(f * RegisterSpace + RegisterSpace) <= -(e * RegisterSpace + RegisterSpace) /\ -(f * RegisterSpace + RegisterSpace) \in Int /\ -(e * RegisterSpace + RegisterSpace) \in Int
      BY <3>4, EpochsFall
    <3>. QED BY <3>1, <3>3, <3>5, <3>6, Zenon
  <2>. QED BY <2>1 DEF DexInv, GenerationsBounded
<1>3. Admitted' /\ SignalsTrue' /\ DexCutsReported'
  BY DEF DexInv, FlowTrue, DexTypeOK, Running, Next1, callVars, Admitted, SignalsTrue, DexCutsReported, DexAssumption
<1>. QED BY <1>1, <1>2, <1>3 DEF DexInv, FlowTrue

LEMMA LoadConstantKept ==
  ASSUME DexAssumption, DexInv, NEW r \in Registers, NEW c \in Constants, LoadConstant(r, c)
  PROVE  DexInv'
<1>1. /\ constants' = [constants EXCEPT ![r] = c]
      /\ generations' = [generations EXCEPT ![r] = nextGeneration] /\ nextGeneration' = nextGeneration + 1
      /\ value' = [value EXCEPT ![r] = c] /\ flowEpoch' = flowEpoch /\ nextValue' = nextValue
      /\ UNCHANGED callVars /\ methods' = methods /\ Running /\ Next1
  BY DEF LoadConstant
<1>2. DexTypeOK /\ GenerationsBounded /\ GenerationsTrue /\ ConstantsTrue
  BY DEF DexInv, FlowTrue
<1>3. /\ constants' \in [Registers -> Constants \cup {Unknown}] /\ generations' \in [Registers -> Int]
      /\ nextGeneration' \in Nat \ {0} /\ nextGeneration <= nextGeneration' /\ flowEpoch' \in Nat /\ flowEpoch <= flowEpoch'
      /\ value' \in [Registers -> Constants \cup Nat] /\ nextValue' \in Nat
  BY <1>1, <1>2 DEF DexTypeOK
<1>4. Generation(r)' = nextGeneration /\ \A s \in Registers : s # r => Generation(s)' = Generation(s)
  BY <1>1, <1>2 DEF Generation, DexTypeOK
<1>5. \A s \in Registers : Lowest' <= generations'[s] /\ generations'[s] < nextGeneration'
  <2>1. Lowest' = Lowest /\ Lowest \in Int /\ Lowest < 0 /\ nextGeneration \in Nat
    BY <1>1, <1>2 DEF Lowest, DexTypeOK, RegisterSpace
  <2>. QED BY <1>1, <1>2, <2>1 DEF GenerationsBounded, DexTypeOK
<1>6. ConstantsTrue'
  BY <1>1, <1>2 DEF ConstantsTrue, DexTypeOK
<1>7. GenerationsTrue'
  <2>1. ASSUME NEW s \in Registers, s # r PROVE Generation(s)' # nextGeneration
    BY <1>2, <1>4, <2>1, GenerationIs DEF DexTypeOK
  <2>2. nextGeneration \notin randomGenerations
    BY <1>2 DEF GenerationsBounded, DexTypeOK
  <2>3. ASSUME NEW s \in Registers, NEW u \in Registers, Generation(s)' = Generation(u)' PROVE value'[s] = value'[u]
    BY <1>1, <1>2, <1>4, <2>1, <2>3 DEF GenerationsTrue, DexTypeOK
  <2>4. ASSUME NEW s \in Registers, Generation(s)' \in randomGenerations PROVE value'[s] \in randomValues
    BY <1>1, <1>2, <1>4, <2>2, <2>4 DEF GenerationsTrue, DexTypeOK
  <2>5. randomGenerations' = randomGenerations /\ randomValues' = randomValues
    BY <1>1 DEF callVars
  <2>. QED BY <2>3, <2>4, <2>5 DEF GenerationsTrue
<1>. QED BY <1>1, <1>3, <1>5, <1>6, <1>7, MovingKept

LEMMA WriteKept ==
  ASSUME DexAssumption, DexInv, NEW r \in Registers, NEW width \in 1..2, Write(r, width)
  PROVE  DexInv'
<1>1. /\ constants' = [s \in Registers |-> IF s \in Span(r, width) THEN Unknown ELSE constants[s]]
      /\ generations' = [s \in Registers |-> IF s \in Span(r, width) THEN nextGeneration + (s - r) ELSE generations[s]]
      /\ nextGeneration' = nextGeneration + width /\ flowEpoch' = flowEpoch /\ nextValue' = nextValue + width
      /\ UNCHANGED callVars /\ methods' = methods /\ Running /\ Next1
  BY DEF Write, Define
<1>2. DexTypeOK /\ GenerationsBounded /\ GenerationsTrue /\ ConstantsTrue
  BY DEF DexInv, FlowTrue
<1>3. PICK known \in {r} \cup {s \in Registers : s + width - 1 <= LastRegister}, fresh \in BOOLEAN :
       value' = [s \in Registers |-> IF s \notin Span(r, width) THEN value[s]
                                     ELSE IF fresh THEN nextValue + (s - r) ELSE value[known + (s - r)]]
  BY DEF Write
<1>4. ASSUME NEW s \in Span(r, width) PROVE s \in Registers /\ s - r \in 0..(width - 1) /\ known + (s - r) \in Registers
  <2>1. s \in Nat /\ r \in Nat /\ s >= r /\ s < r + width /\ s \in Registers /\ LastRegister \in Nat
    BY RegistersAre DEF Span, DexAssumption
  <2>2. known \in Nat /\ known + width - 1 <= LastRegister
    BY RegistersAre DEF Write
  <2>. QED BY <2>1, <2>2 DEF Registers
<1>5. value' \in [Registers -> Constants \cup Nat]
  <2>1. ASSUME NEW s \in Span(r, width) PROVE nextValue + (s - r) \in Nat /\ value[known + (s - r)] \in Constants \cup Nat
    BY <1>2, <1>4 DEF DexTypeOK
  <2>2. \A s \in Registers : value[s] \in Constants \cup Nat
    BY <1>2 DEF DexTypeOK
  <2>. QED BY <1>3, <2>1, <2>2
<1>6. constants' \in [Registers -> Constants \cup {Unknown}]
  BY <1>1, <1>2 DEF DexTypeOK
<1>7. ASSUME NEW s \in Registers
      PROVE  /\ s \in Span(r, width) => /\ generations'[s] = nextGeneration + (s - r) /\ Generation(s)' = generations'[s]
                                        /\ nextGeneration <= generations'[s] /\ generations'[s] < nextGeneration' /\ generations'[s] \in Int
             /\ s \notin Span(r, width) => generations'[s] = generations[s] /\ Generation(s)' = Generation(s) /\ value'[s] = value[s]
  <2>1. CASE s \in Span(r, width)
    <3>1. generations'[s] = nextGeneration + (s - r) /\ s - r \in Nat /\ s - r < width /\ width \in Nat /\ nextGeneration \in Nat \ {0}
      BY <1>1, <1>2, <1>4, <2>1 DEF DexTypeOK
    <3>. QED BY <1>1, <2>1, <3>1 DEF Generation
  <2>2. CASE s \notin Span(r, width)
    BY <1>1, <1>3, <2>2 DEF Generation
  <2>. QED BY <2>1, <2>2
<1>8. generations' \in [Registers -> Int] /\ nextGeneration' \in Nat \ {0} /\ nextGeneration <= nextGeneration'
      /\ flowEpoch' \in Nat /\ flowEpoch <= flowEpoch' /\ nextValue' \in Nat
  <2>1. \A s \in Registers : generations'[s] \in Int
    BY <1>2, <1>7 DEF DexTypeOK
  <2>. QED BY <1>1, <1>2, <2>1 DEF DexTypeOK
<1>9. \A s \in Registers : Lowest' <= generations'[s] /\ generations'[s] < nextGeneration'
  <2>1. Lowest' = Lowest /\ Lowest \in Int /\ Lowest < 0 /\ nextGeneration \in Nat /\ nextGeneration <= nextGeneration' /\ nextGeneration' \in Nat
    BY <1>1, <1>2 DEF Lowest, DexTypeOK, RegisterSpace
  <2>2. \A s \in Registers : generations[s] \in Int /\ Lowest <= generations[s] /\ generations[s] < nextGeneration
    BY <1>2 DEF GenerationsBounded, DexTypeOK
  <2>. QED BY <1>7, <2>1, <2>2
<1>10. ConstantsTrue'
  BY <1>1, <1>2, <1>7 DEF ConstantsTrue
<1>11. GenerationsTrue'
  <2>1. \A s \in Registers : s \notin Span(r, width) => Generation(s)' < nextGeneration /\ Generation(s)' \in Int
    BY <1>2, <1>7, GenerationIs
  <2>2. \A s \in Registers : s \in Span(r, width) => Generation(s)' >= nextGeneration /\ Generation(s)' \in Int /\ s \in Int
    BY <1>7, RegistersAre
  <2>3. ASSUME NEW s \in Registers, NEW u \in Registers, Generation(s)' = Generation(u)' PROVE value'[s] = value'[u]
    <3>1. CASE s \in Span(r, width) /\ u \in Span(r, width)
      <4>1. nextGeneration + (s - r) = nextGeneration + (u - r) /\ s \in Int /\ u \in Int /\ r \in Int /\ nextGeneration \in Int
        BY <1>2, <1>7, <2>3, <3>1, RegistersAre DEF DexTypeOK
      <4>. QED BY <4>1
    <3>2. CASE s \notin Span(r, width) /\ u \notin Span(r, width)
      BY <1>2, <1>7, <2>3, <3>2 DEF GenerationsTrue
    <3>. QED BY <1>2, <2>1, <2>2, <2>3, <3>1, <3>2 DEF DexTypeOK
  <2>4. ASSUME NEW s \in Registers, Generation(s)' \in randomGenerations PROVE value'[s] \in randomValues
    <3>1. s \notin Span(r, width)
      BY <1>2, <2>2, <2>4 DEF GenerationsBounded, DexTypeOK
    <3>. QED BY <1>2, <1>7, <2>4, <3>1 DEF GenerationsTrue
  <2>5. randomGenerations' = randomGenerations /\ randomValues' = randomValues
    BY <1>1 DEF callVars
  <2>. QED BY <2>3, <2>4, <2>5 DEF GenerationsTrue
<1>. QED BY <1>1, <1>5, <1>6, <1>8, <1>9, <1>10, <1>11, MovingKept

LEMMA CopyKept ==
  ASSUME DexAssumption, DexInv, NEW d \in Registers, NEW s \in Registers, Copy(d, s)
  PROVE  DexInv'
<1>1. /\ constants' = [constants EXCEPT ![d] = constants[s]] /\ generations' = [generations EXCEPT ![d] = Generation(s)]
      /\ value' = [value EXCEPT ![d] = value[s]]
      /\ nextGeneration' = nextGeneration /\ flowEpoch' = flowEpoch /\ nextValue' = nextValue
      /\ UNCHANGED callVars /\ methods' = methods /\ Running /\ Next1
  BY DEF Copy
<1>2. DexTypeOK /\ GenerationsBounded /\ GenerationsTrue /\ ConstantsTrue
  BY DEF DexInv, FlowTrue
<1>g. PICK g \in Int : g = Generation(s) /\ g # 0 /\ Lowest <= g /\ g < nextGeneration
  BY <1>2, GenerationIs
<1>3. /\ constants' \in [Registers -> Constants \cup {Unknown}] /\ generations' \in [Registers -> Int]
      /\ nextGeneration' \in Nat \ {0} /\ nextGeneration <= nextGeneration' /\ flowEpoch' \in Nat /\ flowEpoch <= flowEpoch'
      /\ value' \in [Registers -> Constants \cup Nat] /\ nextValue' \in Nat
  BY <1>1, <1>2, <1>g DEF DexTypeOK
<1>4. Generation(d)' = g /\ \A u \in Registers : u # d => Generation(u)' = Generation(u)
  BY <1>1, <1>2, <1>g DEF Generation, DexTypeOK
<1>5. \A u \in Registers : Lowest' <= generations'[u] /\ generations'[u] < nextGeneration'
  <2>1. Lowest' = Lowest
    BY <1>1 DEF Lowest
  <2>. QED BY <1>1, <1>2, <1>g, <2>1 DEF GenerationsBounded, DexTypeOK
<1>6. ConstantsTrue'
  BY <1>1, <1>2 DEF ConstantsTrue, DexTypeOK
<1>7. \A u \in Registers : \E v \in Registers : Generation(u)' = Generation(v) /\ value'[u] = value[v]
  BY <1>1, <1>2, <1>4, <1>g DEF DexTypeOK
<1>8. GenerationsTrue'
  <2>1. randomGenerations' = randomGenerations /\ randomValues' = randomValues
    BY <1>1 DEF callVars
  <2>. QED BY <1>2, <1>7, <2>1 DEF GenerationsTrue
<1>. QED BY <1>1, <1>3, <1>5, <1>6, <1>8, MovingKept

LEMMA BranchKept ==
  ASSUME DexAssumption, DexInv, Branch
  PROVE  DexInv'
<1>1. /\ constants' = [r \in Registers |-> Unknown] /\ generations' = [r \in Registers |-> 0]
      /\ flowEpoch' = flowEpoch + 1 /\ nextGeneration' = nextGeneration
      /\ value' = [r \in Registers |-> nextValue + r] /\ nextValue' = nextValue + LastRegister + 1
      /\ UNCHANGED callVars /\ methods' = methods /\ Running /\ Next1
  BY DEF Branch
<1>2. DexTypeOK /\ GenerationsBounded
  BY DEF DexInv, FlowTrue
<1>3. /\ constants' \in [Registers -> Constants \cup {Unknown}] /\ generations' \in [Registers -> Int]
      /\ nextGeneration' \in Nat \ {0} /\ nextGeneration <= nextGeneration' /\ flowEpoch' \in Nat /\ flowEpoch <= flowEpoch'
      /\ value' \in [Registers -> Constants \cup Nat] /\ nextValue' \in Nat
  BY <1>1, <1>2, RegistersAre DEF DexTypeOK, DexAssumption
<1>4. \A r \in Registers : Generation(r)' = -((flowEpoch + 1) * RegisterSpace + r + 1)
  BY <1>1 DEF Generation
<1>5. \A r \in Registers : Lowest' <= generations'[r] /\ generations'[r] < nextGeneration'
  BY <1>1, <1>2 DEF Lowest, DexTypeOK, RegisterSpace
<1>6. ConstantsTrue'
  BY <1>1 DEF ConstantsTrue
<1>7. GenerationsTrue'
  <2>1. ASSUME NEW r \in Registers, NEW s \in Registers, Generation(r)' = Generation(s)' PROVE r = s
    BY <1>2, <1>4, <2>1, RegistersAre DEF DexTypeOK, RegisterSpace
  <2>2. ASSUME NEW r \in Registers PROVE Generation(r)' \notin randomGenerations
    <3>1. Generation(r)' < Lowest
      BY <1>2, <1>4, RegistersAre DEF DexTypeOK, Lowest, RegisterSpace
    <3>2. \A g \in randomGenerations : g \in Int /\ Lowest <= g /\ Lowest \in Int
      BY <1>2 DEF GenerationsBounded, DexTypeOK, Lowest, RegisterSpace
    <3>3. Generation(r)' \in Int
      BY <1>2, <1>4, RegistersAre DEF DexTypeOK, RegisterSpace
    <3>. QED BY <3>1, <3>2, <3>3
  <2>3. randomGenerations' = randomGenerations
    BY <1>1 DEF callVars
  <2>. QED BY <2>1, <2>2, <2>3 DEF GenerationsTrue
<1>. QED BY <1>1, <1>3, <1>5, <1>6, <1>7, MovingKept

\* What a call leaves behind: the registers stay.
LEMMA CallKept ==
  ASSUME DexAssumption, DexInv, NEW r \in Registers, FillAtRandom(r) \/ UseAsMaterial(r) \/ ChooseAlgorithm(r)
  PROVE  DexInv'
<1>1. /\ constants' = constants /\ generations' = generations /\ nextGeneration' = nextGeneration /\ flowEpoch' = flowEpoch
      /\ value' = value /\ nextValue' = nextValue /\ methods' = methods /\ Call
  BY DEF FillAtRandom, UseAsMaterial, ChooseAlgorithm, passVars, machineVars
<1>2. DexTypeOK /\ GenerationsBounded /\ GenerationsTrue /\ ConstantsTrue /\ SignalsTrue /\ Admitted /\ DexCutsReported
  BY DEF DexInv, FlowTrue
<1>3. PICK g \in Int : g = Generation(r) /\ Lowest <= g /\ g < nextGeneration
  BY <1>2, GenerationIs
<1>4. PICK v : v = value[r] /\ v \in Constants \cup Nat
  BY <1>2 DEF DexTypeOK
<1>5. /\ left' \in 0..MaxSize /\ unitsUsed' \in 0..MaxUnits /\ callsUsed' \in 0..MaxInvocations /\ left' + unitsUsed' <= MaxUnits
      /\ dexLimits' \subseteq {"code_units", "invocations", "opcode"} /\ skipped' \in BOOLEAN /\ (skipped' => dexLimits' # {})
  <2>1. /\ left \in 0..MaxSize /\ unitsUsed \in 0..MaxUnits /\ callsUsed \in 0..MaxInvocations /\ left + unitsUsed <= MaxUnits /\ left > 0
        /\ dexLimits \subseteq {"code_units", "invocations", "opcode"} /\ MaxSize \in Nat /\ MaxUnits \in Nat /\ MaxInvocations \in Nat
    BY <1>1, <1>2 DEF Call, Running, DexTypeOK, Admitted, DexAssumption
  <2>2. skipped \in BOOLEAN /\ (skipped => dexLimits # {})
    BY <1>2 DEF DexTypeOK, DexCutsReported
  <2>3. CASE callsUsed < MaxInvocations
    <3>a. dexLimits' = dexLimits /\ skipped' = skipped
      BY <1>1, <2>3 DEF Call
    <3>1. callsUsed' = callsUsed + 1 /\ left' = left - 1 /\ unitsUsed' = unitsUsed + 1
      BY <1>1, <2>3 DEF Call, Next1
    <3>2. left' \in 0..MaxSize /\ unitsUsed' \in 0..MaxUnits /\ callsUsed' \in 0..MaxInvocations /\ left' + unitsUsed' <= MaxUnits
      BY <2>1, <2>3, <3>1
    <3>. QED BY <2>1, <2>2, <3>a, <3>2, Zenon
  <2>4. CASE ~(callsUsed < MaxInvocations)
    <3>a. skipped' = TRUE
      BY <1>1, <2>4 DEF Call
    <3>1. callsUsed' = callsUsed /\ left' = 0 /\ unitsUsed' = unitsUsed /\ dexLimits' = dexLimits \cup {"invocations"}
      BY <1>1, <2>4 DEF Call
    <3>2. left' \in 0..MaxSize /\ unitsUsed' \in 0..MaxUnits /\ callsUsed' \in 0..MaxInvocations /\ left' + unitsUsed' <= MaxUnits
      BY <2>1, <3>1
    <3>3. dexLimits' \subseteq {"code_units", "invocations", "opcode"} /\ dexLimits' # {}
      BY <2>1, <3>1
    <3>. QED BY <3>a, <3>2, <3>3, Zenon
  <2>. QED BY <2>3, <2>4
<1>6. \A s \in Registers : Generation(s)' = Generation(s)
  BY <1>1 DEF Generation
<1>7. Lowest' = Lowest
  BY <1>1 DEF Lowest
<1>8. CASE FillAtRandom(r)
  <2>1. /\ randomGenerations' \in {randomGenerations, randomGenerations \cup {g}} /\ randomValues' \in {randomValues, randomValues \cup {v}}
        /\ randomGenerations' # randomGenerations => randomValues' = randomValues \cup {v}
        /\ randomValues \subseteq randomValues'
        /\ signals' = signals /\ causes' = causes
    <3>1. /\ randomGenerations' = randomGenerations \cup (IF InList THEN {g} ELSE {})
          /\ randomValues' = randomValues \cup (IF InList THEN {v} ELSE {}) /\ signals' = signals /\ causes' = causes
      BY <1>3, <1>4, <1>8 DEF FillAtRandom
    <3>2. CASE InList
      BY <3>1, <3>2
    <3>3. CASE ~InList
      <4>1. randomGenerations' = randomGenerations /\ randomValues' = randomValues
        BY <3>1, <3>3
      <4>2. signals' = signals /\ causes' = causes
        BY <3>1
      <4>. QED BY <4>1, <4>2
    <3>. QED BY <3>2, <3>3
  <2>2. DexTypeOK'
    BY <1>1, <1>2, <1>3, <1>4, <1>5, <2>1 DEF DexTypeOK
  <2>3. GenerationsBounded'
    BY <1>1, <1>2, <1>3, <1>7, <2>1 DEF GenerationsBounded
  <2>4. GenerationsTrue'
    <3>1. ASSUME NEW s \in Registers, Generation(s) \in randomGenerations' PROVE value[s] \in randomValues'
      <4>1. CASE Generation(s) = g /\ randomGenerations' # randomGenerations
        BY <1>2, <1>3, <1>4, <2>1, <4>1 DEF GenerationsTrue
      <4>2. CASE Generation(s) \in randomGenerations
        BY <1>2, <2>1, <4>2 DEF GenerationsTrue
      <4>. QED BY <2>1, <3>1, <4>1, <4>2
    <3>. QED BY <1>1, <1>2, <1>6, <3>1 DEF GenerationsTrue
  <2>5. ConstantsTrue'
    BY <1>1, <1>2 DEF ConstantsTrue
  <2>6. SignalsTrue'
    BY <1>2, <2>1 DEF SignalsTrue
  <2>7. Admitted' /\ DexCutsReported'
    BY <1>5 DEF Admitted, DexCutsReported
  <2>. QED BY <2>2, <2>3, <2>4, <2>5, <2>6, <2>7 DEF DexInv, FlowTrue
<1>9. CASE UseAsMaterial(r) \/ ChooseAlgorithm(r)
  <2>1. randomGenerations' = randomGenerations /\ randomValues' = randomValues
    BY <1>9 DEF UseAsMaterial, ChooseAlgorithm
  <2>2. \E S \in SUBSET {"weak", "predictable"}, T \in SUBSET {"weak", "predictable"} :
           signals' = signals \cup S /\ causes' = causes \cup T /\ S \subseteq T
    <3>1. CASE UseAsMaterial(r)
      <4>1. Generation(r) \in randomGenerations => value[r] \in randomValues
        BY <1>2 DEF GenerationsTrue
      <4>. DEFINE S == IF InList /\ Generation(r) \in randomGenerations THEN {"predictable"} ELSE {}
                  T == IF InList /\ value[r] \in randomValues THEN {"predictable"} ELSE {}
      <4>2. signals' = signals \cup S /\ causes' = causes \cup T
        BY <3>1 DEF UseAsMaterial
      <4>3. S \subseteq T /\ T \subseteq {"weak", "predictable"}
        BY <4>1
      <4>. HIDE DEF S, T
      <4>. QED BY <4>2, <4>3
    <3>2. CASE ChooseAlgorithm(r)
      <4>1. constants[r] \in Weak => value[r] \in Weak
        BY <1>2 DEF ConstantsTrue, DexAssumption
      <4>. DEFINE S == IF InList /\ constants[r] \in Weak THEN {"weak"} ELSE {}
                  T == IF InList /\ value[r] \in Weak THEN {"weak"} ELSE {}
      <4>2. signals' = signals \cup S /\ causes' = causes \cup T
        BY <3>2 DEF ChooseAlgorithm
      <4>3. S \subseteq T /\ T \subseteq {"weak", "predictable"}
        BY <4>1
      <4>. HIDE DEF S, T
      <4>. QED BY <4>2, <4>3
    <3>. QED BY <1>9, <3>1, <3>2
  <2>3. signals' \subseteq causes' /\ signals' \subseteq {"weak", "predictable"} /\ causes' \subseteq {"weak", "predictable"}
    BY <1>2, <2>2 DEF SignalsTrue, DexTypeOK
  <2>4. DexTypeOK'
    BY <1>1, <1>2, <1>5, <2>1, <2>3 DEF DexTypeOK
  <2>5. GenerationsBounded' /\ GenerationsTrue'
    BY <1>1, <1>2, <1>6, <1>7, <2>1 DEF GenerationsBounded, GenerationsTrue
  <2>6. ConstantsTrue'
    BY <1>1, <1>2 DEF ConstantsTrue
  <2>7. Admitted' /\ DexCutsReported'
    BY <1>5 DEF Admitted, DexCutsReported
  <2>. QED BY <2>3, <2>4, <2>5, <2>6, <2>7 DEF DexInv, FlowTrue, SignalsTrue
<1>. QED BY <1>8, <1>9

LEMMA UnknownOpcodeKept ==
  ASSUME DexAssumption, DexInv, UnknownOpcode \/ (\E units \in 1..MaxSize : Skip(units)) \/ UNCHANGED dexVars
  PROVE  DexInv'
<1>1. /\ constants' = constants /\ generations' = generations /\ nextGeneration' = nextGeneration /\ flowEpoch' = flowEpoch
      /\ value' = value /\ nextValue' = nextValue /\ randomGenerations' = randomGenerations /\ randomValues' = randomValues
      /\ signals' = signals /\ causes' = causes /\ callsUsed' = callsUsed /\ unitsUsed' = unitsUsed /\ left' \in {0, left}
      /\ methods' \in 0..MaxMethods /\ skipped' \in BOOLEAN /\ (skipped' => dexLimits' # {})
      /\ dexLimits' \subseteq {"code_units", "invocations", "opcode"}
  <2>1. skipped \in BOOLEAN /\ (skipped => dexLimits # {}) /\ dexLimits \subseteq {"code_units", "invocations", "opcode"}
        /\ methods \in 0..MaxMethods /\ MaxMethods \in Nat
    BY DEF DexInv, FlowTrue, DexTypeOK, DexCutsReported, DexAssumption
  <2>2. /\ constants' = constants /\ generations' = generations /\ nextGeneration' = nextGeneration /\ flowEpoch' = flowEpoch
        /\ value' = value /\ nextValue' = nextValue /\ randomGenerations' = randomGenerations /\ randomValues' = randomValues
        /\ signals' = signals /\ causes' = causes /\ callsUsed' = callsUsed /\ unitsUsed' = unitsUsed /\ left' \in {0, left}
    BY DEF UnknownOpcode, Skip, dexVars, passVars, machineVars
  <2>3. methods' \in 0..MaxMethods
    <3>1. CASE methods' = methods
      BY <2>1, <3>1
    <3>2. CASE methods < MaxMethods /\ methods' = methods + 1
      BY <2>1, <3>2
    <3>. QED BY <3>1, <3>2 DEF UnknownOpcode, Skip, dexVars
  <2>4. (skipped' = skipped /\ dexLimits' = dexLimits) \/ (skipped' = TRUE /\ \E l \in {"code_units", "invocations", "opcode"} : dexLimits' = dexLimits \cup {l})
    BY DEF UnknownOpcode, Skip, dexVars
  <2>5. skipped' \in BOOLEAN /\ (skipped' => dexLimits' # {}) /\ dexLimits' \subseteq {"code_units", "invocations", "opcode"}
    <3>1. CASE skipped' = skipped /\ dexLimits' = dexLimits
      BY <2>1, <3>1, Zenon
    <3>2. ASSUME NEW l \in {"code_units", "invocations", "opcode"}, dexLimits' = dexLimits \cup {l}
          PROVE  dexLimits' # {} /\ dexLimits' \subseteq {"code_units", "invocations", "opcode"}
      BY <2>1, <3>2
    <3>3. CASE skipped' = TRUE /\ \E l \in {"code_units", "invocations", "opcode"} : dexLimits' = dexLimits \cup {l}
      BY <3>2, <3>3, Zenon
    <3>. QED BY <2>4, <3>1, <3>3, Zenon
  <2>. QED BY <2>2, <2>3, <2>5, Zenon
<1>2. DexTypeOK'
  BY <1>1 DEF DexInv, FlowTrue, DexTypeOK, DexAssumption
<1>3. GenerationsBounded' /\ GenerationsTrue' /\ ConstantsTrue' /\ SignalsTrue' /\ DexCutsReported'
  BY <1>1 DEF DexInv, FlowTrue, GenerationsBounded, GenerationsTrue, Generation, Lowest, ConstantsTrue, SignalsTrue, DexCutsReported
<1>4. Admitted'
  <2>1. left \in Nat /\ unitsUsed \in Nat /\ MaxUnits \in Nat /\ left + unitsUsed <= MaxUnits
    BY DEF DexInv, FlowTrue, DexTypeOK, Admitted, DexAssumption
  <2>2. (left' = 0 \/ left' = left) /\ unitsUsed' = unitsUsed
    BY <1>1
  <2>. QED BY <2>1, <2>2 DEF Admitted
<1>. QED BY <1>2, <1>3, <1>4 DEF DexInv, FlowTrue

\* A method begins with registers that hold anything, and all differ.
LEMMA BeginningIs ==
  ASSUME DexAssumption,
         constants = [r \in Registers |-> Unknown], generations = [r \in Registers |-> 0],
         nextGeneration = 1, flowEpoch = 0, randomGenerations = {}, signals = {}
  PROVE  GenerationsBounded /\ GenerationsTrue /\ ConstantsTrue /\ SignalsTrue
<1>1. GenerationsBounded
  BY DEF GenerationsBounded, Lowest, RegisterSpace
<1>2. GenerationsTrue
  BY DefaultsDiffer DEF GenerationsTrue
<1>. QED BY <1>1, <1>2 DEF ConstantsTrue, SignalsTrue

LEMMA EnterKept ==
  ASSUME DexAssumption, DexInv, NEW units \in 1..MaxSize, Enter(units)
  PROVE  DexInv'
<1>1. DexTypeOK'
  <2>1. value' \in [Registers -> Constants \cup Nat] /\ nextValue' \in Nat
    BY RegistersAre DEF Enter, Fresh, DexInv, FlowTrue, DexTypeOK, DexAssumption
  <2>. QED BY <2>1 DEF Enter, Fresh, DexInv, FlowTrue, DexTypeOK, DexAssumption
<1>2. Admitted' /\ DexCutsReported'
  BY DEF Enter, DexInv, FlowTrue, DexTypeOK, Admitted, DexCutsReported, DexAssumption
<1>3. /\ constants' = [r \in Registers |-> Unknown] /\ generations' = [r \in Registers |-> 0]
      /\ nextGeneration' = 1 /\ flowEpoch' = 0 /\ randomGenerations' = {} /\ signals' = {}
  BY DEF Enter, Fresh
<1>4. GenerationsBounded' /\ ConstantsTrue' /\ SignalsTrue'
  BY <1>3 DEF GenerationsBounded, Lowest, ConstantsTrue, SignalsTrue, RegisterSpace
<1>5. GenerationsTrue'
  <2>1. \A r \in Registers : Generation(r)' = -(0 * RegisterSpace + r + 1)
    BY <1>3 DEF Generation
  <2>2. \A r, s \in Registers : Generation(r)' = Generation(s)' => r = s
    BY <2>1, RegistersAre DEF RegisterSpace
  <2>. QED BY <1>3, <2>2 DEF GenerationsTrue
<1>. QED BY <1>1, <1>2, <1>4, <1>5 DEF DexInv, FlowTrue

LEMMA DexInvInit ==
  ASSUME DexAssumption, DexInit
  PROVE  DexInv
<1>1. DexTypeOK
  <2>1. value \in [Registers -> Constants \cup Nat] /\ nextValue \in Nat
    BY RegistersAre DEF DexInit, DexAssumption
  <2>2. skipped \in BOOLEAN
    BY Zenon DEF DexInit
  <2>. QED BY <2>1, <2>2 DEF DexInit, DexTypeOK, DexAssumption
<1>2. GenerationsBounded /\ GenerationsTrue /\ ConstantsTrue /\ SignalsTrue
  BY BeginningIs DEF DexInit
<1>3. Admitted /\ DexCutsReported
  BY DEF DexInit, Admitted, DexCutsReported, DexAssumption
<1>. QED BY <1>1, <1>2, <1>3 DEF DexInv, FlowTrue

LEMMA DexInvStep ==
  ASSUME DexAssumption, DexInv, [DexNext]_dexVars
  PROVE  DexInv'
<1>1. ASSUME NEW r \in Registers, NEW c \in Constants, LoadConstant(r, c) PROVE DexInv'
  BY <1>1, LoadConstantKept
<1>2. ASSUME NEW r \in Registers, NEW width \in 1..2, Write(r, width) PROVE DexInv'
  BY <1>2, WriteKept
<1>3. ASSUME NEW r \in Registers, NEW s \in Registers, Copy(r, s) PROVE DexInv'
  BY <1>3, CopyKept
<1>4. ASSUME NEW r \in Registers, FillAtRandom(r) \/ UseAsMaterial(r) \/ ChooseAlgorithm(r) PROVE DexInv'
  BY <1>4, CallKept
<1>5. CASE Branch
  BY <1>5, BranchKept
<1>6. CASE UnknownOpcode \/ (\E units \in 1..MaxSize : Skip(units)) \/ UNCHANGED dexVars
  BY <1>6, UnknownOpcodeKept
<1>7. ASSUME NEW units \in 1..MaxSize, Enter(units) PROVE DexInv'
  BY <1>7, EnterKept
<1>. QED BY <1>1, <1>2, <1>3, <1>4, <1>5, <1>6, <1>7 DEF DexNext

\* What the pass over a method believes is so: a known constant is in its register,
\* registers of one generation hold one object, a remembered generation stands for a
\* remembered object, and a signal has its cause in a call of the method.  This holds
\* of every sequence of instructions, of any length, with any registers and budgets
\* (_scan_dex_invocations, _behavior_signals_for_method in static_apk_analysis.py).
THEOREM FlowIsTrue ==
  ASSUME DexAssumption
  PROVE  DexSpec => []FlowTrue
<1>1. DexInit => DexInv
  BY DexInvInit
<1>2. DexInv /\ [DexNext]_dexVars => DexInv'
  BY DexInvStep
<1>3. DexInv => FlowTrue
  BY DEF DexInv
<1>. QED BY <1>1, <1>2, <1>3, PTL DEF DexSpec

(***************************************************************************)
(*                       The walk over the archives                        *)
(***************************************************************************)

ArchiveTypes ==
  /\ collection \in Seq(Archives) /\ archive \in 1..(Looked + 1) /\ entry \in Nat
  /\ bytes \in 0..MaxBytes /\ dexFiles \in 0..MaxDexFiles
  /\ embedded \subseteq Nat \X STRING /\ IsFiniteSet(embedded) /\ Cardinality(embedded) <= MaxEmbedded
  /\ scans \subseteq Nat \X Nat /\ opened \subseteq 1..Looked

\* Before the place the walk has come to, every entry was analysed, or something is wrong.
Passed ==
  problems = {} =>
    /\ Len(collection) <= MaxApks
    /\ \A a \in DOMAIN collection : \A i \in DOMAIN collection[a].entries :
         Planned(collection[a].entries[i]) /\ (a < archive \/ (a = archive /\ i < entry)) => <<a, i>> \in scans

ArchiveInv == collection \in Collections /\ ArchiveTypes /\ Passed /\ FirstOfName

LEMMA LookedIs ==
  ASSUME ArchiveAssumption, collection \in Seq(Archives)
  PROVE  /\ Len(collection) \in Nat /\ Looked \in Nat /\ Looked <= Len(collection) /\ Looked <= MaxApks
         /\ Len(collection) <= MaxApks => Looked = Len(collection)
         /\ DOMAIN collection = 1..Len(collection)
         /\ \A a \in 1..Looked : collection[a] \in Archives
  BY DEF ArchiveAssumption, Looked

LEMMA ArchivesAre ==
  ASSUME NEW a \in Archives
  PROVE  /\ a.entries \in Seq(Entry) /\ Len(a.entries) \in Nat /\ DOMAIN a.entries = 1..Len(a.entries)
         /\ \A i \in 1..Len(a.entries) : a.entries[i] \in Entry
  BY DEF Archives

LEMMA ArchiveInvInit ==
  ASSUME ArchiveAssumption, ArchiveInit
  PROVE  ArchiveInv
<1>1. collection \in Collections /\ collection \in Seq(Archives)
  BY DEF ArchiveAssumption, ArchiveInit
<1>2. IsFiniteSet({}) /\ Cardinality({}) = 0
  BY FS_EmptySet
<1>3. ArchiveTypes
  BY <1>1, <1>2, LookedIs DEF ArchiveAssumption, ArchiveInit, ArchiveTypes
<1>4. Passed
  <2>. SUFFICES ASSUME problems = {}
                PROVE  /\ Len(collection) <= MaxApks
                       /\ \A a \in DOMAIN collection : \A i \in DOMAIN collection[a].entries : ~(a < 1 \/ (a = 1 /\ i < 0))
    BY DEF Passed, ArchiveInit
  <2>1. Len(collection) <= MaxApks
    <3>1. MaxApks \in Nat /\ Len(collection) \in Nat
      BY <1>1, LookedIs DEF ArchiveAssumption
    <3>2. ~(Len(collection) > MaxApks)
      BY DEF ArchiveInit
    <3>. QED BY <3>1, <3>2
  <2>2. ASSUME NEW a \in DOMAIN collection, NEW i \in DOMAIN collection[a].entries PROVE ~(a < 1 \/ (a = 1 /\ i < 0))
    <3>1. a \in 1..Len(collection) /\ collection[a] \in Archives
      BY <1>1, LookedIs
    <3>2. i \in 1..Len(collection[a].entries) /\ Len(collection[a].entries) \in Nat
      BY <3>1, ArchivesAre
    <3>. QED BY <1>1, <3>1, <3>2, LookedIs
  <2>. QED BY <2>1, <2>2
<1>5. FirstOfName
  BY DEF FirstOfName, ArchiveInit
<1>. QED BY <1>1, <1>3, <1>4, <1>5 DEF ArchiveInv

\* The archive is left, with a problem or after its last entry.
LEMMA LeavingKept ==
  ASSUME ArchiveAssumption, ArchiveInv, GiveUp \/ CloseArchive \/ OpenArchive
  PROVE  ArchiveInv'
<1>1. /\ collection' = collection /\ bytes' = bytes /\ dexFiles' = dexFiles /\ embedded' = embedded /\ scans' = scans
      /\ archive <= Looked /\ problems \subseteq problems' /\ opened' \subseteq opened \cup {archive}
      /\ \/ archive' = archive /\ entry = 0 /\ entry' = 1
         \/ archive' = archive + 1 /\ entry' = 0 /\ (problems' # {} \/ entry = Len(Entries) + 1)
  BY DEF GiveUp, CloseArchive, OpenArchive, Leave
<1>2. Looked' = Looked /\ Looked \in Nat /\ archive \in 1..Looked
  BY <1>1, LookedIs DEF ArchiveInv, ArchiveTypes, Looked
<1>3. ArchiveTypes'
  <2>1. ArchiveTypes
    BY DEF ArchiveInv
  <2>2. archive' \in 1..(Looked' + 1) /\ entry' \in Nat
    BY <1>1, <1>2
  <2>3. opened' \subseteq 1..Looked'
    BY <1>1, <1>2, <2>1 DEF ArchiveTypes
  <2>. QED BY <1>1, <2>1, <2>2, <2>3 DEF ArchiveTypes
<1>4. Passed'
  <2>. SUFFICES ASSUME problems' = {}
                PROVE  /\ Len(collection) <= MaxApks
                       /\ \A a \in DOMAIN collection : \A i \in DOMAIN collection[a].entries :
                            Planned(collection[a].entries[i]) /\ (a < archive' \/ (a = archive' /\ i < entry')) => <<a, i>> \in scans
    BY <1>1 DEF Passed, Planned
  <2>1. problems = {}
    BY <1>1
  <2>2. ASSUME NEW a \in DOMAIN collection, NEW i \in DOMAIN collection[a].entries,
               Planned(collection[a].entries[i]), a < archive' \/ (a = archive' /\ i < entry')
        PROVE  <<a, i>> \in scans
    <3>1. a \in Nat /\ archive \in Nat /\ collection[a] \in Archives
      BY <1>2, LookedIs DEF ArchiveInv, ArchiveTypes
    <3>2. i \in 1..Len(collection[a].entries) /\ Len(collection[a].entries) \in Nat
      BY <3>1, ArchivesAre
    <3>3. a < archive \/ (a = archive /\ i < entry)
      <4>1. CASE archive' = archive /\ entry = 0 /\ entry' = 1
        BY <2>2, <3>1, <3>2, <4>1
      <4>2. CASE archive' = archive + 1 /\ entry' = 0 /\ entry = Len(Entries) + 1
        <5>1. a < archive \/ a = archive
          BY <2>2, <3>1, <3>2, <4>2
        <5>2. a = archive => i < entry
          BY <3>2, <4>2 DEF Entries
        <5>. QED BY <5>1, <5>2
      <4>. QED BY <1>1, <4>1, <4>2
    <3>. QED BY <2>1, <2>2, <3>3 DEF ArchiveInv, Passed
  <2>. QED BY <2>1, <2>2 DEF ArchiveInv, Passed
<1>5. FirstOfName'
  BY <1>1 DEF ArchiveInv, FirstOfName
<1>. QED BY <1>1, <1>3, <1>4, <1>5 DEF ArchiveInv

\* An entry that gives no trouble and is to be analysed is analysed.
LEMMA TakingIs ==
  ASSUME ArchiveAssumption, ArchiveInv, TakeEntry
  PROVE  /\ archive \in 1..Looked /\ Looked \in Nat /\ entry \in 1..Len(Entries) /\ Here \in Entry
         /\ collection' = collection /\ archive' = archive /\ entry' = entry + 1 /\ opened' = opened
         /\ problems \subseteq problems' /\ Trouble \subseteq problems'
         /\ scans' \in {scans, scans \cup {<<archive, entry>>}}
         /\ scans' # scans => ~Repeated
         /\ Planned(Here) /\ Trouble = {} => <<archive, entry>> \in scans'
         /\ bytes' \in 0..MaxBytes /\ dexFiles' \in 0..MaxDexFiles /\ embedded' \in {embedded, Embed.list}
<1>1. archive \in 1..Looked /\ Looked \in Nat /\ collection[archive] \in Archives
  BY LookedIs DEF ArchiveInv, ArchiveTypes, TakeEntry
<1>2. entry \in 1..Len(Entries) /\ Here \in Entry
  BY <1>1, ArchivesAre DEF TakeEntry, Entries, Here
<1>3. Here.size \in Nat /\ Here.content \in {"good", "malformed", "binary"}
  BY <1>2 DEF Entry
<1>. DEFINE admitted == ~Repeated /\ ~Here.rejected
            tried == admitted /\ Planned(Here) /\ (Here.kind = "dex" => dexFiles < MaxDexFiles)
            good == tried /\ Read(Here) /\ Here.content = "good"
<1>4. /\ embedded' = IF admitted THEN Embed.list ELSE embedded
      /\ problems' = problems \cup Trouble \cup (IF admitted /\ Embed.full THEN {"embedded_code_entries"} ELSE {})
      /\ bytes' = IF tried /\ Read(Here) THEN bytes + Here.size ELSE bytes
      /\ dexFiles' = IF good /\ Here.kind = "dex" THEN dexFiles + 1 ELSE dexFiles
      /\ scans' = IF good THEN scans \cup {<<archive, entry>>} ELSE scans
      /\ entry' = entry + 1 /\ collection' = collection /\ archive' = archive /\ opened' = opened
  BY DEF TakeEntry
<1>5. bytes' \in 0..MaxBytes
  <2>1. Read(Here) => bytes + Here.size <= MaxBytes
    BY DEF Read, Fits
  <2>. QED BY <1>3, <1>4, <2>1 DEF ArchiveInv, ArchiveTypes, ArchiveAssumption
<1>6. dexFiles' \in 0..MaxDexFiles
  BY <1>4 DEF ArchiveInv, ArchiveTypes, ArchiveAssumption
<1>7. ASSUME Planned(Here), Trouble = {} PROVE good
  <2>1. ~Repeated
    BY <1>7 DEF Trouble
  <2>2. ~Here.rejected
    BY <1>7, <2>1 DEF Trouble
  <2>3. ~(Here.kind = "dex" /\ dexFiles >= MaxDexFiles)
    BY <1>7, <2>1, <2>2 DEF Trouble
  <2>4. Read(Here) /\ Here.content = "good"
    BY <1>7, <2>1, <2>2, <2>3 DEF Trouble
  <2>5. Here.kind = "dex" => dexFiles < MaxDexFiles
    BY <2>3 DEF ArchiveInv, ArchiveTypes, ArchiveAssumption
  <2>. QED BY <1>7, <2>1, <2>2, <2>4, <2>5
<1>8. good => ~Repeated
  OBVIOUS
<1>. HIDE DEF good
<1>9. scans' \in {scans, scans \cup {<<archive, entry>>}} /\ (scans' # scans => good) /\ (good => <<archive, entry>> \in scans')
  BY <1>4
<1>10. problems \subseteq problems' /\ Trouble \subseteq problems'
  BY <1>4
<1>11. embedded' \in {embedded, Embed.list}
  BY <1>4
<1>. QED BY <1>1, <1>2, <1>4, <1>5, <1>6, <1>7, <1>8, <1>9, <1>10, <1>11

LEMMA PairIs ==
  ASSUME NEW A, NEW B, NEW a \in A, NEW b \in B
  PROVE  <<a, b>> \in A \X B
  OBVIOUS

LEMMA EmbeddingIs ==
  ASSUME ArchiveAssumption, ArchiveInv, archive \in Nat, Here.name \in STRING
  PROVE  Embed.list \subseteq Nat \X STRING /\ IsFiniteSet(Embed.list) /\ Cardinality(Embed.list) <= MaxEmbedded
<1>1. embedded \subseteq Nat \X STRING /\ IsFiniteSet(embedded) /\ Cardinality(embedded) <= MaxEmbedded /\ Cardinality(embedded) \in Nat
      /\ MaxEmbedded \in Nat
  BY FS_CardinalityType DEF ArchiveInv, ArchiveTypes, ArchiveAssumption
<1>2. PICK e : e = <<archive, Here.name>> /\ e \in Nat \X STRING
  BY PairIs
<1>3. Embed.list = embedded \/ (Embed.list = embedded \cup {e} /\ e \notin embedded /\ ~(Cardinality(embedded) >= MaxEmbedded))
  BY <1>2 DEF Embed
<1>4. e \notin embedded => IsFiniteSet(embedded \cup {e}) /\ Cardinality(embedded \cup {e}) = Cardinality(embedded) + 1
  BY <1>1, FS_AddElement
<1>5. PICK L : L = Embed.list
  OBVIOUS
<1>6. L = embedded \/ (L = embedded \cup {e} /\ e \notin embedded /\ ~(Cardinality(embedded) >= MaxEmbedded))
  BY <1>3, <1>5
<1>7. L \subseteq Nat \X STRING /\ IsFiniteSet(L) /\ Cardinality(L) <= MaxEmbedded
  <2>1. CASE L = embedded
    BY <1>1, <2>1
  <2>2. CASE L # embedded
    <3>1. L = embedded \cup {e} /\ IsFiniteSet(embedded \cup {e}) /\ Cardinality(embedded \cup {e}) = Cardinality(embedded) + 1
          /\ ~(Cardinality(embedded) >= MaxEmbedded)
      BY <1>4, <1>6, <2>2
    <3>2. L \subseteq Nat \X STRING
      BY <1>1, <1>2, <3>1, Zenon
    <3>3. Cardinality(L) <= MaxEmbedded
      BY <1>1, <3>1
    <3>. QED BY <3>1, <3>2, <3>3
  <2>. QED BY <2>1, <2>2
<1>. QED BY <1>5, <1>7

LEMMA TakingKept ==
  ASSUME ArchiveAssumption, ArchiveInv, TakeEntry
  PROVE  ArchiveInv'
<1>1. /\ archive \in 1..Looked /\ Looked \in Nat /\ entry \in 1..Len(Entries) /\ Here \in Entry
      /\ collection' = collection /\ archive' = archive /\ entry' = entry + 1 /\ opened' = opened
      /\ problems \subseteq problems' /\ Trouble \subseteq problems'
      /\ scans' \in {scans, scans \cup {<<archive, entry>>}}
      /\ scans' # scans => ~Repeated
      /\ Planned(Here) /\ Trouble = {} => <<archive, entry>> \in scans'
      /\ bytes' \in 0..MaxBytes /\ dexFiles' \in 0..MaxDexFiles /\ embedded' \in {embedded, Embed.list}
  BY TakingIs
<1>2. Looked' = Looked
  BY <1>1 DEF Looked
<1>3. ArchiveTypes'
  <2>1. Here.name \in STRING /\ archive \in Nat /\ entry \in Nat
    BY <1>1 DEF Entry, ArchiveInv, ArchiveTypes
  <2>2. embedded' \subseteq Nat \X STRING /\ IsFiniteSet(embedded') /\ Cardinality(embedded') <= MaxEmbedded
    <3>1. CASE embedded' = embedded
      BY <3>1 DEF ArchiveInv, ArchiveTypes
    <3>2. CASE embedded' = Embed.list
      BY <2>1, <3>2, EmbeddingIs
    <3>. QED BY <1>1, <3>1, <3>2
  <2>3. scans' \subseteq Nat \X Nat
    <3>1. scans \subseteq Nat \X Nat
      BY DEF ArchiveInv, ArchiveTypes
    <3>2. <<archive, entry>> \in Nat \X Nat
      BY <2>1
    <3>3. scans' \in {scans, scans \cup {<<archive, entry>>}}
      BY <1>1
    <3>. QED BY <3>1, <3>2, <3>3
  <2>4. /\ collection' = collection /\ archive' = archive /\ entry' = entry + 1 /\ opened' = opened
        /\ bytes' \in 0..MaxBytes /\ dexFiles' \in 0..MaxDexFiles
    BY <1>1
  <2>5. /\ collection' \in Seq(Archives) /\ archive' \in 1..(Looked' + 1) /\ entry' \in Nat /\ opened' \subseteq 1..Looked'
    BY <1>2, <2>1, <2>4 DEF ArchiveInv, ArchiveTypes
  <2>. QED BY <2>2, <2>3, <2>4, <2>5 DEF ArchiveTypes
<1>4. Passed'
  <2>. SUFFICES ASSUME problems' = {}
                PROVE  /\ Len(collection) <= MaxApks
                       /\ \A a \in DOMAIN collection : \A i \in DOMAIN collection[a].entries :
                            Planned(collection[a].entries[i]) /\ (a < archive \/ (a = archive /\ i < entry + 1)) => <<a, i>> \in scans'
    BY <1>1 DEF Passed, Planned
  <2>1. problems = {} /\ Trouble = {}
    BY <1>1
  <2>2. ASSUME NEW a \in DOMAIN collection, NEW i \in DOMAIN collection[a].entries,
               Planned(collection[a].entries[i]), a < archive \/ (a = archive /\ i < entry + 1)
        PROVE  <<a, i>> \in scans'
    <3>1. a \in Nat /\ archive \in Nat /\ collection[a] \in Archives /\ entry \in Nat
      <4>1. ArchiveTypes
        BY DEF ArchiveInv
      <4>2. archive \in Nat /\ entry \in Nat /\ collection \in Seq(Archives)
        BY <1>1, <4>1 DEF ArchiveTypes
      <4>. QED BY <4>2
    <3>2. i \in 1..Len(collection[a].entries) /\ Len(collection[a].entries) \in Nat
      BY <3>1, ArchivesAre
    <3>3. CASE a = archive /\ i = entry
      BY <1>1, <2>1, <2>2, <3>3 DEF Here, Entries
    <3>4. CASE ~(a = archive /\ i = entry)
      <4>1. a < archive \/ (a = archive /\ i < entry)
        BY <2>2, <3>1, <3>2, <3>4
      <4>2. <<a, i>> \in scans
        BY <2>1, <2>2, <4>1 DEF ArchiveInv, Passed
      <4>. QED BY <1>1, <4>2
    <3>. QED BY <3>3, <3>4
  <2>. QED BY <2>1, <2>2 DEF ArchiveInv, Passed
<1>5. FirstOfName'
  <2>. SUFFICES ASSUME NEW s \in scans', NEW i \in 1..(s[2] - 1)
                PROVE  collection[s[1]].entries[i].name # collection[s[1]].entries[s[2]].name
    BY <1>1 DEF FirstOfName
  <2>1. CASE s \in scans
    BY <2>1 DEF ArchiveInv, FirstOfName
  <2>2. CASE s \notin scans
    <3>1. s[1] = archive /\ s[2] = entry /\ ~Repeated
      BY <1>1, <2>2
    <3>. QED BY <3>1 DEF Repeated, Here, Entries
  <2>. QED BY <2>1, <2>2
<1>. QED BY <1>1, <1>3, <1>4, <1>5 DEF ArchiveInv

LEMMA ArchiveInvStep ==
  ASSUME ArchiveAssumption, ArchiveInv, [ArchiveNext]_archiveVars
  PROVE  ArchiveInv'
<1>1. CASE GiveUp \/ CloseArchive \/ OpenArchive
  BY <1>1, LeavingKept
<1>2. CASE TakeEntry
  BY <1>2, TakingKept
<1>3. CASE UNCHANGED archiveVars
  BY <1>3 DEF archiveVars, ArchiveInv, ArchiveTypes, Looked, Passed, Planned, FirstOfName
<1>. QED BY <1>1, <1>2, <1>3 DEF ArchiveNext

LEMMA ArchiveInvComplete ==
  ASSUME ArchiveAssumption, ArchiveInv
  PROVE  WalkComplete
<1>1. ArchiveTypeOK
  BY DEF ArchiveInv, ArchiveTypes, ArchiveTypeOK
<1>2. CompletedMeansAll
  <2>. SUFFICES ASSUME archive > Looked, problems = {},
                       NEW a \in DOMAIN collection, NEW i \in DOMAIN collection[a].entries, Planned(collection[a].entries[i])
                PROVE  <<a, i>> \in scans
    BY DEF CompletedMeansAll
  <2>1. Looked = Len(collection) /\ Looked \in Nat /\ a \in 1..Len(collection) /\ archive \in 1..(Looked + 1)
    BY LookedIs DEF ArchiveInv, ArchiveTypes, Passed
  <2>2. a < archive
    BY <2>1
  <2>. QED BY <2>2 DEF ArchiveInv, Passed
<1>. QED BY <1>1, <1>2 DEF ArchiveInv, WalkComplete

\* A walk that reports no problem has analysed every DEX file and every text entry
\* of every APK; of two entries with one name it takes the first; and it stays in
\* its budgets.  This holds of every collection of archives, however names, sizes,
\* contents and limits are (analyze_apks, _scan_archive in static_apk_analysis.py).
THEOREM WalksAreComplete ==
  ASSUME ArchiveAssumption
  PROVE  ArchiveSpec => []WalkComplete
<1>1. ArchiveInit => ArchiveInv
  BY ArchiveInvInit
<1>2. ArchiveInv /\ [ArchiveNext]_archiveVars => ArchiveInv'
  BY ArchiveInvStep
<1>3. ArchiveInv => WalkComplete
  BY ArchiveInvComplete
<1>. QED BY <1>1, <1>2, <1>3, PTL DEF ArchiveSpec
=============================================================================
