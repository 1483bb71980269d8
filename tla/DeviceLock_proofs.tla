------------------------- MODULE DeviceLock_proofs -------------------------
(***************************************************************************)
(* For every set of threads, sessions and processes: the device lock keeps *)
(* its type invariant, excludes two bodies, keeps nested bodies under the  *)
(* lock, and implements DeviceMutex.                                       *)
(***************************************************************************)
EXTENDS DeviceLock, SequenceTheorems, TLAPS

\* A thread between the OS lock call and the OS unlock call, or inside a body,
\* holds the OS lock.
Holder ==
  \A t \in Threads :
    Inside(t) \/ pc[t] \in {"locked", "closing", "unlocking"} => flock = t

\* On the way in and out of the outermost body the thread is inside none.
AtTheDoor ==
  \A t \in Threads : pc[t] \in {"locked", "closing", "unlocking"} => frames[t] = <<>>

\* The thread-local table mirrors the nesting of the bodies.
HeldMirrors ==
  \A t \in Threads :
    /\ held[t].depth = Len(frames[t])
    /\ Inside(t) => held[t].session = frames[t][1]

IInv ==
  TypeOK /\ Holder /\ AtTheDoor /\ HeldMirrors /\ NestsOneSession /\ MetadataNamesHolder

\* A prefix of a sequence.
LEMMA PrefixFacts ==
  ASSUME NEW S, NEW s, NEW n \in Nat, \A i \in 1..n : s[i] \in S
  PROVE  /\ SubSeq(s, 1, n) \in Seq(S)
         /\ Len(SubSeq(s, 1, n)) = n
         /\ \A i \in 1..n : SubSeq(s, 1, n)[i] = s[i]
<1>1. /\ SubSeq(s, 1, n) \in Seq(S)
      /\ Len(SubSeq(s, 1, n)) = IF 1 <= n THEN n - 1 + 1 ELSE 0
      /\ \A i \in 1..(n - 1 + 1) : SubSeq(s, 1, n)[i] = s[1 + i - 1]
  BY SubSeqProperties
<1>2. n - 1 + 1 = n /\ \A i \in 1..n : 1 + i - 1 = i
  OBVIOUS
<1>. QED BY <1>1, <1>2

\* Leaving the inner of two bodies keeps the outer ones in place.
LEMMA ButLastFacts ==
  ASSUME NEW S, NEW s \in Seq(S), NEW n \in Nat, Len(s) = n + 1
  PROVE  /\ ButLast(s) \in Seq(S)
         /\ Len(ButLast(s)) = n
         /\ \A i \in 1..n : ButLast(s)[i] = s[i]
<1>1. ButLast(s) = SubSeq(s, 1, n)
  BY Len(s) - 1 = n DEF ButLast
<1>2. \A i \in 1..n : s[i] \in S
  OBVIOUS
<1>. QED BY <1>1, <1>2, PrefixFacts

\* The invariant holds before the first thread asks for the lock.
LEMMA InitInv == ASSUME LockAssumption, Init PROVE IInv
  BY DEF LockAssumption, Init, IInv, TypeOK, Holder, AtTheDoor, HeldMirrors, NestsOneSession,
         MetadataNamesHolder, Inside, NotHeld, NoFile, OptSessions

\* One step of one thread, or one crash, keeps every conjunct.
LEMMA StepInv == ASSUME LockAssumption, IInv, [Next]_vars PROVE IInv'
<1>. USE DEF LockAssumption, IInv, TypeOK, Holder, AtTheDoor, HeldMirrors, NestsOneSession,
             MetadataNamesHolder, Inside, NotHeld, NoFile, OptSessions
<1>1. ASSUME NEW t \in Threads, NEW s \in OptSessions, EnterReentrant(t, s)
      PROVE  IInv'
  <2>1. /\ frames[t] \in Seq(OptSessions) /\ frames[t] # <<>> /\ Len(frames[t]) > 0
        /\ frames[t][1] = s /\ s \in Sessions
    BY <1>1 DEF EnterReentrant, MayReenter
  <2>2. PICK G \in Seq(OptSessions) :
          /\ G = Append(frames[t], s) /\ G # <<>>
          /\ Len(G) = Len(frames[t]) + 1
          /\ \A i \in 1..Len(frames[t]) : G[i] = frames[t][i]
          /\ G[Len(frames[t]) + 1] = s
    <3>. HIDE DEF OptSessions
    <3>1. /\ Append(frames[t], s) \in Seq(OptSessions)
          /\ Append(frames[t], s) # <<>>
          /\ Len(Append(frames[t], s)) = Len(frames[t]) + 1
          /\ \A i \in 1..Len(frames[t]) : Append(frames[t], s)[i] = frames[t][i]
          /\ Append(frames[t], s)[Len(frames[t]) + 1] = s
      BY ONLY <2>1, s \in OptSessions, AppendProperties
    <3>. QED BY ONLY <3>1
  <2>3. /\ frames' = [frames EXCEPT ![t] = G]
        /\ held' = [held EXCEPT ![t] = [held[t] EXCEPT !.depth = held[t].depth + 1]]
        /\ UNCHANGED <<flock, metadata, pc, want, crashes>>
    BY <1>1, <2>2 DEF EnterReentrant
  <2>4. TypeOK'
    BY <2>3
  <2>5. Holder' /\ AtTheDoor'
    BY <1>1, <2>1, <2>2, <2>3 DEF EnterReentrant
  <2>6. HeldMirrors' /\ MetadataNamesHolder'
    BY <2>1, <2>2, <2>3
  <2>7. \A i \in 1..Len(G) : G[i] = s
    <3>1. \A i \in 1..Len(frames[t]) : frames[t][i] = s
      <4>1. Len(frames[t]) = 1 \/ Len(frames[t]) > 1
        <5>1. Len(frames[t]) \in Nat
          BY <2>1, LenProperties
        <5>2. \A n \in Nat : n > 0 => n = 1 \/ n > 1
          OBVIOUS
        <5>. QED BY ONLY <2>1, <5>1, <5>2
      <4>. QED BY <2>1, <4>1
    <3>. QED BY <2>1, <2>2, <3>1
  <2>8. NestsOneSession'
    BY <2>1, <2>2, <2>3, <2>7
  <2>. QED BY <2>4, <2>5, <2>6, <2>8
<1>2. ASSUME NEW t \in Threads, NEW s \in OptSessions, BeginTry(t, s)
      PROVE  IInv'
  BY <1>2 DEF BeginTry
<1>3. ASSUME NEW t \in Threads, BeginProbe(t)
      PROVE  IInv'
  BY <1>3 DEF BeginProbe
<1>4. ASSUME NEW t \in Threads, TryLock(t)
      PROVE  IInv'
  BY <1>4 DEF TryLock
<1>5. ASSUME NEW t \in Threads, Busy(t)
      PROVE  IInv'
  BY <1>5 DEF Busy
<1>6. ASSUME NEW t \in Threads, WriteMetadata(t)
      PROVE  IInv'
  BY <1>6 DEF WriteMetadata
<1>7. ASSUME NEW t \in Threads, WriteMetadataFails(t)
      PROVE  IInv'
  BY <1>7 DEF WriteMetadataFails
<1>8. ASSUME NEW t \in Threads, ExitReentrant(t)
      PROVE  IInv'
  <2>1. /\ frames[t] \in Seq(OptSessions) /\ Len(frames[t]) \in Nat /\ Len(frames[t]) > 1
        /\ held[t].depth = Len(frames[t])
    BY <1>8 DEF ExitReentrant
  <2>2. PICK G \in Seq(OptSessions) :
          /\ G = ButLast(frames[t]) /\ Len(G) = Len(frames[t]) - 1
          /\ \A i \in 1..(Len(frames[t]) - 1) : G[i] = frames[t][i]
    <3>. HIDE DEF OptSessions
    <3>. DEFINE n == Len(frames[t]) - 1
    <3>1. n \in Nat /\ Len(frames[t]) = n + 1
      BY <2>1
    <3>2. /\ ButLast(frames[t]) \in Seq(OptSessions)
          /\ Len(ButLast(frames[t])) = n
          /\ \A i \in 1..n : ButLast(frames[t])[i] = frames[t][i]
      <4>. HIDE DEF n
      <4>. QED BY ONLY <2>1, <3>1, ButLastFacts
    <3>. QED BY ONLY <3>2
  <2>3. /\ frames' = [frames EXCEPT ![t] = G]
        /\ held' = [held EXCEPT ![t] = [depth |-> held[t].depth - 1, session |-> held[t].session]]
        /\ UNCHANGED <<flock, metadata, pc, want, crashes>>
    <3>1. held' = [held EXCEPT ![t] = IF held[t].depth <= 1 THEN NotHeld
                                      ELSE [depth |-> held[t].depth - 1, session |-> held[t].session]]
      BY ONLY <1>8 DEF ExitReentrant
    <3>2. ~(held[t].depth <= 1)
      BY ONLY <2>1
    <3>. QED BY ONLY <1>8, <2>2, <3>1, <3>2 DEF ExitReentrant
  <2>4. TypeOK'
    <3>1. held[t].depth - 1 \in Nat
      BY <2>1
    <3>2. [depth |-> held[t].depth - 1, session |-> held[t].session] \in [depth : Nat, session : OptSessions]
      BY <3>1
    <3>. HIDE DEF OptSessions
    <3>. QED BY <2>3, <3>2
  <2>5. Holder' /\ AtTheDoor'
    BY <1>8, <2>1, <2>2, <2>3 DEF ExitReentrant
  <2>6. HeldMirrors' /\ MetadataNamesHolder'
    <3>1. 1 \in 1..(Len(frames[t]) - 1) /\ Len(frames[t]) - 1 > 0
      BY ONLY <2>1
    <3>2. G[1] = frames[t][1] /\ frames[t] # <<>>
      BY ONLY <2>1, <2>2, <3>1, Len(<<>>) = 0
    <3>3. HeldMirrors'
      BY <2>1, <2>2, <2>3, <3>2
    <3>4. MetadataNamesHolder'
      BY <2>1, <2>2, <2>3, <3>2
    <3>. QED BY <3>3, <3>4
  <2>7. NestsOneSession'
    <3>1. ASSUME NEW u \in Threads, Len(frames'[u]) > 1, NEW i \in 1..Len(frames'[u])
          PROVE  frames'[u][i] = frames'[u][1] /\ frames'[u][i] \in Sessions
      <4>1. CASE u = t
        <5>1. frames'[u] = G
          BY <2>3, <4>1
        <5>2. 1 \in 1..(Len(frames[t]) - 1) /\ i \in 1..(Len(frames[t]) - 1)
          BY ONLY <2>1, <2>2, <3>1, <5>1
        <5>3. G[i] = frames[t][i] /\ G[1] = frames[t][1]
          BY ONLY <2>2, <5>2
        <5>4. i \in 1..Len(frames[t])
          BY ONLY <2>1, <5>2
        <5>. QED BY <2>1, <5>1, <5>3, <5>4
      <4>2. CASE u # t
        BY <2>3, <3>1, <4>2
      <4>. QED BY <4>1, <4>2
    <3>. QED BY <3>1
  <2>. QED BY <2>4, <2>5, <2>6, <2>7
<1>9. ASSUME NEW t \in Threads, Exit(t)
      PROVE  IInv'
  <2>1. /\ frames[t] \in Seq(OptSessions) /\ Len(frames[t]) = 1
        /\ flock = t
    <3>1. Inside(t)
      BY ONLY <1>9, Len(<<>>) = 0 DEF Exit, Inside
    <3>. QED BY <1>9, <3>1 DEF Exit
  <2>2. ButLast(frames[t]) = <<>>
    BY <2>1, SubSeqEmpty DEF ButLast
  <2>3. /\ frames' = [frames EXCEPT ![t] = <<>>]
        /\ held' = [held EXCEPT ![t] = NotHeld]
        /\ pc' = [pc EXCEPT ![t] = "closing"]
        /\ UNCHANGED <<flock, metadata, want, crashes>>
    BY <1>9, <2>2 DEF Exit
  <2>. QED BY <2>1, <2>3
<1>10. ASSUME NEW t \in Threads, ClearMetadata(t)
       PROVE  IInv'
  <2>1. /\ metadata' \in [owner : Threads \cup {Gone, NoThread}, session : OptSessions]
        /\ flock = t /\ frames[t] = <<>>
        /\ pc' = [pc EXCEPT ![t] = "unlocking"]
        /\ UNCHANGED <<flock, held, frames, want, crashes>>
    <3>1. [metadata EXCEPT !.owner = Gone] \in
            [owner : Threads \cup {Gone, NoThread}, session : OptSessions]
      OBVIOUS
    <3>2. NoFile \in [owner : Threads \cup {Gone, NoThread}, session : OptSessions]
      OBVIOUS
    <3>. HIDE DEF NoFile
    <3>3. metadata' \in [owner : Threads \cup {Gone, NoThread}, session : OptSessions]
      BY <1>10, <3>1, <3>2 DEF ClearMetadata
    <3>. QED BY <1>10, <3>3 DEF ClearMetadata
  <2>2. \A u \in Threads : ~Inside(u)
    BY <2>1
  <2>. QED BY <2>1, <2>2
<1>11. ASSUME NEW t \in Threads, Unlock(t)
       PROVE  IInv'
  BY <1>11 DEF Unlock
<1>12. ASSUME NEW P \in Processes, Crash(P)
       PROVE  IInv'
  <2>1. TypeOK'
    <3>1. [metadata EXCEPT !.owner = Gone] \in
            [owner : Threads \cup {Gone, NoThread}, session : OptSessions]
      OBVIOUS
    <3>2. <<>> \in Seq(OptSessions) /\ NotHeld \in [depth : Nat, session : OptSessions]
      OBVIOUS
    <3>3. crashes' \in 0..MaxCrashes
      BY <1>12 DEF Crash
    <3>4. /\ frames' \in [Threads -> Seq(OptSessions)]
          /\ held' \in [Threads -> [depth : Nat, session : OptSessions]]
      <4>. HIDE DEF OptSessions, NotHeld
      <4>. QED BY <1>12, <3>2 DEF Crash
    <3>5. metadata' \in [owner : Threads \cup {Gone, NoThread}, session : OptSessions]
      BY <1>12, <3>1 DEF Crash
    <3>6. /\ pc' \in [Threads -> {"steady", "trying", "locked", "closing", "unlocking"}]
          /\ want' \in [Threads -> OptSessions]
          /\ flock' \in Threads \cup {NoThread}
      BY <1>12 DEF Crash
    <3>. QED BY <3>3, <3>4, <3>5, <3>6
  <2>2. Holder' /\ AtTheDoor'
    BY <1>12 DEF Crash
  <2>3. HeldMirrors'
    BY <1>12 DEF Crash
  <2>4. NestsOneSession'
    BY <1>12 DEF Crash
  <2>5. MetadataNamesHolder'
    BY <1>12 DEF Crash
  <2>. QED BY <2>1, <2>2, <2>3, <2>4, <2>5
<1>13. CASE UNCHANGED vars
  BY <1>13 DEF vars
<1>. QED
  BY <1>1, <1>2, <1>3, <1>4, <1>5, <1>6, <1>7, <1>8, <1>9, <1>10, <1>11, <1>12, <1>13
  DEF Next, ThreadNext

\* The inductive invariant holds in every behaviour.
THEOREM Invariance == ASSUME LockAssumption PROVE Spec => []IInv
<1>1. Init => IInv
  BY InitInv
<1>2. IInv /\ [Next]_vars => IInv'
  BY StepInv
<1>. QED BY <1>1, <1>2, PTL DEF Spec

\* Every variable keeps its type.
THEOREM TypeCorrect == ASSUME LockAssumption PROVE Spec => []TypeOK
<1>1. IInv => TypeOK
  BY DEF IInv
<1>. QED BY <1>1, Invariance, PTL

\* Two threads are never inside bodies for one device: the second would need
\* the OS lock that the first still has.
THEOREM LockExcludes == ASSUME LockAssumption PROVE Spec => []MutualExclusion
<1>1. IInv => MutualExclusion
  BY DEF IInv, Holder, MutualExclusion
<1>. QED BY <1>1, Invariance, PTL

\* Ending an inner body never drops the lock of the outer one.
THEOREM NestedBodyKeepsLock == ASSUME LockAssumption PROVE Spec => []BodyHasLock
<1>1. IInv => BodyHasLock
  BY DEF IInv, Holder, HeldMirrors, BodyHasLock
<1>. QED BY <1>1, Invariance, PTL

\* The metadata file names the running body and not an earlier one.
THEOREM MetadataTruthful ==
  ASSUME LockAssumption PROVE Spec => [](MetadataNamesHolder /\ NestsOneSession)
<1>1. IInv => MetadataNamesHolder /\ NestsOneSession
  BY DEF IInv
<1>. QED BY <1>1, Invariance, PTL

\* The lock does its work: it excludes, it covers bodies however nested, and it
\* nests for one session only.
THEOREM LockHoldsAlways == ASSUME LockAssumption PROVE Spec => []LockHolds
<1>1. TypeOK /\ MutualExclusion /\ BodyHasLock /\ MetadataNamesHolder /\ NestsOneSession => LockHolds
  BY DEF LockHolds
<1>. QED BY <1>1, TypeCorrect, LockExcludes, NestedBodyKeepsLock, MetadataTruthful, PTL

\* Nobody is inside a body when a thread is about to enter its outermost one.
LEMMA LockedAlone ==
  ASSUME IInv, NEW t \in Threads, pc[t] = "locked"
  PROVE  \A u \in Threads : ~Inside(u)
  BY DEF IInv, Holder, AtTheDoor, Inside

\* Each step of the lock is a step of the abstract mutex or leaves it alone.
LEMMA StepRefines ==
  ASSUME LockAssumption, IInv, IInv', [Next]_vars
  PROVE  [Mutex!Next]_Bodies
<1>. USE DEF Inside
<1>1. frames' = frames => Bodies' = Bodies
  BY DEF Bodies, BodyOf
<1>2. ASSUME NEW t \in Threads, NEW s \in OptSessions, EnterReentrant(t, s)
      PROVE  Mutex!Nest(t)
  <2>1. /\ frames[t] # <<>> /\ frames[t][1] \in Sessions /\ Len(frames[t]) > 0
        /\ Len(frames[t]) \in Nat
    BY <1>2, LenProperties
       DEF EnterReentrant, MayReenter, IInv, TypeOK, HeldMirrors, OptSessions
  <2>2. PICK G : /\ frames' = [frames EXCEPT ![t] = G] /\ G # <<>>
                 /\ Len(G) = Len(frames[t]) + 1 /\ G[1] = frames[t][1]
    <3>1. /\ Append(frames[t], s) # <<>>
          /\ Len(Append(frames[t], s)) = Len(frames[t]) + 1
          /\ Append(frames[t], s)[1] = frames[t][1]
      <4>1. frames[t] \in Seq(OptSessions)
        BY DEF IInv, TypeOK
      <4>2. 1 \in 1..Len(frames[t])
        BY ONLY <2>1
      <4>. QED BY ONLY <1>2, <4>1, <4>2, AppendProperties
    <3>. QED BY ONLY <1>2, <3>1 DEF EnterReentrant
  <2>3. Bodies' = [Bodies EXCEPT ![t] = [depth |-> Len(frames[t]) + 1,
                                         session |-> frames[t][1]]]
    BY <2>1, <2>2 DEF Bodies, BodyOf, IInv, TypeOK
  <2>4. Bodies[t] = [depth |-> Len(frames[t]), session |-> frames[t][1]]
    BY <2>1 DEF Bodies, BodyOf
  <2>. QED BY <2>1, <2>3, <2>4 DEF Mutex!Nest
<1>3. ASSUME NEW t \in Threads, WriteMetadata(t)
      PROVE  Mutex!Enter(t, want[t])
  <2>1. \A u \in Threads : frames[u] = <<>>
    BY <1>3, LockedAlone DEF WriteMetadata
  <2>2. \A u \in Threads : Bodies[u] = Mutex!Outside
    BY <2>1, Len(<<>>) = 0 DEF Bodies, BodyOf, Mutex!Outside
  <2>3. PICK G : /\ frames' = [frames EXCEPT ![t] = G] /\ G # <<>>
                 /\ Len(G) = 1 /\ G[1] = want[t]
    <3>1. <<>> \in Seq(OptSessions) /\ want[t] \in OptSessions
      BY DEF IInv, TypeOK
    <3>2. /\ Append(<<>>, want[t]) # <<>> /\ Len(Append(<<>>, want[t])) = 0 + 1
          /\ Append(<<>>, want[t])[0 + 1] = want[t]
      BY ONLY <3>1, Len(<<>>) = 0, AppendProperties
    <3>. QED BY ONLY <1>3, <2>1, <3>2, t \in Threads, 0 + 1 = 1 DEF WriteMetadata
  <2>4. Bodies' = [Bodies EXCEPT ![t] = [depth |-> 1, session |-> want[t]]]
    BY <2>3 DEF Bodies, BodyOf, IInv, TypeOK
  <2>. QED BY <2>2, <2>4 DEF Mutex!Enter
<1>4. ASSUME NEW t \in Threads, ExitReentrant(t)
      PROVE  Mutex!Leave(t)
  <2>1. /\ frames[t] # <<>> /\ Len(frames[t]) > 1 /\ Len(frames[t]) \in Nat
        /\ frames[t] \in Seq(OptSessions)
    BY <1>4, LenProperties, Len(<<>>) = 0 DEF ExitReentrant, IInv, TypeOK
  <2>2. PICK G : /\ frames' = [frames EXCEPT ![t] = G] /\ G # <<>>
                 /\ Len(G) = Len(frames[t]) - 1 /\ G[1] = frames[t][1]
    <3>. DEFINE n == Len(frames[t]) - 1
    <3>1. n \in Nat /\ Len(frames[t]) = n + 1 /\ 1 \in 1..n /\ n # 0
      <4>1. \A m \in Nat : m > 1 =>
              m - 1 \in Nat /\ m = (m - 1) + 1 /\ 1 \in 1..(m - 1) /\ m - 1 # 0
        OBVIOUS
      <4>. QED BY ONLY <2>1, <4>1 DEF n
    <3>. HIDE DEF n
    <3>2. /\ Len(ButLast(frames[t])) = n
          /\ ButLast(frames[t])[1] = frames[t][1]
      BY ONLY <2>1, <3>1, ButLastFacts
    <3>3. ButLast(frames[t]) # <<>>
      BY ONLY <3>1, <3>2, Len(<<>>) = 0
    <3>. QED BY ONLY <1>4, <3>2, <3>3 DEF ExitReentrant, n
  <2>3. Bodies' = [Bodies EXCEPT ![t] = [depth |-> Len(frames[t]) - 1,
                                         session |-> frames[t][1]]]
    BY <2>1, <2>2 DEF Bodies, BodyOf, IInv, TypeOK
  <2>4. Bodies[t] = [depth |-> Len(frames[t]), session |-> frames[t][1]]
    BY <2>1 DEF Bodies, BodyOf
  <2>5. Bodies[t].depth > 0 /\ Bodies[t].depth # 1
    <3>1. \A m \in Nat : m > 1 => m > 0 /\ m # 1
      OBVIOUS
    <3>2. Bodies[t].depth = Len(frames[t])
      BY ONLY <2>4
    <3>3. Len(frames[t]) > 0 /\ Len(frames[t]) # 1
      BY ONLY <2>1, <3>1
    <3>. QED BY ONLY <3>2, <3>3
  <2>. QED BY ONLY <2>3, <2>4, <2>5 DEF Mutex!Leave
<1>5. ASSUME NEW t \in Threads, Exit(t)
      PROVE  Mutex!Leave(t)
  <2>1. /\ frames[t] # <<>> /\ Len(frames[t]) = 1
    BY <1>5, Len(<<>>) = 0 DEF Exit
  <2>2. ButLast(frames[t]) = <<>>
    BY <2>1, SubSeqEmpty DEF ButLast
  <2>3. frames' = [frames EXCEPT ![t] = <<>>]
    BY <1>5, <2>2 DEF Exit
  <2>4. Bodies' = [Bodies EXCEPT ![t] = Mutex!Outside]
    BY <2>3, Len(<<>>) = 0 DEF Bodies, BodyOf, IInv, TypeOK, Mutex!Outside
  <2>5. Bodies[t].depth = 1
    BY <2>1 DEF Bodies, BodyOf
  <2>. QED BY <2>4, <2>5 DEF Mutex!Leave
<1>6. ASSUME NEW P \in Processes, Crash(P)
      PROVE  Mutex!Vanish(P)
  <2>1. frames' = [t \in Threads |-> IF t \in P THEN <<>> ELSE frames[t]]
    BY <1>6 DEF Crash
  <2>2. Bodies' = [t \in Threads |-> IF t \in P THEN Mutex!Outside ELSE Bodies[t]]
    BY <2>1, Len(<<>>) = 0 DEF Bodies, BodyOf, Mutex!Outside
  <2>. QED BY <2>2 DEF Mutex!Vanish
<1>7. ASSUME NEW t \in Threads, ThreadNext(t)
      PROVE  Mutex!Next \/ Bodies' = Bodies
  <2>1. want[t] \in OptSessions
    BY DEF IInv, TypeOK
  <2>2. CASE frames' = frames
    BY <1>1, <2>2
  <2>3. CASE \/ \E s \in OptSessions : EnterReentrant(t, s)
             \/ WriteMetadata(t) \/ ExitReentrant(t) \/ Exit(t)
    BY <1>2, <1>3, <1>4, <1>5, <2>1, <2>3 DEF Mutex!Next, OptSessions
  <2>. QED BY <1>7, <2>2, <2>3
       DEF ThreadNext, BeginTry, BeginProbe, TryLock, Busy, WriteMetadataFails,
           ClearMetadata, Unlock
<1>8. ASSUME NEW P \in Processes, Crash(P)
      PROVE  Mutex!Next
  BY <1>6, <1>8 DEF Mutex!Next, LockAssumption
<1>. QED BY <1>1, <1>7, <1>8 DEF Next, vars

\* The lock implements the mutex the modifying operations are written against.
THEOREM Refinement == ASSUME LockAssumption PROVE Spec => ImplementsMutex
<1>1. Init => Mutex!Init
  BY Len(<<>>) = 0 DEF Init, Mutex!Init, Mutex!Outside, Bodies, BodyOf, Inside
<1>2. IInv /\ IInv' /\ [Next]_vars => [Mutex!Next]_Bodies
  BY StepRefines
<1>. QED BY <1>1, <1>2, Invariance, PTL DEF Spec, ImplementsMutex, Mutex!Spec
=============================================================================
