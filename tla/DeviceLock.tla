----------------------------- MODULE DeviceLock -----------------------------
(***************************************************************************)
(* The cross-process lock of one Android device (device_lock.py) as the    *)
(* threads of the CLI and web processes use it.  The OS file lock          *)
(* (msvcrt/fcntl) is "flock"; the metadata file beside it tells a refused  *)
(* caller who holds the device; "held" is the thread-local table that      *)
(* makes the lock re-entrant for one session.  The status page probes the  *)
(* lock by taking it (web_service.py).  Another device has another lock    *)
(* file, hence another instance of this module.                            *)
(***************************************************************************)
EXTENDS Naturals, Sequences

CONSTANTS
  Threads,        \* threads that may use the lock, of any process
  Probes,         \* those of them that serve the web status page
  Sessions,       \* session identifiers
  NoSession,      \* the session_id None
  NoThread,       \* nobody holds the OS lock
  Gone,           \* the owner token of a lock object that no longer exists
  Processes,      \* sets of threads that live and die together
  MaxNesting,     \* bound: nested with-statements of one thread
  MaxCrashes      \* bound: process crashes

ASSUME LockAssumption ==
  /\ Probes \subseteq Threads
  /\ NoSession \notin Sessions
  /\ NoThread \notin Threads /\ Gone \notin Threads
  /\ Processes \subseteq SUBSET Threads
  /\ MaxNesting \in Nat /\ MaxCrashes \in Nat

VARIABLES
  flock,          \* the thread whose handle has the OS lock, or NoThread
  metadata,       \* the metadata file: its owner and session, or NoFile
  held,           \* held[t]: the thread-local (depth, session_id)
  frames,         \* frames[t]: sessions of the with-bodies t is inside
  pc,             \* pc[t]: where t is in __enter__ or __exit__
  want,           \* want[t]: session_id of the lock object t is entering
  crashes

vars == <<flock, metadata, held, frames, pc, want, crashes>>

OptSessions == Sessions \cup {NoSession}
NoFile == [owner |-> NoThread, session |-> NoSession]
NotHeld == [depth |-> 0, session |-> NoSession]

TypeOK ==
  /\ flock \in Threads \cup {NoThread}
  /\ metadata \in [owner : Threads \cup {Gone, NoThread}, session : OptSessions]
  /\ held \in [Threads -> [depth : Nat, session : OptSessions]]
  /\ frames \in [Threads -> Seq(OptSessions)]
  /\ pc \in [Threads -> {"steady", "trying", "locked", "closing", "unlocking"}]
  /\ want \in [Threads -> OptSessions]
  /\ crashes \in 0..MaxCrashes

Inside(t) == frames[t] # <<>>

Init ==
  /\ flock = NoThread
  /\ metadata = NoFile
  /\ held = [t \in Threads |-> NotHeld]
  /\ frames = [t \in Threads |-> <<>>]
  /\ pc = [t \in Threads |-> "steady"]
  /\ want = [t \in Threads |-> NoSession]
  /\ crashes = 0

(***************************************************************************)
(* __enter__                                                               *)
(***************************************************************************)
\* Mutation: the session is not compared.
MayReenterAnySession(t, s) == held[t].depth > 0

MayReenter(t, s) == held[t].depth > 0 /\ held[t].session # NoSession /\ s = held[t].session

EnterReentrant(t, s) ==
  /\ pc[t] = "steady" /\ Len(frames[t]) < MaxNesting
  /\ t \notin Probes
  /\ MayReenter(t, s)
  /\ held' = [held EXCEPT ![t].depth = @ + 1]
  /\ frames' = [frames EXCEPT ![t] = Append(@, s)]
  /\ UNCHANGED <<flock, metadata, pc, want, crashes>>

\* Opening the lock file: the thread then polls the OS lock until its deadline.
BeginTry(t, s) ==
  /\ pc[t] = "steady" /\ Len(frames[t]) < MaxNesting
  /\ t \notin Probes
  /\ ~MayReenter(t, s)
  /\ pc' = [pc EXCEPT ![t] = "trying"]
  /\ want' = [want EXCEPT ![t] = s]
  /\ UNCHANGED <<flock, metadata, held, frames, crashes>>

\* The status page takes the lock only when it finds a metadata file.
BeginProbe(t) ==
  /\ pc[t] = "steady" /\ t \in Probes /\ ~Inside(t)
  /\ metadata # NoFile
  /\ pc' = [pc EXCEPT ![t] = "trying"]
  /\ want' = [want EXCEPT ![t] = NoSession]
  /\ UNCHANGED <<flock, metadata, held, frames, crashes>>

TryLock(t) ==
  /\ pc[t] = "trying" /\ flock = NoThread
  /\ flock' = t
  /\ pc' = [pc EXCEPT ![t] = "locked"]
  /\ UNCHANGED <<metadata, held, frames, want, crashes>>

\* Mutation: a thread that holds the lock itself polls on.
BusyOthersOnly(t) ==
  /\ pc[t] = "trying" /\ flock \notin {NoThread, t}
  /\ pc' = [pc EXCEPT ![t] = "steady"]
  /\ want' = [want EXCEPT ![t] = NoSession]
  /\ UNCHANGED <<flock, metadata, held, frames, crashes>>

\* The deadline has passed and the lock is taken, by this very thread or by
\* another: DeviceBusyError.
Busy(t) ==
  /\ pc[t] = "trying" /\ flock # NoThread
  /\ pc' = [pc EXCEPT ![t] = "steady"]
  /\ want' = [want EXCEPT ![t] = NoSession]
  /\ UNCHANGED <<flock, metadata, held, frames, crashes>>

\* Mutation: a metadata file that is already there is kept.
WriteMetadataOnce(t) ==
  /\ pc[t] = "locked"
  /\ metadata' = IF metadata = NoFile THEN [owner |-> t, session |-> want[t]] ELSE metadata
  /\ held' = [held EXCEPT ![t] = [depth |-> 1, session |-> want[t]]]
  /\ frames' = [frames EXCEPT ![t] = Append(@, want[t])]
  /\ pc' = [pc EXCEPT ![t] = "steady"]
  /\ want' = [want EXCEPT ![t] = NoSession]
  /\ UNCHANGED <<flock, crashes>>

WriteMetadata(t) ==
  /\ pc[t] = "locked"
  /\ metadata' = [owner |-> t, session |-> want[t]]
  /\ held' = [held EXCEPT ![t] = [depth |-> 1, session |-> want[t]]]
  /\ frames' = [frames EXCEPT ![t] = Append(@, want[t])]
  /\ pc' = [pc EXCEPT ![t] = "steady"]
  /\ want' = [want EXCEPT ![t] = NoSession]
  /\ UNCHANGED <<flock, crashes>>

\* The metadata cannot be written: __enter__ undoes itself through __exit__,
\* which leaves a file of another owner alone, and raises.
WriteMetadataFails(t) ==
  /\ pc[t] = "locked"
  /\ held' = [held EXCEPT ![t] = NotHeld]
  /\ pc' = [pc EXCEPT ![t] = "unlocking"]
  /\ want' = [want EXCEPT ![t] = NoSession]
  /\ UNCHANGED <<flock, metadata, frames, crashes>>

(***************************************************************************)
(* __exit__                                                                *)
(***************************************************************************)
ButLast(s) == SubSeq(s, 1, Len(s) - 1)

\* Mutation: the inner __exit__ does not look at its "reentrant" flag.
ExitReentrantReleases(t) ==
  /\ pc[t] = "steady" /\ Len(frames[t]) > 1
  /\ held' = [held EXCEPT ![t] = NotHeld]
  /\ frames' = [frames EXCEPT ![t] = ButLast(@)]
  /\ flock' = NoThread
  /\ UNCHANGED <<metadata, pc, want, crashes>>

ExitReentrant(t) ==
  /\ pc[t] = "steady" /\ Len(frames[t]) > 1
  /\ held' = [held EXCEPT ![t] = IF held[t].depth <= 1 THEN NotHeld
                 ELSE [depth |-> held[t].depth - 1, session |-> held[t].session]]
  /\ frames' = [frames EXCEPT ![t] = ButLast(@)]
  /\ UNCHANGED <<flock, metadata, pc, want, crashes>>

Exit(t) ==
  /\ pc[t] = "steady" /\ Len(frames[t]) = 1
  /\ held' = [held EXCEPT ![t] = NotHeld]
  /\ frames' = [frames EXCEPT ![t] = ButLast(@)]
  /\ pc' = [pc EXCEPT ![t] = "closing"]
  /\ UNCHANGED <<flock, metadata, want, crashes>>

\* The metadata goes only if it is still this object's; a file that cannot be
\* read or deleted stays behind, owned by an object that is no more.
ClearMetadata(t) ==
  /\ pc[t] = "closing"
  /\ \/ metadata' = IF metadata.owner = t THEN NoFile ELSE metadata
     \/ metadata' = IF metadata.owner = t THEN [metadata EXCEPT !.owner = Gone] ELSE metadata
  /\ pc' = [pc EXCEPT ![t] = "unlocking"]
  /\ UNCHANGED <<flock, held, frames, want, crashes>>

Unlock(t) ==
  /\ pc[t] = "unlocking"
  /\ flock' = NoThread
  /\ pc' = [pc EXCEPT ![t] = "steady"]
  /\ UNCHANGED <<metadata, held, frames, want, crashes>>

(***************************************************************************)
(* A process dies: the OS drops its locks, its metadata file stays.        *)
(***************************************************************************)
Crash(P) ==
  /\ crashes < MaxCrashes
  /\ crashes' = crashes + 1
  /\ flock' = IF flock \in P THEN NoThread ELSE flock
  /\ metadata' = IF metadata.owner \in P THEN [metadata EXCEPT !.owner = Gone] ELSE metadata
  /\ held' = [t \in Threads |-> IF t \in P THEN NotHeld ELSE held[t]]
  /\ frames' = [t \in Threads |-> IF t \in P THEN <<>> ELSE frames[t]]
  /\ pc' = [t \in Threads |-> IF t \in P THEN "steady" ELSE pc[t]]
  /\ want' = [t \in Threads |-> IF t \in P THEN NoSession ELSE want[t]]

ThreadNext(t) ==
  \/ \E s \in OptSessions : EnterReentrant(t, s) \/ BeginTry(t, s)
  \/ BeginProbe(t) \/ TryLock(t) \/ Busy(t)
  \/ WriteMetadata(t) \/ WriteMetadataFails(t)
  \/ ExitReentrant(t) \/ Exit(t) \/ ClearMetadata(t) \/ Unlock(t)

Next == (\E t \in Threads : ThreadNext(t)) \/ (\E P \in Processes : Crash(P))

Spec == Init /\ [][Next]_vars

\* A polling thread polls again after each sleep until its deadline: it is
\* never descheduled for ever.  Nothing is assumed of the bodies.
FairSpec == Spec /\ \A t \in Threads : WF_vars(TryLock(t) \/ Busy(t))

(***************************************************************************)
(* Properties                                                              *)
(***************************************************************************)

\* No two threads are ever inside bodies for the device.
MutualExclusion ==
  \A t, u \in Threads : Inside(t) /\ Inside(u) => t = u

\* A body, however deeply nested and whatever inner bodies have ended, runs
\* with the OS lock held and with the thread-local depth equal to its nesting.
BodyHasLock ==
  \A t \in Threads : Inside(t) => flock = t /\ held[t].depth = Len(frames[t])

\* What a refused caller reads in the metadata file while a body runs is
\* the body's own owner and session, never a crashed or earlier one's.
MetadataNamesHolder ==
  \A t \in Threads :
    Inside(t) => metadata = [owner |-> t, session |-> frames[t][1]]

\* Bodies nest only for one and the same session: an operation never runs
\* under the lock that an operation of another session, or of none, took.
NestsOneSession ==
  \A t \in Threads : Len(frames[t]) > 1 =>
    \A i \in 1..Len(frames[t]) :
      frames[t][i] = frames[t][1] /\ frames[t][i] \in Sessions

\* The lock does its work: at most one body for the device, every body under the
\* OS lock, and no body of another session below it.
LockHolds == TypeOK /\ MutualExclusion /\ BodyHasLock /\ NestsOneSession

\* A thread that asks for the lock gets it or an error, whatever the holder
\* does: with every thread polling there is no deadlock on a device.
NoEndlessWait == \A t \in Threads : pc[t] = "trying" ~> pc[t] # "trying"

\* The bodies behave as the abstract mutex says: the lock object's flags, the
\* thread-local table and the metadata file never let two operations overlap.
BodyOf(t) == [depth |-> Len(frames[t]),
              session |-> IF Inside(t) THEN frames[t][1] ELSE NoSession]
Bodies == [t \in Threads |-> BodyOf(t)]
Mutex == INSTANCE DeviceMutex WITH body <- Bodies
ImplementsMutex == Mutex!Spec
=============================================================================
