----------------------------- MODULE EvidenceIndex -----------------------------
(***************************************************************************)
(* The state lock of a session (file_lock.py) and what is written under    *)
(* it: EvidenceRepository.register_file (evidence.py) and                  *)
(* FindingRepository.set_validation (findings.py), which takes the lock    *)
(* again inside.  Both read a whole document and write it back.  The       *)
(* evidence files themselves are written by captures that know no lock.    *)
(***************************************************************************)
EXTENDS Naturals

CONSTANTS
  Threads, NoThread,
  Files,             \* evidence files
  Marks,             \* findings that are validated
  NoEntry,
  MaxVersion,        \* bound: times a file is written
  MaxCalls,          \* bound: calls
  MaxStoreFaults     \* bound: reads and writes that fail, processes that die

ASSUME StoreAssumption ==
  /\ NoThread \notin Threads /\ NoEntry \notin [id : Nat, from : Nat, to : Nat] \cup Files \cup Marks
  /\ MaxVersion \in Nat /\ MaxCalls \in Nat /\ MaxStoreFaults \in Nat

VARIABLES
  owner,             \* who has the lock of the OS
  held,              \* [Threads -> thread-local depth]
  index, findings,   \* the documents; of a finding, how many validations stood in its record
  content,           \* [Files -> version, 0 when there is none]
  step, call,        \* [Threads -> where a call is, and its locals]
  known,             \* history: [Files -> version that a returned registration had found]
  marked,            \* history: [Marks -> validations whose call returned]
  calls, storeFaults \* history, counted for the bounds

storeVars == <<owner, held, index, findings, content, step, call, known, marked, calls, storeFaults>>

Steps == {"idle", "waiting", "reading", "hashing", "hashed", "nesting", "writing", "leaving"}
Inside == Steps \ {"idle", "waiting"}
IndexEntry == [id : Nat, from : Nat, to : Nat]
Documents == [index : [Files -> IndexEntry \cup {NoEntry}], findings : [Marks -> Nat]]
StoreCall == [file : Files \cup {NoEntry}, mark : Marks \cup {NoEntry}, number : Nat, since : Nat, read : Documents,
         from : Nat, to : Nat, returns : BOOLEAN]
NoCall == [file |-> NoEntry, mark |-> NoEntry, number |-> 0, since |-> 0, from |-> 0, to |-> 0, returns |-> FALSE,
           read |-> [index |-> [f \in Files |-> NoEntry], findings |-> [m \in Marks |-> 0]]]
Registering(t) == call[t].file # NoEntry

StoreTypeOK ==
  /\ owner \in Threads \cup {NoThread} /\ held \in [Threads -> 0..2]
  /\ index \in [Files -> IndexEntry \cup {NoEntry}] /\ findings \in [Marks -> Nat]
  /\ content \in [Files -> 0..MaxVersion]
  /\ step \in [Threads -> Steps] /\ call \in [Threads -> StoreCall]
  /\ known \in [Files -> 0..MaxVersion] /\ marked \in [Marks -> Nat]
  /\ calls \in 0..MaxCalls /\ storeFaults \in 0..MaxStoreFaults

StoreInit ==
  /\ owner = NoThread /\ held = [t \in Threads |-> 0]
  /\ index = [f \in Files |-> NoEntry] /\ findings = [m \in Marks |-> 0]
  /\ content = [f \in Files |-> 0]
  /\ step = [t \in Threads |-> "idle"] /\ call = [t \in Threads |-> NoCall]
  /\ known = [f \in Files |-> 0] /\ marked = [m \in Marks |-> 0] /\ calls = 0 /\ storeFaults = 0

At(t, here) == step[t] = here
GoTo(t, there) == step' = [step EXCEPT ![t] = there]
storeLock == <<owner, held>>
storeFiles == <<index, findings, content>>
storeHistory == <<known, marked, calls, storeFaults>>

(***************************************************************************)
(* FileLock                                                                *)
(***************************************************************************)
\* A thread that holds the lock goes on to count; another has to get it.
EnterLock(t) ==
  IF held[t] > 0 THEN held' = [held EXCEPT ![t] = @ + 1] /\ UNCHANGED owner
  ELSE owner = NoThread /\ owner' = t /\ held' = [held EXCEPT ![t] = 1]

\* Mutation: the inner exit gives the lock back.
ExitAtOnce(t) == held' = [held EXCEPT ![t] = @ - 1] /\ owner' = NoThread

Exit(t) ==
  /\ held' = [held EXCEPT ![t] = @ - 1]
  /\ owner' = IF held[t] = 1 THEN NoThread ELSE owner

TryLock(t) ==
  /\ At(t, "waiting") /\ EnterLock(t) /\ GoTo(t, "reading")
  /\ UNCHANGED call /\ UNCHANGED storeFiles /\ UNCHANGED storeHistory

\* The deadline passed, and the last attempt failed too.
Busy(t) ==
  /\ At(t, "waiting") /\ owner # NoThread
  /\ GoTo(t, "idle") /\ call' = [call EXCEPT ![t] = NoCall]
  /\ UNCHANGED storeLock /\ UNCHANGED storeFiles /\ UNCHANGED storeHistory

(***************************************************************************)
(* register_file and set_validation                                        *)
(***************************************************************************)
\* register_file looks for the file before it asks for the lock.
Begin(t) ==
  /\ At(t, "idle") /\ calls < MaxCalls /\ calls' = calls + 1 /\ GoTo(t, "waiting")
  /\ \/ \E f \in Files : content[f] > 0 /\
          call' = [call EXCEPT ![t] = [NoCall EXCEPT !.file = f, !.number = calls + 1, !.since = content[f], !.returns = TRUE]]
     \/ \E m \in Marks : call' = [call EXCEPT ![t] = [NoCall EXCEPT !.mark = m, !.returns = TRUE]]
  /\ UNCHANGED storeLock /\ UNCHANGED storeFiles /\ UNCHANGED <<known, marked, storeFaults>>

ReadDocuments(t) ==
  /\ At(t, "reading") /\ call' = [call EXCEPT ![t].read = [index |-> index, findings |-> findings]]
  /\ GoTo(t, IF Registering(t) THEN "hashing" ELSE "nesting")
  /\ UNCHANGED storeLock /\ UNCHANGED storeFiles /\ UNCHANGED storeHistory

\* sha256_file streams the file, which may be written meanwhile.
BeginHash(t) ==
  /\ At(t, "hashing") /\ GoTo(t, "hashed")
  /\ call' = [call EXCEPT ![t].from = content[call[t].file]]
  /\ UNCHANGED storeLock /\ UNCHANGED storeFiles /\ UNCHANGED storeHistory

\* Mutation: the hash of the file as it was when the call was made.
EndHashEarly(t) ==
  /\ At(t, "hashed") /\ GoTo(t, "writing")
  /\ call' = [call EXCEPT ![t].from = call[t].since, ![t].to = call[t].since]
  /\ UNCHANGED storeLock /\ UNCHANGED storeFiles /\ UNCHANGED storeHistory

EndHash(t) ==
  /\ At(t, "hashed") /\ GoTo(t, "writing")
  /\ call' = [call EXCEPT ![t].to = content[call[t].file]]
  /\ UNCHANGED storeLock /\ UNCHANGED storeFiles /\ UNCHANGED storeHistory

\* set_validation calls save, which takes the lock as well.
Nest(t) ==
  /\ At(t, "nesting") /\ EnterLock(t) /\ GoTo(t, "writing")
  /\ UNCHANGED call /\ UNCHANGED storeFiles /\ UNCHANGED storeHistory

\* The entry of a file keeps the id it has.
NewEntry(t) ==
  LET old == call[t].read.index[call[t].file] IN
  [id |-> IF old = NoEntry THEN call[t].number ELSE old.id, from |-> call[t].from, to |-> call[t].to]

\* write_json_atomic puts the whole document in the place of the old one.  A
\* validation takes the place of the one in the record of its finding.
WriteDocument(t) ==
  /\ At(t, "writing") /\ GoTo(t, "leaving")
  /\ IF Registering(t)
     THEN index' = [call[t].read.index EXCEPT ![call[t].file] = NewEntry(t)] /\ UNCHANGED findings
     ELSE findings' = [call[t].read.findings EXCEPT ![call[t].mark] = @ + 1] /\ UNCHANGED index
  /\ UNCHANGED <<content, call>> /\ UNCHANGED storeLock /\ UNCHANGED storeHistory

\* A call that returns is remembered in the history.
LeaveLock(t) ==
  /\ At(t, "leaving") /\ Exit(t)
  /\ IF held[t] > 1 THEN UNCHANGED <<step, call, known, marked>>
     ELSE /\ GoTo(t, "idle") /\ call' = [call EXCEPT ![t] = NoCall]
          /\ known' = [f \in Files |-> IF call[t].returns /\ f = call[t].file /\ known[f] < call[t].since
                                       THEN call[t].since ELSE known[f]]
          /\ marked' = IF call[t].returns /\ ~Registering(t) THEN [marked EXCEPT ![call[t].mark] = @ + 1] ELSE marked
  /\ UNCHANGED storeFiles /\ UNCHANGED <<calls, storeFaults>>

ThreadStep(t) ==
  TryLock(t) \/ Busy(t) \/ ReadDocuments(t) \/ BeginHash(t) \/ EndHash(t) \/ Nest(t) \/ WriteDocument(t) \/ LeaveLock(t)

(***************************************************************************)
(* What happens to them                                                    *)
(***************************************************************************)
\* A document or a file cannot be read or written: the exception leaves the bodies.
Fail(t) ==
  /\ step[t] \in {"reading", "hashing", "hashed", "writing"}
  /\ storeFaults < MaxStoreFaults /\ storeFaults' = storeFaults + 1
  /\ GoTo(t, "leaving") /\ call' = [call EXCEPT ![t].returns = FALSE]
  /\ UNCHANGED storeLock /\ UNCHANGED storeFiles /\ UNCHANGED <<known, marked, calls>>

\* The process of the thread ends, and the OS drops its lock.
Die(t) ==
  /\ ~At(t, "idle") /\ storeFaults < MaxStoreFaults /\ storeFaults' = storeFaults + 1
  /\ GoTo(t, "idle") /\ call' = [call EXCEPT ![t] = NoCall]
  /\ held' = [held EXCEPT ![t] = 0] /\ owner' = IF owner = t THEN NoThread ELSE owner
  /\ UNCHANGED storeFiles /\ UNCHANGED <<known, marked, calls>>

Capture(f) ==
  /\ content[f] < MaxVersion /\ content' = [content EXCEPT ![f] = @ + 1]
  /\ UNCHANGED <<index, findings, step, call>> /\ UNCHANGED storeLock /\ UNCHANGED storeHistory

StoreNext ==
  \/ \E t \in Threads : Begin(t) \/ ThreadStep(t) \/ Fail(t) \/ Die(t)
  \/ \E f \in Files : Capture(f)

StoreSpec == StoreInit /\ [][StoreNext]_storeVars

(***************************************************************************)
(* Properties                                                              *)
(***************************************************************************)
\* Inside the bodies of a call, nested or not, after failures and deaths of
\* others, the thread has the lock, and it gives it back when it leaves the outer one.
BodyHasStateLock ==
  \A t \in Threads :
    /\ step[t] \in Inside => owner = t /\ held[t] > 0
    /\ step[t] \notin Inside => owner # t /\ held[t] = 0

\* What a call that returned has written stays: the file is in the index with
\* contents no older than those it had at that call, and no validation, of the same
\* finding or of another, was undone by one that had not read it.
NothingForgotten ==
  /\ \A m \in Marks : marked[m] <= findings[m]
  /\ \A f \in Files : known[f] > 0 => index[f] # NoEntry /\ index[f].to >= known[f]

\* Under the state lock, and only there, documents are written, and nothing that a
\* call has written is lost.
WritesKept == StoreTypeOK /\ BodyHasStateLock /\ NothingForgotten

\* Read, change and write of a whole document look like one step to all others.
Abstract == INSTANCE SharedDocuments
ImplementsDocuments == Abstract!Spec
=============================================================================
