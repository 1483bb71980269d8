--------------------------- MODULE SessionLedger ---------------------------
(***************************************************************************)
(* The session records of one device (session.py): each session's status   *)
(* and its ledger of cleanup actions, written under the session's state    *)
(* lock, so that one operation here is one atomic read-modify-write.       *)
(***************************************************************************)
EXTENDS ManagedDevice, Sequences

CONSTANT Sessions    \* session identifiers

VARIABLES
  status,        \* status[s]: SessionStatus, or "absent"
  ledger,        \* ledger[s]: the cleanup_actions, in recording order
  captured,      \* sessions whose snapshot holds the original proxy state
  creating       \* sessions that SessionService.create is still filling

sessionVars == <<status, ledger, captured, creating>>

Statuses == {"absent", "initializing", "active", "cleanup_required", "cleaning",
             "cleaned", "cleanup_failed", "error"}
EntryStatuses == {"pending", "completed", "failed", "conflict", "skipped"}
Settled == {"completed", "skipped"}

\* What an action gives back, with the payload it needs for that: the port of
\* the endpoint or of the applied proxy, the previous proxy, the process.
Kinds == {"process", "reverse", "proxy"}
Actions == [kind : Kinds, port : Ports, prev : ProxyValues, proc : 0..MaxSpawns]

SessionTypeOK ==
  /\ status \in [Sessions -> Statuses]
  /\ ledger \in [Sessions -> Seq([action : Actions, status : EntryStatuses])]
  /\ captured \subseteq Sessions
  /\ creating \subseteq Sessions

SessionInit ==
  /\ status = [s \in Sessions |-> "absent"]
  /\ ledger = [s \in Sessions |-> <<>>]
  /\ captured = {} /\ creating = {}

Indices(s) == 1..Len(ledger[s])

Unsettled(s) == {i \in Indices(s) : ledger[s][i].status \notin Settled}

\* SessionRecord.pending_cleanup
PendingCleanup(s) == \E i \in Indices(s) : ledger[s][i].status \in {"pending", "failed", "conflict"}

\* require_modifying_session_slot: s may change the device now.
SlotFree(s) ==
  /\ status[s] \in {"active", "cleanup_required"}
  /\ \A i \in Indices(s) : ledger[s][i].status \notin {"failed", "conflict"}
  /\ \A t \in Sessions \ {s} : status[t] # "cleaned" => ~PendingCleanup(t)

\* record_cleanup_action, refused on a cleaned session
RecordAction(s, e) ==
  /\ status[s] # "cleaned"
  /\ ledger' = [ledger EXCEPT ![s] = Append(@, [action |-> e, status |-> "pending"])]
  /\ status' = [status EXCEPT ![s] = "cleanup_required"]
  /\ UNCHANGED <<captured, creating>>

\* update_cleanup_action: any session status, any earlier action status
UpdateAction(s, i, v) ==
  /\ ledger' = [ledger EXCEPT ![s][i].status = v]
  /\ UNCHANGED <<status, captured, creating>>

\* set_status: unconditional
SetStatus(s, v) ==
  /\ status' = [status EXCEPT ![s] = v]
  /\ UNCHANGED <<ledger, captured, creating>>

(***************************************************************************)
(* SessionService.create runs beside everything else, without the device   *)
(* lock: initialize, snapshot the device, activate; or end in error.       *)
(***************************************************************************)
Initialize(s) ==
  /\ status[s] = "absent"
  /\ status' = [status EXCEPT ![s] = "initializing"]
  /\ creating' = creating \cup {s}
  /\ UNCHANGED <<ledger, captured>>

Activate(s, readProxy) ==
  /\ s \in creating
  /\ status' = [status EXCEPT ![s] = "active"]
  /\ captured' = IF readProxy THEN captured \cup {s} ELSE captured
  /\ creating' = creating \ {s}
  /\ UNCHANGED ledger

CreateFails(s) ==
  /\ s \in creating
  /\ status' = [status EXCEPT ![s] = "error"]
  /\ creating' = creating \ {s}
  /\ UNCHANGED <<ledger, captured>>

CreateSession(s) ==
  \/ Initialize(s)
  \/ \E readProxy \in BOOLEAN : Activate(s, readProxy)
  \/ CreateFails(s)
=============================================================================
