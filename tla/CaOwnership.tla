----------------------------- MODULE CaOwnership -----------------------------
(***************************************************************************)
(* CaStateManager (ca_state.py): one entry of a certificate store of the   *)
(* device, and the ledger by which a session knows whether the certificate *)
(* there is its own.  The ledger is a value that apply and cleanup return  *)
(* or put into their exception, and the caller keeps.  The store is the    *)
(* backend's, and others change it too, before, between and after the      *)
(* calls.  A call that fails may have had its effect.                      *)
(***************************************************************************)
EXTENDS Naturals

CONSTANTS
  Fingerprints,      \* certificates
  Target,            \* the one the session installs
  NoCertificate,
  MaxCaFaults,       \* bound: calls that fail
  MaxCaChanges,      \* bound: changes by others
  MaxCaLosses        \* bound: ledgers that are lost with their process

ASSUME CaAssumption ==
  /\ Target \in Fingerprints /\ NoCertificate \notin Fingerprints
  /\ MaxCaFaults \in Nat /\ MaxCaChanges \in Nat /\ MaxCaLosses \in Nat

VARIABLES
  installed,         \* the certificate in the store
  ca,                \* the caller's CaOwnershipLedger
  at,                \* the step of the call under way
  rollback,          \* the call is an apply that failed and takes back what it did
  putBy,             \* history: who put the certificate there
  since,             \* history: others changed the store after the snapshot
  caFaults, caChanges, caLosses    \* history, counted for the bounds

caVars == <<installed, ca, at, rollback, putBy, since, caFaults, caChanges, caLosses>>
caHistory == <<putBy, since, caChanges, caLosses>>

Values == Fingerprints \cup {NoCertificate}
SnapshotStates == {"none", "captured_present", "captured_absent", "capture_failed"}
AppliedStates == {"not_applied", "pre_existing", "applied", "removed"}
OwnershipStates == {"none", "pre_existing", "framework_owned", "unknown"}
CaSteps == {"idle", "install", "verify", "plan", "cleanup", "remove", "confirm"}

CaLedger == [snapshot : SnapshotStates, fingerprint : Values, applied : AppliedStates, owner : OwnershipStates]
NoLedger == [snapshot |-> "none", fingerprint |-> NoCertificate, applied |-> "not_applied", owner |-> "none"]

\* recovery_ledger, also what a successful apply returns.
Owned(l) == [l EXCEPT !.applied = "applied", !.owner = "framework_owned"]

\* Ledger and call fit together: only a snapshot without certificate leads to an
\* installation, and only an owned ledger to a removal.
CaTypeOK ==
  /\ installed \in Values /\ ca \in CaLedger /\ at \in CaSteps
  /\ rollback \in BOOLEAN /\ since \in BOOLEAN /\ putBy \in {"nobody", "framework", "others"}
  /\ caFaults \in 0..MaxCaFaults /\ caChanges \in 0..MaxCaChanges /\ caLosses \in 0..MaxCaLosses
  /\ at \in {"install", "verify", "plan"} \/ rollback =>
       ca.snapshot = "captured_absent" /\ ca.applied = "not_applied"
  /\ at \in {"remove", "confirm"} /\ ~rollback => ca.owner = "framework_owned"
  /\ rollback => at \in {"cleanup", "remove", "confirm"}

CaInit ==
  /\ installed \in Values /\ putBy = (IF installed = NoCertificate THEN "nobody" ELSE "others")
  /\ ca = NoLedger /\ at = "idle" /\ rollback = FALSE
  /\ since = FALSE /\ caFaults = 0 /\ caChanges = 0 /\ caLosses = 0

MayFail == caFaults < MaxCaFaults
Counted(failed) == caFaults' = IF failed THEN caFaults + 1 ELSE caFaults

(***************************************************************************)
(* Ends of a call                                                          *)
(***************************************************************************)
Returned(l) == ca' = l /\ at' = "idle" /\ rollback' = FALSE

\* Mutation: a rollback that failed leaves the caller with the ledger it had.
RaisedForgetting == Returned(ca)

\* An exception; that of a failed rollback carries the recovery ledger.
Raised == Returned(IF rollback \/ at = "plan" THEN Owned(ca) ELSE ca)

\* A rollback that succeeded: apply raises, what cleanup returned is dropped.
Cleaned(l) == Returned(IF rollback THEN ca ELSE l)

Goes(step, back) == at' = step /\ rollback' = back /\ UNCHANGED ca

(***************************************************************************)
(* snapshot                                                                *)
(***************************************************************************)
\* A caller that owns a certificate keeps its ledger (or loses it, see Lose).
Snapshot ==
  /\ at = "idle" /\ (ca.owner = "framework_owned" => ca.applied = "removed")
  /\ \E failed \in {FALSE} \cup {MayFail} :
       /\ Counted(failed)
       /\ ca' = IF failed THEN [NoLedger EXCEPT !.snapshot = "capture_failed", !.owner = "unknown"]
                ELSE [NoLedger EXCEPT !.fingerprint = installed,
                        !.snapshot = IF installed = NoCertificate THEN "captured_absent" ELSE "captured_present"]
  /\ since' = FALSE
  /\ UNCHANGED <<installed, at, rollback, putBy, caChanges, caLosses>>

(***************************************************************************)
(* apply                                                                   *)
(***************************************************************************)

\* A snapshot that failed or met another certificate is refused, one that met
\* the same certificate means that there is nothing to do.
Apply ==
  /\ at = "idle" /\ ca.snapshot \in {"captured_absent", "captured_present"} /\ ca.applied = "not_applied"
  /\ \/ ca.snapshot = "captured_present" /\ ca.fingerprint = Target
        /\ Returned([ca EXCEPT !.applied = "pre_existing", !.owner = "pre_existing"])
     \/ ca.snapshot = "captured_absent" /\ Goes("install", FALSE)
  /\ UNCHANGED <<installed, caFaults>> /\ UNCHANGED caHistory

Install ==
  /\ at = "install"
  /\ \E failed \in {FALSE} \cup {MayFail}, effect \in BOOLEAN :
       /\ Counted(failed) /\ (effect \/ failed)
       /\ installed' = IF effect THEN Target ELSE installed
       /\ putBy' = IF effect THEN "framework" ELSE putBy
       /\ Goes(IF failed THEN "plan" ELSE "verify", FALSE)
  /\ UNCHANGED <<since, caChanges, caLosses>>

Verify ==
  /\ at = "verify"
  /\ \E failed \in {FALSE} \cup {MayFail} :
       /\ Counted(failed)
       /\ IF ~failed /\ installed = Target THEN Returned(Owned(ca)) ELSE Goes("plan", FALSE)
  /\ UNCHANGED installed /\ UNCHANGED caHistory

\* The handler of apply: plan_cleanup of the recovery ledger, and cleanup if the
\* certificate is there, which plans once more.
Plan ==
  /\ at = "plan"
  /\ \E failed \in {FALSE} \cup {MayFail} :
       /\ Counted(failed)
       /\ \/ ~failed /\ installed = Target /\ Goes("cleanup", TRUE)
          \/ ~failed /\ installed = NoCertificate /\ Returned(ca)
          \/ (failed \/ installed \notin {Target, NoCertificate}) /\ Raised
  /\ UNCHANGED installed /\ UNCHANGED caHistory

(***************************************************************************)
(* cleanup                                                                 *)
(***************************************************************************)
\* Without an owned certificate cleanup refuses or has nothing to do.
Cleanup ==
  /\ at = "idle" /\ ca.owner = "framework_owned"
  /\ Goes("cleanup", FALSE)
  /\ UNCHANGED <<installed, caFaults>> /\ UNCHANGED caHistory

\* plan_cleanup.  A certificate that is gone is noted, but still owned.
Decide ==
  /\ at = "cleanup"
  /\ \E failed \in {FALSE} \cup {MayFail} :
       /\ Counted(failed)
       /\ \/ ~failed /\ installed = Target /\ Goes("remove", rollback)
          \/ ~failed /\ installed = NoCertificate /\ Cleaned([ca EXCEPT !.applied = "removed"])
          \/ (failed \/ installed \notin {Target, NoCertificate}) /\ Raised
  /\ UNCHANGED installed /\ UNCHANGED caHistory

\* remove_ca compares before it removes.
Remove ==
  /\ at = "remove"
  /\ \E failed \in {FALSE} \cup {MayFail}, effect \in BOOLEAN :
       /\ Counted(failed)
       /\ effect => installed = Target
       /\ ~effect => failed \/ installed # Target
       /\ installed' = IF effect THEN NoCertificate ELSE installed
       /\ putBy' = IF effect THEN "nobody" ELSE putBy
       /\ IF effect /\ ~failed THEN Goes("confirm", rollback) ELSE Raised
  /\ UNCHANGED <<since, caChanges, caLosses>>

Confirm ==
  /\ at = "confirm"
  /\ \E failed \in {FALSE} \cup {MayFail} :
       /\ Counted(failed)
       /\ IF ~failed /\ installed = NoCertificate THEN Cleaned([ca EXCEPT !.applied = "removed", !.owner = "none"]) ELSE Raised
  /\ UNCHANGED installed /\ UNCHANGED caHistory

(***************************************************************************)
(* Others, and the end of a process that holds a ledger                    *)
(***************************************************************************)
OthersChange ==
  /\ caChanges < MaxCaChanges /\ caChanges' = caChanges + 1 /\ since' = TRUE
  /\ installed' \in Values \ {installed}
  /\ putBy' = IF installed' = NoCertificate THEN "nobody" ELSE "others"
  /\ UNCHANGED <<ca, at, rollback, caFaults, caLosses>>

Lose ==
  /\ caLosses < MaxCaLosses /\ caLosses' = caLosses + 1
  /\ Returned(NoLedger)
  /\ UNCHANGED <<installed, putBy, since, caFaults, caChanges>>

ManagerStep == Snapshot \/ Apply \/ Install \/ Verify \/ Plan \/ Cleanup \/ Decide \/ Remove \/ Confirm
CaNext == ManagerStep \/ OthersChange \/ Lose
CaSpec == CaInit /\ [][CaNext]_caVars

(***************************************************************************)
(* Properties                                                              *)
(***************************************************************************)
\* Between two calls, a certificate that the manager put there is in the ledger
\* of the caller, whichever calls failed with or without effect: only the end of
\* a process leaves one that nobody knows.
OwnedIsKnown ==
  at = "idle" /\ caLosses = 0 /\ putBy = "framework" => ca.owner = "framework_owned"

\* A certificate of others is safe from the manager if it was there at the
\* snapshot.  One that came later is overwritten by an installation under way,
\* and removed only if it cannot be told from the session's own.
ForeignCertificateKept ==
  ManagerStep /\ putBy = "others" /\ installed' # installed =>
    since /\ (at = "install" \/ installed = Target)

\* Removed means that: what the manager had put there is gone.
RemovedIsGone == ca.applied = "removed" => putBy # "framework"

\* Whatever fails and whoever else changes the store: no step leaves the ledger
\* wrong about what the manager owns, nor takes away what others own.
LedgerRight == CaTypeOK /\ OwnedIsKnown /\ RemovedIsGone
CertificateAccounts == [][LedgerRight' /\ ForeignCertificateKept]_caVars
=============================================================================
