--------------------------- MODULE SharedDocuments ---------------------------
(***************************************************************************)
(* What the state lock of a session promises to those who change the index *)
(* of its evidence and its findings: every change is one step, made to     *)
(* what is there, and takes nothing away.  An entry of the index keeps its *)
(* id and never goes back to older contents of its file.  EvidenceIndex    *)
(* implements this module.                                                 *)
(***************************************************************************)
EXTENDS Naturals

CONSTANTS Files, Marks, NoEntry

VARIABLES index, findings

\* A hash is taken while a file goes from one version to another.
Entry == [id : Nat, from : Nat, to : Nat]

Init == index = [f \in Files |-> NoEntry] /\ findings = [m \in Marks |-> 0]

Follows(new, old) == new \in Entry /\ new.from <= new.to /\ (old # NoEntry => new.id = old.id /\ old.to <= new.from)

Put(f) ==
  /\ index' \in [Files -> Entry \cup {NoEntry}]
  /\ Follows(index'[f], index[f])
  /\ \A g \in Files \ {f} : index'[g] = index[g]
  /\ UNCHANGED findings

\* The record of one finding gets another validation.
Mark(m) == findings' = [findings EXCEPT ![m] = @ + 1] /\ UNCHANGED index

Next == (\E f \in Files : Put(f)) \/ (\E m \in Marks : Mark(m))
Spec == Init /\ [][Next]_<<index, findings>>
=============================================================================
