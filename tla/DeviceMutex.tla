---------------------------- MODULE DeviceMutex ----------------------------
(***************************************************************************)
(* What the device lock promises the operations that use it.  A body is    *)
(* the code under "with DeviceLock(...)"; a thread may nest bodies of one  *)
(* and the same session, and no two threads are ever inside bodies for the *)
(* same device.  A thread that vanishes with its process gives the device  *)
(* up.  DeviceLock implements this module.                                 *)
(***************************************************************************)
EXTENDS Naturals

CONSTANTS Threads, Sessions, NoSession

VARIABLE body      \* body[t]: nesting depth of thread t, and for which session

Outside == [depth |-> 0, session |-> NoSession]

Init == body = [t \in Threads |-> Outside]

Enter(t, s) ==
  /\ body[t] = Outside
  /\ \A u \in Threads : body[u] = Outside
  /\ body' = [body EXCEPT ![t] = [depth |-> 1, session |-> s]]

Nest(t) ==
  /\ body[t].depth > 0
  /\ body[t].session \in Sessions
  /\ body' = [body EXCEPT ![t] = [depth |-> body[t].depth + 1, session |-> body[t].session]]

Leave(t) ==
  /\ body[t].depth > 0
  /\ body' = [body EXCEPT ![t] =
       IF body[t].depth = 1 THEN Outside
       ELSE [depth |-> body[t].depth - 1, session |-> body[t].session]]

Vanish(T) == body' = [t \in Threads |-> IF t \in T THEN Outside ELSE body[t]]

Next ==
  \/ \E t \in Threads, s \in Sessions \cup {NoSession} : Enter(t, s)
  \/ \E t \in Threads : Nest(t) \/ Leave(t)
  \/ \E T \in SUBSET Threads : Vanish(T)

Spec == Init /\ [][Next]_body
=============================================================================
