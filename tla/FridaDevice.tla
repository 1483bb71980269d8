---------------------------- MODULE FridaDevice ----------------------------
(***************************************************************************)
(* What a Frida observation leaves in the world: Frida Server processes    *)
(* and a managed file on one Android device, Frida client processes on the *)
(* host.  A process is named by a number that stands for its PID together  *)
(* with its start time, so it never comes back; its PID alone may.         *)
(***************************************************************************)
EXTENDS Naturals, FiniteSets

CONSTANTS
  Sessions,      \* session identifiers
  Outsider,      \* starts a Frida Server that is not the framework's
  MaxProcs,      \* bound: server and client processes ever started
  MaxOutside     \* bound: things that happen without the framework

ASSUME FridaDeviceAssumption ==
  /\ Outsider \notin Sessions
  /\ MaxProcs \in Nat /\ MaxOutside \in Nat

VARIABLES
  servers,       \* running Frida Servers: [id, by], by the session that started it
  clients,       \* running Frida clients on the host
  file,          \* sessions whose managed frida-server file is on the device
  occupied,      \* ids of dead processes whose PID an unrelated process has now
  started,       \* processes started so far
  outside,       \* things that happened without the framework so far
  stray          \* history: the framework ended a process that is not its own

fridaDeviceVars == <<servers, clients, file, occupied, started, outside, stray>>

FridaIds == 1..MaxProcs

FridaDeviceTypeOK ==
  /\ servers \subseteq [id : FridaIds, by : Sessions \cup {Outsider}]
  /\ clients \subseteq FridaIds
  /\ file \subseteq Sessions
  /\ occupied \subseteq FridaIds
  /\ started \in 0..MaxProcs /\ outside \in 0..MaxOutside
  /\ stray \in BOOLEAN

FridaDeviceInit ==
  /\ servers = {} /\ clients = {} /\ file = {} /\ occupied = {}
  /\ started = 0 /\ outside = 0 /\ stray = FALSE

Serving(n) == \E x \in servers : x.id = n
Running(n) == Serving(n) \/ n \in clients

(***************************************************************************)
(* Calls.  One that reports failure may have had its effect ("took").      *)
(***************************************************************************)
PutFile(s, took) ==
  /\ file' = IF took THEN file \cup {s} ELSE file
  /\ UNCHANGED <<servers, clients, occupied, started, outside, stray>>

RemoveFile(s, took) ==
  /\ file' = IF took THEN file \ {s} ELSE file
  /\ UNCHANGED <<servers, clients, occupied, started, outside, stray>>

LaunchServer(s, took) ==
  /\ started < MaxProcs
  /\ IF took THEN started' = started + 1 /\ servers' = servers \cup {[id |-> started + 1, by |-> s]}
             ELSE UNCHANGED <<started, servers>>
  /\ UNCHANGED <<clients, file, occupied, outside, stray>>

LaunchClient ==
  /\ started < MaxProcs
  /\ started' = started + 1 /\ clients' = clients \cup {started + 1}
  /\ UNCHANGED <<servers, file, occupied, outside, stray>>

\* A kill goes to the PID of n, whoever has it now.
Kill(n, took) ==
  /\ servers' = IF took THEN {x \in servers : x.id # n} ELSE servers
  /\ clients' = IF took THEN clients \ {n} ELSE clients
  /\ stray' = (stray \/ (n \in occupied /\ ~Running(n)))
  /\ UNCHANGED <<file, occupied, started, outside>>

(***************************************************************************)
(* What happens without the framework.                                     *)
(***************************************************************************)
Happens == outside < MaxOutside /\ outside' = outside + 1 /\ UNCHANGED stray

OutsiderStartsServer ==
  /\ Happens /\ started < MaxProcs
  /\ started' = started + 1
  /\ servers' = servers \cup {[id |-> started + 1, by |-> Outsider]}
  /\ UNCHANGED <<clients, file, occupied>>

ServerExits(x) ==
  /\ Happens /\ x \in servers /\ servers' = servers \ {x}
  /\ UNCHANGED <<clients, file, occupied, started>>

ClientExits(n) ==
  /\ Happens /\ n \in clients /\ clients' = clients \ {n}
  /\ UNCHANGED <<servers, file, occupied, started>>

\* Every process of the device is gone, and PIDs are handed out anew.
Reboot(taken) ==
  /\ Happens /\ servers # {} /\ taken \subseteq {x.id : x \in servers}
  /\ servers' = {} /\ occupied' = occupied \cup taken
  /\ UNCHANGED <<clients, file, started>>

FridaPidReused(n) ==
  /\ Happens /\ n \in 1..started /\ ~Running(n) /\ n \notin occupied
  /\ occupied' = occupied \cup {n}
  /\ UNCHANGED <<servers, clients, file, started>>

FridaEnvironment ==
  \/ OutsiderStartsServer
  \/ \E x \in servers : ServerExits(x)
  \/ \E n \in clients : ClientExits(n)
  \/ \E taken \in SUBSET {x.id : x \in servers} : Reboot(taken)
  \/ \E n \in FridaIds : FridaPidReused(n)
=============================================================================
