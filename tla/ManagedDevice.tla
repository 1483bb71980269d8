--------------------------- MODULE ManagedDevice ---------------------------
(***************************************************************************)
(* The resources the framework changes and must give back: the global HTTP *)
(* proxy and the adb reverse mappings of one Android device (adb.py), and  *)
(* the mitmdump processes on the host (host_process.py).  The user, other  *)
(* tools and reboots change them too; those actions are in Environment.    *)
(***************************************************************************)
EXTENDS Naturals

CONSTANTS
  Ports,         \* local ports the framework may pick for mitmdump
  External,      \* proxy values that somebody else sets
  NoProxy,       \* the proxy setting is empty (None)
  MaxSpawns,     \* bound: mitmdump processes ever started
  MaxExternal    \* bound: changes made by others

ASSUME DeviceAssumption ==
  /\ Ports \cap External = {}
  /\ NoProxy \notin Ports \cup External
  /\ MaxSpawns \in Nat /\ MaxExternal \in Nat

\* The proxy "127.0.0.1:<port>" that a capture applies is named by its port.
ProxyValues == Ports \cup External \cup {NoProxy}

VARIABLES
  proxy,         \* settings global http_proxy
  foreign,       \* history: the proxy value that somebody else set last
  reverse,       \* reverse[p]: "none", "own" (tcp:p to tcp:p) or "other"
  alive,         \* mitmdump processes: [id, port], the id standing for PID and creation time
  reused,        \* ids whose PID now belongs to an unrelated process
  spawned,       \* number of mitmdump processes started so far
  externals      \* number of changes made by others so far

deviceVars == <<proxy, foreign, reverse, alive, reused, spawned, externals>>

ProcIds == 1..MaxSpawns

DeviceTypeOK ==
  /\ proxy \in ProxyValues
  /\ foreign \in External \cup {NoProxy}
  /\ reverse \in [Ports -> {"none", "own", "other"}]
  /\ alive \subseteq [id : ProcIds, port : Ports]
  /\ reused \subseteq ProcIds
  /\ spawned \in 0..MaxSpawns
  /\ externals \in 0..MaxExternal

DeviceInit ==
  /\ proxy \in External \cup {NoProxy} /\ foreign = proxy
  /\ reverse = [p \in Ports |-> "none"]
  /\ alive = {} /\ reused = {}
  /\ spawned = 0 /\ externals = 0

\* The process is there; what OpenProcess answers is in CleanupExecutor.
Alive(n) == \E x \in alive : x.id = n

\* A port the OS hands out: nobody listens on it now.
FreePorts == {p \in Ports : \A x \in alive : x.port # p}

(***************************************************************************)
(* adb and OS calls.  A call that reports failure may have had its effect  *)
(* (a timeout after the device acted), so callers choose "took".           *)
(***************************************************************************)
PutSetting(v, took) ==
  /\ proxy' = IF took THEN v ELSE proxy
  /\ UNCHANGED <<foreign, reverse, alive, reused, spawned, externals>>

SetReverse(p, v, took) ==
  /\ reverse' = IF took THEN [reverse EXCEPT ![p] = v] ELSE reverse
  /\ UNCHANGED <<proxy, foreign, alive, reused, spawned, externals>>

Spawn(p) ==
  /\ spawned < MaxSpawns
  /\ spawned' = spawned + 1
  /\ alive' = alive \cup {[id |-> spawned + 1, port |-> p]}
  /\ UNCHANGED <<proxy, foreign, reverse, reused, externals>>

Terminate(n) ==
  /\ alive' = {x \in alive : x.id # n}
  /\ UNCHANGED <<proxy, foreign, reverse, reused, spawned, externals>>

(***************************************************************************)
(* What others do.                                                         *)
(***************************************************************************)
ExternalChange == externals < MaxExternal /\ externals' = externals + 1

ProxyChanged(v) ==
  /\ ExternalChange /\ v # proxy
  /\ proxy' = v /\ foreign' = v
  /\ UNCHANGED <<reverse, alive, reused, spawned>>

\* A disconnect or a reboot drops every mapping of the device.
ReversesLost ==
  /\ ExternalChange /\ \E p \in Ports : reverse[p] # "none"
  /\ reverse' = [p \in Ports |-> "none"]
  /\ UNCHANGED <<proxy, foreign, alive, reused, spawned>>

ReverseTaken(p) ==
  /\ ExternalChange /\ reverse[p] # "other"
  /\ reverse' = [reverse EXCEPT ![p] = "other"]
  /\ UNCHANGED <<proxy, foreign, alive, reused, spawned>>

ProcessExits(x) ==
  /\ ExternalChange /\ x \in alive
  /\ alive' = alive \ {x}
  /\ UNCHANGED <<proxy, foreign, reverse, reused, spawned>>

PidReused(n) ==
  /\ ExternalChange /\ n \in 1..spawned /\ ~Alive(n) /\ n \notin reused
  /\ reused' = reused \cup {n}
  /\ UNCHANGED <<proxy, foreign, reverse, alive, spawned>>

Environment ==
  \/ \E v \in External \cup {NoProxy} : ProxyChanged(v)
  \/ ReversesLost
  \/ \E p \in Ports : ReverseTaken(p)
  \/ \E x \in alive : ProcessExits(x)
  \/ \E n \in ProcIds : PidReused(n)
=============================================================================
