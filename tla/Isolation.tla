----------------------------- MODULE Isolation -----------------------------
(***************************************************************************)
(* What holds a container together once it is created: its life cycle      *)
(* (container/runtime.rs), its cgroup (isolation/cgroup.rs) and its PID    *)
(* namespace (isolation/namespace.rs).  The processes in it are external:  *)
(* each asks before it charges, as the comments on check_memory and        *)
(* check_pids prescribe, and nothing runs between the two calls.           *)
(***************************************************************************)
EXTENDS Integers, FiniteSets

CONSTANTS Procs,          \* processes of the container
          Requests,       \* sizes they ask for
          MachineMemory,  \* bytes there are to be had
          UsizeMax,       \* 2^64 - 1
          DefaultLimit,   \* the 256 MB of Container::create
          CgroupPids,     \* pids_max of CgroupHandle::new
          Nothing         \* no container, no PID

\* A container's state and its cgroup.
Cgroup == [state : {"Running", "Stopping", "Stopped"}, memory_limit : 0 .. UsizeMax,
           memory_used : Nat, pids_max : Nat, pids_current : Nat]

ASSUME IsolationAssumption ==
    /\ IsFiniteSet(Procs) /\ Requests \subseteq 1 .. UsizeMax
    /\ UsizeMax \in Nat /\ MachineMemory \in 0 .. UsizeMax
    /\ DefaultLimit \in 1 .. UsizeMax /\ CgroupPids \in 0 .. UsizeMax
    /\ Nothing \notin Cgroup

VARIABLES container,   \* its state and cgroup, or Nothing
          next_pid,    \* PidNamespace.next_pid
          phase,       \* per process: "absent", "alive", "exited"
          pid,         \* per process: its PID, or Nothing
          held         \* per process: bytes allocated and not yet freed

isolationVars == <<container, next_pid, phase, pid, held>>

SatAdd(a, b) == IF a + b > UsizeMax THEN UsizeMax ELSE a + b
SatSub(a, b) == IF a < b THEN 0 ELSE a - b

\* What is held, byte by byte, and how much that is.
Bytes(f) == UNION {{p} \X (1 .. f[p]) : p \in DOMAIN f}
Total(f) == Cardinality(Bytes(f))
Alive == {p \in Procs : phase[p] = "alive"}

IsolationInit ==
    /\ container = Nothing /\ next_pid = 1
    /\ phase = [p \in Procs |-> "absent"] /\ pid = [p \in Procs |-> Nothing]
    /\ held = [p \in Procs |-> 0]
-----------------------------------------------------------------------------
\* "0 = unlimited" (spec.rs:62) stands for the default.
Effective(memory_bytes) == IF memory_bytes = 0 THEN DefaultLimit ELSE memory_bytes

\* Container::create and the start() that follows it at both call sites; the
\* cgroup brings its own pids_max.
Start(memory_bytes) ==
    /\ container = Nothing
    /\ container' = [state |-> "Running", memory_limit |-> Effective(memory_bytes),
                     memory_used |-> 0, pids_max |-> CgroupPids, pids_current |-> 0]
    /\ UNCHANGED <<next_pid, phase, pid, held>>

Exists == container # Nothing

\* Seeded form: what is already charged is not counted.
check_memory_Fresh(request) == request <= container.memory_limit

\* Whether a request fits under the limit; the sum saturates.
check_memory(request) == SatAdd(container.memory_used, request) <= container.memory_limit

charge_memory(bytes) == [container EXCEPT !.memory_used = SatAdd(@, bytes)]

\* Seeded form: more is released than was charged.
release_memory_Rounded(bytes) == [container EXCEPT !.memory_used = SatSub(@, bytes + 1)]

release_memory(bytes) == [container EXCEPT !.memory_used = SatSub(@, bytes)]

check_pids == container.pids_current < container.pids_max

charge_pid == [container EXCEPT !.pids_current = SatAdd(@, 1)]

release_pid(c) == [c EXCEPT !.pids_current = SatSub(@, 1)]

\* A process that asks and is not refused allocates, if the machine has as
\* much, and charges it.
Allocate(p, request) ==
    /\ Exists /\ phase[p] = "alive"
    /\ check_memory(request) /\ Total(held) + request <= MachineMemory
    /\ container' = charge_memory(request)
    /\ held' = [held EXCEPT ![p] = @ + request]
    /\ UNCHANGED <<next_pid, phase, pid>>

\* It gives some of it back.
Free(p, bytes) ==
    /\ Exists /\ phase[p] = "alive" /\ bytes \in 1 .. held[p]
    /\ container' = release_memory(bytes)
    /\ held' = [held EXCEPT ![p] = @ - bytes]
    /\ UNCHANGED <<next_pid, phase, pid>>

\* A process starts under the next PID of the namespace.
Spawn(p) ==
    /\ Exists /\ container.state = "Running" /\ phase[p] = "absent" /\ check_pids
    /\ container' = charge_pid
    /\ pid' = [pid EXCEPT ![p] = next_pid] /\ next_pid' = next_pid + 1
    /\ phase' = [phase EXCEPT ![p] = "alive"]
    /\ UNCHANGED held

\* It exits and gives back what is left, its PID to the count but not to the
\* namespace; the exit of the init process marks the container stopped, from
\* whatever state.
Exit(p) ==
    /\ Exists /\ phase[p] = "alive"
    /\ container' = [release_pid(release_memory(held[p])) EXCEPT
                        !.state = IF pid[p] = 1 THEN "Stopped" ELSE @]
    /\ phase' = [phase EXCEPT ![p] = "exited"]
    /\ held' = [held EXCEPT ![p] = 0]
    /\ UNCHANGED <<next_pid, pid>>

\* Container::stop: only a running container begins to stop.
stop ==
    /\ Exists /\ container.state = "Running"
    /\ container' = [container EXCEPT !.state = "Stopping"]
    /\ UNCHANGED <<next_pid, phase, pid, held>>

Processes ==
    \/ \E p \in Procs : \/ \E r \in Requests : Allocate(p, r)
                        \/ \E n \in 1 .. held[p] : Free(p, n)
                        \/ Spawn(p) \/ Exit(p)
    \/ stop

\* The life of one container, whatever limit it is declared with.
IsolationNext == (\E memory_bytes \in 0 .. UsizeMax : Start(memory_bytes)) \/ Processes

IsolationSpec == IsolationInit /\ [][IsolationNext]_isolationVars
-----------------------------------------------------------------------------
\* What the processes hold and how many they are never passes the cgroup's
\* limits, whatever they asked for, freed in part or left behind at exit; and
\* its counts stay exact, so what was given back can be had again
\* (cgroup.rs:34-74).
LimitsAreHard ==
    Exists =>
        /\ container.memory_used = Total(held)
        /\ Total(held) <= container.memory_limit
        /\ container.pids_current = Cardinality(Alive)
        /\ Cardinality(Alive) <= container.pids_max
=============================================================================
