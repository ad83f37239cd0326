------------------------- MODULE DeclaredContainers -------------------------
(***************************************************************************)
(* From the text of a configuration to limits that bind: main.rs parses    *)
(* the configuration (module ConfigParser), then creates and starts each   *)
(* container it declares; a container's processes then live under the      *)
(* cgroup it was given (module Isolation).  The kernel starts no process   *)
(* yet, and containers share nothing: one of them is followed, with what   *)
(* the text says of it.                                                    *)
(***************************************************************************)
EXTENDS ConfigParser, Isolation

ASSUME OneUsize == SizeMax = UsizeMax /\ DefaultMemory = DefaultLimit

VARIABLE declared    \* the memory the text gives the container (history)

allVars == <<parserVars, isolationVars, declared>>

BootInit == ParserInit /\ IsolationInit /\ declared = 0

Parse == container = Nothing /\ ParserNext /\ UNCHANGED <<isolationVars, declared>>

\* One iteration of main.rs step 7; the parser's locals are gone by then.
StartDeclared(k) ==
    /\ done /\ Start(containers[k].memory) /\ declared' = Meant(doc)[k].memory
    /\ done' = FALSE /\ panicked' = FALSE /\ lines' = <<>>
    /\ doc' = [containers |-> <<>>, tail |-> FALSE]
    /\ containers' = <<>> /\ current' = None /\ current_port' = None
    /\ in_containers' = FALSE /\ in_ports' = FALSE /\ in_resources' = FALSE

Run == Processes /\ UNCHANGED <<parserVars, declared>>

BootNext == Parse \/ (\E k \in DOMAIN containers : StartDeclared(k)) \/ Run

\* The parser is a loop over the lines.
BootSpec == BootInit /\ [][BootNext]_allVars /\ WF_allVars(Parse)
-----------------------------------------------------------------------------
\* The memory limit a container's text declares is hard: whatever the order of
\* its sections and the unit of the size, its processes never hold more; no
\* limit, or 0, is the default (spec.rs:62, config.rs:246-258,
\* runtime.rs:69-74, cgroup.rs:34-56).
DeclaredLimitBinds ==
    /\ LimitsAreHard
    /\ Exists => Total(held) <= Effective(declared)

\* "Resource limits enforced by the cgroup" (spec.rs:59): the cgroup limits
\* processes to the number the container declares.
DeclaredPidsEnforced ==
    [][\A k \in DOMAIN containers : StartDeclared(k) =>
          container'.pids_max = containers[k].pids]_allVars
=============================================================================
