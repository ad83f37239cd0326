-------------------------- MODULE ContainerRuntime --------------------------
(***************************************************************************)
(* The kernel's container control plane: the boot loop of main.rs that     *)
(* starts the declared containers, the operator's session on the serial    *)
(* console (host/getty.rs) and the registries both write: STORE,           *)
(* PORT_FORWARDS, IMAGE_STORE and VOLUME_STORE (container/mod.rs).         *)
(* A Container object is dropped at the end of the command that started    *)
(* it, so only its record outlives the command.  The operator logs in key  *)
(* by key (module Console) and then submits lines, which are parsed        *)
(* (module ShellCommand) and executed.                                     *)
(***************************************************************************)
EXTENDS Console, ShellCommand, FiniteSets, Functions

CONSTANTS Declared,       \* the containers of the boot configuration, in order
          Lines,          \* lines an operator may submit
          MaxContainers   \* bound on containers created in a session

PortMapping == [host : 0 .. U16Max, container : 0 .. U16Max]
ContainerSpec == [image : Seq(STRING), ports : Seq(PortMapping)]

ASSUME RuntimeAssumption ==
    /\ Declared \in Seq(ContainerSpec)
    /\ Lines \subseteq Seq(Seq(STRING))
    /\ MaxContainers \in Nat

VARIABLES phase,      \* "boot", then "login" until the credentials match, then "shell"
          pending,    \* declared containers the boot loop has not reached
          next_id,    \* NEXT_ID
          store,      \* STORE.entries: id -> record
          forwards,   \* PORT_FORWARDS
          images,     \* IMAGE_STORE
          volumes     \* VOLUME_STORE

containerVars == <<next_id, store, forwards>>
vars == <<phase, pending, next_id, store, forwards, images, volumes, consoleVars>>

States == {"Created", "Running", "Stopping", "Stopped"}
Record == [image : Seq(STRING), state : States]
ActivePortForward == [container_id : Nat, host_port : 0 .. U16Max,
                      container_port : 0 .. U16Max]

\* Seeded form: NEXT_ID counts from 0.
Init_FromZero ==
    /\ ConsoleInit /\ phase = "boot" /\ pending = Declared
    /\ next_id = 0
    /\ store = [i \in {} |-> <<>>]
    /\ forwards = <<>> /\ images = <<>> /\ volumes = <<>>

Init ==
    /\ ConsoleInit /\ phase = "boot" /\ pending = Declared
    /\ next_id = 1
    /\ store = [i \in {} |-> <<>>]
    /\ forwards = <<>> /\ images = <<>> /\ volumes = <<>>
-----------------------------------------------------------------------------
\* Container::create: a fresh id, not started yet.
Create == [id |-> next_id, state |-> "Created"]

\* Container::start: only a created container starts.
Start(c) == IF c.state = "Created" THEN [c EXCEPT !.state = "Running"] ELSE c

register(id, image, state) ==
    store' = [i \in DOMAIN store \cup {id} |->
                IF i = id THEN [image |-> image, state |-> state] ELSE store[i]]

push_forwards(id, ports) ==
    forwards' = forwards \o
        [k \in 1 .. Len(ports) |->
            [container_id |-> id, host_port |-> ports[k].host,
             container_port |-> ports[k].container]]

\* Seeded form: the port list was moved into the container's specification
\* before it was saved.
Launch_PortsMoved(spec) ==
    /\ Create.id <= MaxContainers
    /\ next_id' = next_id + 1
    /\ register(Create.id, spec.image, "Running")
    /\ push_forwards(Create.id, <<>>)

\* create, start, register, push one rule per mapping: the boot loop's body
\* and `container run` do the same.
Launch(spec) ==
    LET c == Start(Create)
    IN  /\ c.state = "Running"
        /\ c.id <= MaxContainers
        /\ next_id' = next_id + 1
        /\ register(c.id, spec.image, "Running")
        /\ push_forwards(c.id, spec.ports)
-----------------------------------------------------------------------------
\* main.rs step 7: one iteration of the loop over the declared containers.
BootContainer ==
    /\ phase = "boot" /\ pending # <<>>
    /\ Launch(Head(pending))
    /\ pending' = Tail(pending)
    /\ UNCHANGED <<phase, images, volumes, consoleVars>>

\* main.rs steps 8 and 9: the console asks for credentials.
StartGetty ==
    /\ phase = "boot" /\ pending = <<>>
    /\ phase' = "login"
    /\ UNCHANGED <<pending, containerVars, images, volumes, consoleVars>>

\* Getty::run asks again until user and password match; run_shell never returns.
Login ==
    /\ phase = "login" /\ Keys
    /\ phase' = IF prompt' = "shell" THEN "shell" ELSE "login"
    /\ UNCHANGED <<pending, containerVars, images, volumes>>

\* `container run`: neither the image registry, nor the volume registry, nor
\* the rules of other containers are consulted.
ContainerRun(c) ==
    /\ c.cmd = "ContainerRun"
    /\ Launch([image |-> c.image, ports |-> c.ports])
    /\ UNCHANGED <<pending, images, volumes>>

\* Seeded form: stopping deletes the record, as ContainerStore::remove would.
ContainerStop_Remove(c) ==
    /\ c.cmd = "ContainerStop"
    /\ store' = [i \in DOMAIN store \ {Numeral[c.args[1][1]]} |-> store[i]]
    /\ UNCHANGED <<pending, next_id, forwards, images, volumes>>

\* `container stop <id>`: the record goes to Stopped from any state; an
\* unknown id or no number changes nothing; PORT_FORWARDS is not touched.
ContainerStop(c) ==
    /\ c.cmd = "ContainerStop"
    /\ LET id == c.args[1]
           known == Len(id) = 1 /\ id[1] \in DOMAIN Numeral /\ Numeral[id[1]] \in DOMAIN store
       IN  IF known THEN store' = [store EXCEPT ![Numeral[id[1]]].state = "Stopped"]
           ELSE UNCHANGED store
    /\ UNCHANGED <<pending, next_id, forwards, images, volumes>>

Listed(list, x) == \E k \in DOMAIN list : list[k] = x

\* push() unless any() finds it: `image pull` and `volume create`.
PushNew(list, x) == IF Listed(list, x) THEN list ELSE Append(list, x)

\* retain(): `image rm` and `volume rm`.
Without(list, x) == LET Differs(y) == y # x IN SelectSeq(list, Differs)

ImagePull(c) ==
    /\ c.cmd = "ImagePull"
    /\ images' = PushNew(images, split_image_tag(c.args[1]))
    /\ UNCHANGED <<pending, containerVars, volumes>>

ImageRemove(c) ==
    /\ c.cmd = "ImageRemove"
    /\ images' = Without(images, split_image_tag(c.args[1]))
    /\ UNCHANGED <<pending, containerVars, volumes>>

VolumeCreate(c) ==
    /\ c.cmd = "VolumeCreate"
    /\ volumes' = PushNew(volumes, c.args[1])
    /\ UNCHANGED <<pending, containerVars, images>>

VolumeRemove(c) ==
    /\ c.cmd = "VolumeRemove"
    /\ volumes' = Without(volumes, c.args[1])
    /\ UNCHANGED <<pending, containerVars, images>>

\* Commands that only print, and those of the file system (module RootFs).
Others(c) ==
    /\ c.cmd \notin {"ContainerRun", "ContainerStop", "ImagePull", "ImageRemove",
                      "VolumeCreate", "VolumeRemove"}
    /\ UNCHANGED <<pending, containerVars, images, volumes>>

execute(c) == \/ ContainerRun(c) \/ ContainerStop(c)
              \/ ImagePull(c) \/ ImageRemove(c)
              \/ VolumeCreate(c) \/ VolumeRemove(c)
              \/ Others(c)

\* run_shell: a line that does not parse is answered and forgotten.
Submit(line) ==
    /\ phase = "shell"
    /\ LET r == parse(line)
       IN  \/ r.ok /\ execute(r.value)
           \/ ~ r.ok /\ UNCHANGED <<pending, containerVars, images, volumes>>
    /\ UNCHANGED <<phase, consoleVars>>

Next ==
    \/ BootContainer
    \/ StartGetty
    \/ Login
    \/ \E line \in Lines : Submit(line)

Spec == Init /\ [][Next]_vars
-----------------------------------------------------------------------------
\* VSwitch::lookup_port_forward: the container of the first rule that matches,
\* 0 when there is none (ids start at 1).
Matching(list, port) == {k \in DOMAIN list : list[k].host_port = port}

\* Seeded form: the last rule that matches.
lookup_port_forward_Last(list, port) ==
    IF Matching(list, port) = {} THEN 0
    ELSE list[CHOOSE k \in Matching(list, port) :
                \A j \in Matching(list, port) : j <= k].container_id

lookup_port_forward(list, port) ==
    IF Matching(list, port) = {} THEN 0
    ELSE list[CHOOSE k \in Matching(list, port) :
                \A j \in Matching(list, port) : k <= j].container_id

\* The number `ps` prints in front of a record: its place in the map's order.
PsNumber(id) == Cardinality({i \in DOMAIN store : i <= id})
-----------------------------------------------------------------------------
TypeOK ==
    /\ phase \in {"boot", "login", "shell"}
    /\ pending \in Seq(ContainerSpec)
    /\ next_id \in Nat \ {0}
    /\ store \in [DOMAIN store -> Record]
    /\ DOMAIN store \subseteq Nat
    /\ forwards \in Seq(ActivePortForward)
    /\ IsInjective(images) /\ IsInjective(volumes)    \* nothing listed twice

\* `ps` numbers the records by position (getty.rs:276-285) while `container
\* stop` takes an id (getty.rs:361-366): the number shown is always the id.
PsNumberIsId == \A id \in DOMAIN store : PsNumber(id) = id

\* A host port, once routed, keeps its container: running another container
\* on the same host port does not take it over (vswitch.rs:134-136).
RoutesAreStable ==
    [][\A p \in {forwards[k].host_port : k \in DOMAIN forwards} :
          lookup_port_forward(forwards, p)' = lookup_port_forward(forwards, p)]_vars

\* When the console asks for a login, every declared container is on record
\* under its place in the configuration, each of its mappings has a rule, and
\* no rule has come from anywhere else (main.rs:113-146).
DeclaredAreServed ==
    phase = "login" =>
        /\ DOMAIN store = DOMAIN Declared
        /\ \A i \in DOMAIN Declared : store[i].image = Declared[i].image
        /\ {[host |-> forwards[k].host_port, container |-> forwards[k].container_port,
             id |-> forwards[k].container_id] : k \in DOMAIN forwards}
             = UNION {{[host |-> m.host, container |-> m.container, id |-> i] :
                         m \in {Declared[i].ports[k] : k \in DOMAIN Declared[i].ports}} :
                         i \in DOMAIN Declared}

\* Whatever words follow an image, TwoScansAreOne: asked once, in the first state.
OptionsReadOnce == phase = "boot" /\ pending = Declared => TwoScansAreOne

\* "Active port-forward rules" (container/mod.rs:26): a rule's container runs.
ForwardsAreActive ==
    \A k \in DOMAIN forwards : store[forwards[k].container_id].state = "Running"
=============================================================================
