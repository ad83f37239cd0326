---------------------------- MODULE ConfigParser ----------------------------
(***************************************************************************)
(* config.rs: KernelConfig::from_yaml, a line-driven state machine over an *)
(* indentation-based subset of YAML.  A line is its indentation, its key   *)
(* and its parsed value; comments and blank lines are skipped by the code  *)
(* before anything else and do not appear.                                 *)
(*                                                                         *)
(* A document (what the operator means) is a sequence of containers, each  *)
(* an image and a sequence of sections; Lines(doc) writes it down the two  *)
(* ways the parser accepts.                                                *)
(***************************************************************************)
EXTENDS Integers, Sequences, SequencesExt

CONSTANTS Docs,            \* the documents read
          DefaultMemory,   \* ResourceLimits::default()
          DefaultPids,
          Kilo,            \* 1024
          SizeMax,         \* usize::MAX
          Overflow,        \* the product of a size that is no usize
          None             \* an absent value, or one that does not parse

\* A document's containers have sections of these kinds.
Ports == Nat \cup {None}
Mappings == Ports \X Ports
Policies == {"always", "on-failure", "never"}
Sizes == [n : Nat \cup {None}, unit : {"", "kb", "mb", "gb"}]
Sections == [key : {"ports"}, ports : Seq(Mappings), at : {4, 6}]
      \cup [key : {"restart"}, val : Policies]
      \cup [key : {"resources"}, memory : Sizes \cup {None}, pids : Nat \cup {None}]
      \cup [key : {"unknown"}]

Builders == [image : STRING, ports : Seq(Mappings), restart : Policies,
             memory : Nat \cup {None}, pids : Nat \cup {None}]

\* As in any YAML mapping, a key that has a value is given once.
ASSUME ParserAssumption ==
    /\ \A d \in Docs :
          /\ d \in [containers : Seq([image : STRING, sections : Seq(Sections)]),
                    tail : BOOLEAN]
          /\ \A k \in DOMAIN d.containers : LET s == d.containers[k].sections IN
                \A i, j \in DOMAIN s :
                   s[i].key = s[j].key /\ s[i].key \in {"restart", "resources"} => i = j
    /\ DefaultMemory \in Nat /\ DefaultPids \in Nat
    /\ Kilo \in Nat /\ SizeMax \in Nat /\ Overflow \notin Nat \cup {None}
    /\ None \notin Nat \cup Policies \cup Sizes \cup Mappings \cup Builders

VARIABLES doc, lines,                \* the document, the lines still to read
          containers,                \* the result
          in_containers, in_ports, in_resources,
          current,                   \* the container being built, or None
          current_port,              \* the mapping being built, or None
          done,
          panicked                   \* an arithmetic check failed

flags == <<in_containers, in_ports, in_resources>>
parserVars == <<doc, lines, containers, flags, current, current_port, done, panicked>>
-----------------------------------------------------------------------------
(* Documents and how they are written.                                     *)

Line(indent, key, val) == [indent |-> indent, key |-> key, val |-> val]

PortLines(p, at) == <<Line(at, "host_item", p[1]), Line(at + 2, "container", p[2])>>

SectionLines(s) ==
    CASE s.key = "ports" ->
           <<Line(4, "ports", None)>>
             \o FlattenSeq([k \in DOMAIN s.ports |-> PortLines(s.ports[k], s.at)])
      [] s.key = "restart" -> <<Line(4, "restart", s.val)>>
      [] s.key = "resources" -> <<Line(4, "resources", None), Line(6, "memory", s.memory),
                                  Line(6, "cpu_shares", None), Line(6, "pids_max", s.pids)>>
      [] s.key = "unknown" -> <<Line(4, "unknown", None)>>

ContainerLines(c) ==
    <<Line(2, "image_item", c.image)>>
      \o FlattenSeq([k \in DOMAIN c.sections |-> SectionLines(c.sections[k])])

\* A document may have other top-level keys before and after.
Lines(d) ==
    <<Line(0, "other", None), Line(2, "image_item", "ignored"), Line(0, "containers", None)>>
      \o FlattenSeq([k \in DOMAIN d.containers |-> ContainerLines(d.containers[k])])
      \o IF d.tail THEN <<Line(0, "other", None)>> ELSE <<>>

Complete(p) == p[1] # None /\ p[2] # None
CompleteOnes(ports) ==
    FlattenSeq([k \in DOMAIN ports |-> IF Complete(ports[k]) THEN <<ports[k]>> ELSE <<>>])

\* A memory size is a number and a unit; a number that is none, or no usize, is
\* as good as absent.
Factor(unit) == CASE unit = "" -> 1 [] unit = "kb" -> Kilo
                  [] unit = "mb" -> Kilo * Kilo [] unit = "gb" -> Kilo * Kilo * Kilo
Absent(m) == m = None \/ m.n = None \/ m.n > SizeMax
Size(m) == m.n * Factor(m.unit)

\* No container can be given what some size of the document says.
Impossible(d) ==
    \E k \in DOMAIN d.containers : \E j \in DOMAIN d.containers[k].sections :
        LET s == d.containers[k].sections[j]
        IN  s.key = "resources" /\ ~Absent(s.memory) /\ Size(s.memory) > SizeMax

\* The container a document means: all its complete mappings, in order.
Meaning(c) ==
    LET of(key) == {k \in DOMAIN c.sections : c.sections[k].key = key}
        port(k) == IF k \in of("ports") THEN CompleteOnes(c.sections[k].ports)
                   ELSE <<>>
        given(key, field, default) ==
            IF of(key) = {} THEN default
            ELSE LET v == c.sections[CHOOSE k \in of(key) : TRUE][field]
                 IN  IF v = None THEN default ELSE v
    IN  [image |-> c.image,
         ports |-> FlattenSeq([k \in DOMAIN c.sections |-> port(k)]),
         restart |-> given("restart", "val", "never"),
         memory |-> LET m == given("resources", "memory", None)
                    IN  IF Absent(m) THEN DefaultMemory ELSE Size(m),
         pids |-> given("resources", "pids", DefaultPids)]

Meant(d) == [k \in DOMAIN d.containers |-> Meaning(d.containers[k])]
-----------------------------------------------------------------------------
ParserInit ==
    /\ doc \in Docs /\ lines = Lines(doc)
    /\ containers = <<>>
    /\ in_containers = FALSE /\ in_ports = FALSE /\ in_resources = FALSE
    /\ current = None /\ current_port = None
    /\ done = FALSE /\ panicked = FALSE

\* ContainerBuilder::new with the image set.
Builder(image) == [image |-> image, ports |-> <<>>, restart |-> "never",
                   memory |-> None, pids |-> None]

\* ContainerBuilder::build (the image is always set, so it does not fail).
Build(b) == [b EXCEPT !.memory = IF @ = None THEN DefaultMemory ELSE @,
                      !.pids = IF @ = None THEN DefaultPids ELSE @]

\* containers.push(builder.build()) for a pending builder.
WithPending == IF current = None THEN containers
               ELSE Append(containers, Build(current))

\* The pending mapping goes to the current builder if it is complete.
FlushPort(b) ==
    IF current_port # None /\ b # None /\ Complete(current_port)
    THEN [b EXCEPT !.ports = Append(@, current_port)] ELSE b

L == Head(lines)
Read == ~done /\ ~panicked /\ lines # <<>> /\ lines' = Tail(lines) /\ UNCHANGED <<doc, done, panicked>>
Is(indent, key) == L.indent = indent /\ L.key = key

\* A top-level key closes the pending container.
TopLevel ==
    /\ Read /\ L.indent = 0
    /\ containers' = WithPending /\ current' = None
    /\ in_containers' = (L.key = "containers")
    /\ in_ports' = FALSE /\ in_resources' = FALSE
    /\ UNCHANGED current_port

\* Lines outside `containers:`.
Outside ==
    /\ Read /\ L.indent # 0 /\ ~in_containers
    /\ UNCHANGED <<containers, flags, current, current_port>>

\* Seeded form: the pending container is not pushed.
ImageItem_Overwrite ==
    /\ Read /\ in_containers /\ Is(2, "image_item")
    /\ containers' = containers /\ current' = Builder(L.val)
    /\ in_ports' = FALSE /\ in_resources' = FALSE
    /\ UNCHANGED <<in_containers, current_port>>

\* `- image:` closes the pending container and opens the next.
ImageItem ==
    /\ Read /\ in_containers /\ Is(2, "image_item")
    /\ containers' = WithPending /\ current' = Builder(L.val)
    /\ in_ports' = FALSE /\ in_resources' = FALSE
    /\ UNCHANGED <<in_containers, current_port>>

\* Keys of a container, and a mapping's first line when the list is not
\* indented: all flush the mapping in progress; a key that is not known leaves
\* the section open.
ContainerKey ==
    /\ Read /\ in_containers /\ L.indent = 4
    /\ current' = LET b == FlushPort(current)
                  IN  IF b # None /\ L.key = "restart"
                      THEN [b EXCEPT !.restart = L.val] ELSE b
    /\ current_port' = IF in_ports /\ L.key = "host_item" THEN <<L.val, None>> ELSE None
    /\ in_ports' = (L.key = "ports" \/ (in_ports /\ L.key \notin {"resources", "restart"}))
    /\ in_resources' = (L.key = "resources" \/ (in_resources /\ L.key \notin {"ports", "restart"}))
    /\ UNCHANGED <<containers, in_containers>>

\* Seeded form: the mapping is pushed but not taken.
HostItem_NoFlush ==
    /\ Read /\ in_containers /\ in_ports /\ Is(6, "host_item")
    /\ current_port' = <<L.val, None>>
    /\ UNCHANGED <<containers, flags, current>>

\* A mapping's first line when the list is indented.
HostItem ==
    /\ Read /\ in_containers /\ in_ports /\ Is(6, "host_item")
    /\ current' = FlushPort(current)
    /\ current_port' = <<L.val, None>>
    /\ UNCHANGED <<containers, flags>>

\* A mapping's second line.
ContainerPort ==
    /\ Read /\ in_containers /\ in_ports /\ L.key = "container" /\ L.indent \in {6, 8}
    /\ current_port' = IF current_port = None THEN None ELSE <<current_port[1], L.val>>
    /\ UNCHANGED <<containers, flags, current>>

\* Seeded form: a product that wraps.
parse_memory_Wrapping(m) == IF Absent(m) THEN None ELSE Size(m) % (SizeMax + 1)

\* The product of a number and its unit is checked in the kernel's debug build.
parse_memory(m) == IF Absent(m) THEN None ELSE IF Size(m) > SizeMax THEN Overflow ELSE Size(m)

AtResource == /\ in_containers /\ in_resources /\ ~in_ports
              /\ L.indent = 6 /\ L.key \in {"memory", "pids_max"}
Panics == /\ AtResource /\ L.key = "memory" /\ current # None
          /\ parse_memory(L.val) = Overflow

\* The boot ends here: from_yaml panics.
MemoryOverflow ==
    /\ ~done /\ ~panicked /\ lines # <<>> /\ Panics
    /\ panicked' = TRUE
    /\ UNCHANGED <<doc, lines, containers, flags, current, current_port, done>>

ResourceKey ==
    /\ Read /\ AtResource /\ ~Panics
    /\ current' = IF current = None THEN None
                  ELSE IF L.key = "memory"
                  THEN [current EXCEPT !.memory = parse_memory(L.val)]
                  ELSE [current EXCEPT !.pids = L.val]
    /\ UNCHANGED <<containers, flags, current_port>>

\* Any other line is passed over.
Unmatched ==
    /\ Read /\ in_containers /\ L.indent \notin {0, 4} /\ ~Is(2, "image_item")
    /\ ~(in_ports /\ Is(6, "host_item"))
    /\ ~(in_ports /\ L.key = "container" /\ L.indent \in {6, 8})
    /\ ~AtResource
    /\ UNCHANGED <<containers, flags, current, current_port>>

\* Seeded form: the mapping in progress is forgotten at the end.
EndOfInput_NoFlush ==
    /\ ~done /\ ~panicked /\ lines = <<>>
    /\ containers' = WithPending
    /\ done' = TRUE
    /\ UNCHANGED <<doc, lines, flags, current, current_port, panicked>>

\* The end flushes the mapping, then the container.
EndOfInput ==
    /\ ~done /\ ~panicked /\ lines = <<>>
    /\ containers' = IF current = None THEN containers
                     ELSE Append(containers, Build(FlushPort(current)))
    /\ done' = TRUE
    /\ UNCHANGED <<doc, lines, flags, current, current_port, panicked>>

ParserNext == \/ TopLevel \/ Outside \/ ImageItem \/ ContainerKey \/ HostItem
              \/ ContainerPort \/ ResourceKey \/ MemoryOverflow \/ Unmatched \/ EndOfInput

ParserSpec == ParserInit /\ [][ParserNext]_parserVars /\ WF_parserVars(ParserNext)
-----------------------------------------------------------------------------
AllPorts(cs) == FlattenSeq([k \in DOMAIN cs |-> cs[k].ports])

\* What was read of a document: its containers, in order, with image, restart
\* policy and limits, each to the byte; and no mapping is invented, duplicated
\* or reordered.
ReadRight ==
    /\ Len(containers) = Len(doc.containers)
    /\ \A k \in DOMAIN containers :
          [containers[k] EXCEPT !.ports = <<>>] = [Meant(doc)[k] EXCEPT !.ports = <<>>]
    /\ IsPrefix(AllPorts(containers), AllPorts(Meant(doc)))

\* The parser reads every line of a document and what it makes of it is right
\* (config.rs:41-177).  Only a size that no usize holds stops it, and then it
\* does stop (config.rs:246-258).
ReadsEverything ==
    <>IF Impossible(doc) THEN panicked ELSE done /\ ReadRight

\* A mapping is still in progress when something follows container k: its own
\* last one, or one that came through a container without sections.
Loose(k) ==
    \E j \in 1 .. k :
        /\ LET s == doc.containers[j].sections IN s # <<>> /\ Last(s).key = "ports"
        /\ \A i \in (j + 1) .. k : doc.containers[i].sections = <<>>
Followed(k) == k < Len(doc.containers) \/ doc.tail

\* A container has its own ports, however the mappings of the others are
\* written, unless it ends with them and something follows, or such a mapping
\* comes in from the container before (config.rs:73-93, 124-135, 166-171).
PortsStayWithContainer ==
    done => \A k \in DOMAIN containers :
               ~(Loose(k) /\ Followed(k)) /\ ~(k > 1 /\ Loose(k - 1))
                 => containers[k] = Meant(doc)[k]

\* "Flush previous container" (config.rs:74): the same without the exception.
PreviousIsFlushed == done => containers = Meant(doc)
=============================================================================
