--------------------------- MODULE MCConfigParser ---------------------------
(***************************************************************************)
(* Documents of one to three containers with every order of sections, in   *)
(* which ports may be the last section, be followed by another key, by the *)
(* next container or by another top-level key, in both indentations, with  *)
(* mappings that lack a part; and sizes in every unit, around the largest  *)
(* usize, of 4 bits with a kilo of 2.  Three processes share a container.  *)
(***************************************************************************)
EXTENDS DeclaredContainers

PortsAt(list, at) == [key |-> "ports", ports |-> list, at |-> at]
Restart == [key |-> "restart", val |-> "always"]
Unknown == [key |-> "unknown"]
Memory(n, unit) == [n |-> n, unit |-> unit]
Resources(m, p) == [key |-> "resources", memory |-> m, pids |-> p]

PortLists == {<< <<8080, 80>> >>, << <<8080, 80>>, <<9090, 90>> >>,
              << <<None, 80>>, <<9090, 90>> >>, << <<8080, None>> >>}
PortSections == {PortsAt(l, at) : l \in PortLists, at \in {4, 6}}

Closed == UNION {{<<p, Restart>>, <<p, Unknown>>,
                  <<Restart, p, Resources(Memory(1, "kb"), 50)>>,
                  <<p, Resources(Memory(None, "mb"), None), Restart>>} :
                    p \in PortSections}
Open == {<<>>} \cup UNION {{<<p>>, <<Restart, p>>, <<Resources(Memory(2, "kb"), 50), p>>} :
                             p \in PortSections}

Few == {<<Restart>>, <<Unknown, Restart>>}

Doc(cs, t) == [containers |-> cs, tail |-> t]
C(image, sections) == [image |-> image, sections |-> sections]

MCSizeValues == {Memory(n, u) : n \in {None, 0, 1, 2, 3, 4, 7, 8, 15, 16},
                         u \in {"", "kb", "mb", "gb"}}
MCSizes == {Doc(<<C("nginx", <<Resources(m, 50)>>), C("redis", <<Restart>>)>>, t) :
              m \in MCSizeValues, t \in BOOLEAN}
MCParsed == {Doc(<<C("nginx", s)>>, t) : s \in Closed \cup Open, t \in BOOLEAN}
          \cup {Doc(<<C("nginx", s), C("redis", t)>>, FALSE) : s \in Closed \cup Open,
                                                             t \in Closed \cup Open}
          \cup {Doc(<<C("nginx", s), C("mysql", <<>>), C("redis", t)>>, TRUE) :
                    s \in Open, t \in Few}
MCDocs == MCParsed \cup MCSizes
=============================================================================
