------------------------------- MODULE FlatFs -------------------------------
(***************************************************************************)
(* What a writable mount over a read-only image promises, whatever layers  *)
(* it is made of: one flat map from paths to contents, in which the latest *)
(* write of a path is what is read, and removing a path brings back what   *)
(* the image has there.                                                    *)
(***************************************************************************)
EXTENDS Functions

CONSTANTS Base,    \* the image: path |-> contents
          Paths,   \* paths that may be written
          Data     \* contents

VARIABLE files     \* path |-> contents

Init == files = Base

Write(p, d) == files' = [q \in DOMAIN files \cup {p} |-> IF q = p THEN d ELSE files[q]]

Remove(p) ==
    files' = IF p \in DOMAIN Base THEN [files EXCEPT ![p] = Base[p]]
             ELSE Restrict(files, DOMAIN files \ {p})

Next == \E p \in Paths : Remove(p) \/ \E d \in Data : Write(p, d)

Spec == Init /\ [][Next]_files
=============================================================================
