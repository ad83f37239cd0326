------------------------------- MODULE RootFs -------------------------------
(***************************************************************************)
(* The kernel's root filesystem (fs/overlayfs.rs: read-only layers under a *)
(* writable one) and the shell session that works on it (host/getty.rs:    *)
(* the current directory, resolve_path, and the commands that write).      *)
(*                                                                         *)
(* A path is the sequence of its names, so "/" is <<>>; an argument is its *)
(* segments between slashes, "" for empty ones, and whether it begins with *)
(* a slash.  Files live under their full path and a directory exists when  *)
(* some file's path continues it.                                          *)
(***************************************************************************)
EXTENDS Integers, Sequences, FiniteSets, SequencesExt

CONSTANTS Lower,     \* the read-only layers, bottom first: path |-> contents
          Home,      \* the directory a session starts in
          Args,      \* arguments an operator may give
          Contents,  \* what echo writes
          Empty,     \* b""
          Paths      \* bound: the paths that commands write

Keep == ".keep"
Names == STRING \ {"", ".", ".."}    \* what a path is made of

ASSUME RootFsAssumption ==
    /\ \A k \in DOMAIN Lower : DOMAIN Lower[k] \subseteq Seq(STRING)
    /\ Paths \subseteq Seq(STRING) /\ Home \in Seq(Names) /\ Keep \in STRING
    /\ Args \subseteq [abs : BOOLEAN, segs : Seq(STRING)]

VARIABLES upper,   \* the writable layer: path |-> contents
          cwd      \* Getty.cwd

vars == <<upper, cwd>>

Init == upper = [p \in {} |-> Empty] /\ cwd = Home
-----------------------------------------------------------------------------
\* The names kept of the first n segments of a path.
Collapse(segs, parts, n) ==
    IF n = 0 THEN <<>>
    ELSE IF segs[n] \in {"", "."} THEN parts[n - 1]
    ELSE IF segs[n] # ".." THEN Append(parts[n - 1], segs[n])
    ELSE IF parts[n - 1] = <<>> THEN <<>> ELSE Front(parts[n - 1])

\* Seeded form: `..` at the root is kept.
resolve_path_AboveRoot(arg) ==
    FoldLeft(LAMBDA parts, seg : IF seg = ".." /\ parts # <<>> THEN Front(parts)
                                 ELSE IF seg \in {"", "."} THEN parts ELSE Append(parts, seg),
             <<>>, IF arg.abs THEN arg.segs ELSE cwd \o arg.segs)

resolve_path(arg) ==
    LET segs == IF arg.abs THEN arg.segs ELSE cwd \o arg.segs
        parts[n \in 0 .. Len(segs)] == Collapse(segs, parts, n)
    IN  parts[Len(segs)]

LowerHas(p) == {k \in DOMAIN Lower : p \in DOMAIN Lower[k]}
Topmost(K) == CHOOSE k \in K : \A j \in K : j <= k
ReadLower(p) == Lower[Topmost(LowerHas(p))][p]

exists(p) == p \in DOMAIN upper \/ LowerHas(p) # {}

\* Seeded form: lower layers are searched from the bottom.
read_BottomUp(p) ==
    IF p \in DOMAIN upper THEN upper[p]
    ELSE Lower[CHOOSE k \in LowerHas(p) : \A j \in LowerHas(p) : k <= j][p]

\* read(), for a path that exists.
read(p) == IF p \in DOMAIN upper THEN upper[p] ELSE ReadLower(p)

AllPaths == DOMAIN upper \cup UNION {DOMAIN Lower[k] : k \in DOMAIN Lower}

is_dir(p) == p = <<>> \/ \E q \in AllPaths : IsStrictPrefix(p, q)

\* Put one path into the writable layer.
With(files, p, d) == [q \in DOMAIN files \cup {p} |-> IF q = p THEN d ELSE files[q]]

\* Seeded form: the copy from the lower layer comes after the write.
write_CopyLast(p, d) ==
    upper' = LET written == With(upper, p, d)
             IN  IF p \notin DOMAIN upper /\ LowerHas(p) # {}
                 THEN With(written, p, ReadLower(p)) ELSE written

\* write(): copy on write from the lower layers, then the new contents.
write(p, d) ==
    upper' = LET copied == IF p \notin DOMAIN upper /\ LowerHas(p) # {}
                           THEN With(upper, p, ReadLower(p)) ELSE upper
             IN  With(copied, p, d)

\* remove(): only from the writable layer; without a file there, an error.
remove(p) ==
    /\ p \in DOMAIN upper
    /\ upper' = [q \in DOMAIN upper \ {p} |-> upper[q]]
-----------------------------------------------------------------------------
Writes(p, d) == write(p, d) /\ UNCHANGED cwd

Cd(arg) ==
    /\ is_dir(resolve_path(arg))
    /\ cwd' = resolve_path(arg)
    /\ UNCHANGED upper

\* echo text > path
Echo(arg, text) ==
    /\ resolve_path(arg) \in Paths
    /\ Writes(resolve_path(arg), text)

Touch(arg) ==
    /\ resolve_path(arg) \in Paths
    /\ ~exists(resolve_path(arg))
    /\ Writes(resolve_path(arg), Empty)

\* mkdir: the marker file makes the directory discoverable.
Mkdir(arg) ==
    /\ Append(resolve_path(arg), Keep) \in Paths
    /\ Writes(Append(resolve_path(arg), Keep), Empty)

\* Seeded form: rm takes the directory's files as well.
Rm_Tree(arg) ==
    LET p == resolve_path(arg)
    IN  /\ p \in DOMAIN upper
        /\ upper' = [q \in {q \in DOMAIN upper : ~IsPrefix(p, q)} |-> upper[q]]
        /\ UNCHANGED cwd

\* rm: an error changes nothing.
Rm(arg) == remove(resolve_path(arg)) /\ UNCHANGED cwd

Next == \E arg \in Args :
           \/ Cd(arg) \/ Touch(arg) \/ Mkdir(arg) \/ Rm(arg)
           \/ \E text \in Contents : Echo(arg, text)

Spec == Init /\ [][Next]_vars
-----------------------------------------------------------------------------
IsPath(p) == \A i \in DOMAIN p : p[i] \in Names

\* Paths reach the layers in one spelling: no empty, "." or ".." name is left
\* in a file's key or in the current directory (resolve_path).
TypeOK ==
    /\ \A p \in DOMAIN upper : IsPath(p)
    /\ \A p \in DOMAIN upper : upper[p] \in Contents \cup {Empty}
    /\ IsPath(cwd)

\* The layers behave as one flat map: a write shows at once and only at its
\* own path, whatever is copied up on the way, and rm uncovers the image's
\* file (OverlayMount read, write and remove).
Base == [p \in UNION {DOMAIN Lower[k] : k \in DOMAIN Lower} |-> ReadLower(p)]
Flat == INSTANCE FlatFs WITH Base <- Base, files <- [p \in AllPaths |-> read(p)],
                             Data <- Contents \cup {Empty}
FlatSpec == Flat!Spec

\* A file is not a directory: what overlayfs.rs's test says of /etc/hostname
\* (`assert!(!overlay.is_dir("/etc/hostname")); // that's a file`).
FileIsNotDir == \A p \in AllPaths \ {<<>>} : ~is_dir(p)
=============================================================================
