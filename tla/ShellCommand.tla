---------------------------- MODULE ShellCommand ----------------------------
(***************************************************************************)
(* host/shell.rs: from a line to a command.  A line is a sequence of       *)
(* words, a word the sequence of its fields between colons; a field that   *)
(* is a decimal number has a value.                                        *)
(***************************************************************************)
EXTENDS Integers, Sequences, SequencesExt

CONSTANTS Numeral,     \* field -> its value, for the fields that are numbers
          U16Max,      \* 2^16 - 1
          OptionWords, \* words options are made of, for the check of the options
          MaxOptions   \* bound on the words behind an image

ASSUME ShellAssumption ==
    /\ U16Max \in Nat /\ MaxOptions \in Nat
    /\ \A field \in DOMAIN Numeral : Numeral[field] \in Nat

Ok(value) == [ok |-> TRUE, value |-> value]
Err(e) == [ok |-> FALSE, error |-> e]

Word(s) == <<s>>
PortFlags == {Word("-p"), Word("--publish")}
VolumeFlags == {Word("-v"), Word("--volume")}
IsU16(field) == field \in DOMAIN Numeral /\ Numeral[field] <= U16Max
-----------------------------------------------------------------------------
\* host:container, both 16-bit numbers; split_once leaves a third field in the
\* second, which then is no number.
IsMapping(word) == Len(word) = 2 /\ IsU16(word[1]) /\ IsU16(word[2])
Mapping(word) == [host |-> Numeral[word[1]], container |-> Numeral[word[2]]]

\* source:target[:access], and any access but `ro` is read-write.
IsMount(word) == Len(word) >= 2
Mount(word) == [source |-> word[1], target |-> word[2],
                access |-> IF Len(word) = 3 /\ word[3] = "ro" THEN "ReadOnly" ELSE "ReadWrite"]

\* What the word behind a flag gives, for either kind of option.
Value(kind, word) ==
    IF kind = "port"
    THEN IF IsMapping(word) THEN Ok(Mapping(word)) ELSE Err("BadPortMapping")
    ELSE IF IsMount(word) THEN Ok(Mount(word)) ELSE Err("MissingArgument")

\* A left-to-right scan for one kind of option, at word i: a flag takes the next
\* word, whatever it is, and words that follow no flag are skipped.
ScanStep(args, flags, kind, from, i) ==
    IF i > Len(args) THEN Ok(<<>>)
    ELSE IF args[i] \notin flags THEN from[i + 1]
    ELSE IF i = Len(args) THEN Err("MissingArgument")
    ELSE LET v == Value(kind, args[i + 1])
         IN  IF v.ok /\ from[i + 2].ok THEN Ok(<<v.value>> \o from[i + 2].value)
             ELSE IF v.ok THEN from[i + 2] ELSE v

Scan(args, flags, kind) ==
    LET from[i \in 1 .. Len(args) + 2] == ScanStep(args, flags, kind, from, i)
    IN  from[1]

\* Seeded form: a mapping that does not parse is passed over.
parse_ports_Lenient(args) ==
    LET r == Scan(args, PortFlags, "port")
    IN  IF r.ok \/ r.error # "BadPortMapping" THEN r ELSE Ok(<<>>)

parse_ports(args) == Scan(args, PortFlags, "port")
parse_volumes(args) == Scan(args, VolumeFlags, "volume")

\* The tag is what follows the first colon, a registry's port included.
split_image_tag(word) ==
    [name |-> word[1], tag |-> IF Len(word) = 1 THEN <<"latest">> ELSE Tail(word)]
-----------------------------------------------------------------------------
\* ShellCommand::parse for the commands whose words are all fixed but "*".
Patterns == <<
    <<<<"ls">>, "Ls">>, <<<<"ls", "*">>, "Ls">>, <<<<"cd">>, "Cd">>, <<<<"cd", "*">>, "Cd">>,
    <<<<"pwd">>, "Pwd">>, <<<<"cat", "*">>, "Cat">>, <<<<"touch", "*">>, "Touch">>,
    <<<<"mkdir", "*">>, "Mkdir">>, <<<<"rm", "*">>, "Rm">>,
    <<<<"clear">>, "Clear">>, <<<<"uname">>, "Uname">>, <<<<"uname", "-a">>, "Uname">>,
    <<<<"free">>, "Free">>, <<<<"lsblk">>, "Lsblk">>, <<<<"df">>, "Df">>, <<<<"ps">>, "Ps">>,
    <<<<"container", "list">>, "ContainerList">>, <<<<"container", "ls">>, "ContainerList">>,
    <<<<"container", "ps">>, "ContainerList">>,
    <<<<"container", "pull", "*">>, "ImagePull">>, <<<<"container", "stop", "*">>, "ContainerStop">>,
    <<<<"container", "logs", "*">>, "ContainerLogs">>,
    <<<<"container", "logs", "-f", "*">>, "ContainerLogs">>,
    <<<<"container", "logs", "*", "-f">>, "ContainerLogs">>,
    <<<<"container", "inspect", "*">>, "ContainerInspect">>,
    <<<<"image", "pull", "*">>, "ImagePull">>, <<<<"image", "list">>, "ImageList">>,
    <<<<"image", "ls">>, "ImageList">>, <<<<"image", "rm", "*">>, "ImageRemove">>,
    <<<<"image", "remove", "*">>, "ImageRemove">>,
    <<<<"volume", "create", "*">>, "VolumeCreate">>, <<<<"volume", "rm", "*">>, "VolumeRemove">>,
    <<<<"volume", "remove", "*">>, "VolumeRemove">>,
    <<<<"kernel", "info">>, "KernelInfo">>, <<<<"help">>, "Help">>, <<<<"?">>, "Help">> >>

Matches(line, words) ==
    /\ Len(line) = Len(words)
    /\ \A k \in DOMAIN words : words[k] = "*" \/ line[k] = Word(words[k])

\* The words at the places of "*".
Arguments(line, words) ==
    LET places == SelectSeq([k \in DOMAIN words |-> k], LAMBDA k : words[k] = "*")
    IN  [j \in DOMAIN places |-> line[places[j]]]

\* `container run image options...`: ports first, so their error wins.
ContainerRunLine(line) ==
    LET rest == SubSeq(line, 4, Len(line))
        ports == parse_ports(rest)  volumes == parse_volumes(rest)
    IN  IF ~ ports.ok THEN ports ELSE IF ~ volumes.ok THEN volumes
        ELSE Ok([cmd |-> "ContainerRun", image |-> line[3],
                 ports |-> ports.value, volumes |-> volumes.value])

\* `echo text [> file]`: the first `>` redirects, if a word follows it.
EchoLine(line) ==
    LET at == {k \in 2 .. Len(line) - 1 : line[k] = Word(">")}
        first == {k \in at : \A j \in 2 .. k - 1 : line[j] # Word(">")}
    IN  Ok([cmd |-> "Echo", args |-> {line[k + 1] : k \in first}])

parse(line) ==
    LET fixed == {k \in DOMAIN Patterns : Matches(line, Patterns[k][1])}
    IN  IF fixed # {}
        THEN LET p == Patterns[Min(fixed)]
             IN  Ok([cmd |-> p[2], args |-> Arguments(line, p[1])])
        ELSE IF Len(line) >= 1 /\ line[1] = Word("echo") THEN EchoLine(line)
        ELSE IF Len(line) >= 3 /\ line[1] = Word("container") /\ line[2] = Word("run")
        THEN ContainerRunLine(line)
        ELSE IF line \in {<<Word("cat")>>, <<Word("container"), Word("run")>>,
                          <<Word("image"), Word("pull")>>} THEN Err("MissingArgument")
        ELSE Err("UnknownCommand")
-----------------------------------------------------------------------------
\* The options as one scan would read them, each word once.
OptionsStep(args, from, i) ==
    LET rest == from[i + 2]
    IN  IF i > Len(args) THEN Ok([ports |-> <<>>, volumes |-> <<>>])
        ELSE IF args[i] \notin PortFlags \cup VolumeFlags THEN from[i + 1]
        ELSE IF i = Len(args) THEN Err("MissingArgument")
        ELSE IF args[i] \in PortFlags
        THEN IF IsMapping(args[i + 1]) /\ rest.ok
             THEN Ok([ports |-> <<Mapping(args[i + 1])>> \o rest.value.ports,
                      volumes |-> rest.value.volumes])
             ELSE Err("BadPortMapping")
        ELSE IF IsMount(args[i + 1]) /\ rest.ok
             THEN Ok([ports |-> rest.value.ports,
                      volumes |-> <<Mount(args[i + 1])>> \o rest.value.volumes])
             ELSE Err("MissingArgument")

OptionsOf(args) ==
    LET from[i \in 1 .. Len(args) + 2] == OptionsStep(args, from, i)
    IN  from[1]

\* The two scans of a line's options, each over all its words, accept what one
\* scan accepts and give the same mappings and mounts: no word is read once as
\* an option's value and once as a flag (shell.rs:157-203).
TwoScansAreOne ==
    \A args \in SeqOf(OptionWords, MaxOptions) :
        LET line == <<Word("container"), Word("run"), Word("image")>> \o args
            r == parse(line)  one == OptionsOf(args)
        IN  /\ r.ok = one.ok
            /\ r.ok => /\ r.value.ports = one.value.ports
                       /\ r.value.volumes = one.value.volumes
=============================================================================
