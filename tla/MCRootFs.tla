------------------------------ MODULE MCRootFs ------------------------------
(* Two read-only layers that both hold /etc/motd, and the commands of one *)
(* session: relative and absolute arguments, with dots, above the root,   *)
(* below a file, into directories that only a marker file makes.  MCPaths *)
(* leaves room for a spelling that resolve_path must never produce.       *)
EXTENDS RootFs

Rel(segs) == [abs |-> FALSE, segs |-> segs]
Abs(segs) == [abs |-> TRUE, segs |-> segs]

MCBottom == (<<"etc", "motd">> :> "old") @@ (<<"etc", "hostname">> :> "host")
            @@ (<<"home", ".profile">> :> "profile")
MCTop == (<<"etc", "motd">> :> "new") @@ (<<"tmp", ".keep">> :> "")
MCLower == <<MCBottom, MCTop>>
MCHome == <<"home">>
MCArgs == {Abs(<<"etc", "motd">>), Abs(<<"etc", "motd", "x">>), Abs(<<"", "tmp">>),
           Rel(<<"x">>), Rel(<<"..">>), Rel(<<"..", "..", "tmp", ".", "x">>),
           Rel(<<".keep">>), Abs(<<"">>)}
MCPaths == {<<"etc", "motd">>, <<"etc", "motd", "x">>, <<"tmp", "x">>, <<"home", "x">>,
            <<"tmp", "x", ".keep">>, <<"..", "tmp", "x">>}
MCContents == {"text", "more"}
MCEmpty == ""
=============================================================================
