------------------------- MODULE MCContainerRuntime -------------------------
(***************************************************************************)
(* Two declared containers, the second with two mappings, and two more run *)
(* from the shell: host ports of both kinds of container collide.  Among   *)
(* the lines are ones that do not parse, at each place they can fail, and  *)
(* two spellings of one image.  Credentials are one letter, so that a line *)
(* can be right, wrong, or right between blanks; the bytes 194 and 133 are *)
(* one blank together and none alone.                                      *)
(***************************************************************************)
EXTENDS ContainerRuntime, TLC

M(h, c) == [host |-> h, container |-> c]
W(words) == [k \in DOMAIN words |-> Word(words[k])]

MCDeclared == << [image |-> <<"nginx">>, ports |-> <<M(8080, 80)>>],
                 [image |-> <<"redis", "7">>, ports |-> <<M(6379, 6379), M(8080, 80)>>] >>
MCNumeral == "0" :> 0 @@ "1" :> 1 @@ "2" :> 2 @@ "3" :> 3 @@ "9" :> 9 @@ "80" :> 80
             @@ "8080" :> 8080 @@ "9090" :> 9090 @@ "65536" :> 65536
Run(options) == W(<<"container", "run", "redis">>) \o options
P(h, c) == <<Word("-p"), <<h, c>>>>

MCLines ==
    { Run(<<>>), Run(P("8080", "80") \o P("9090", "80")),
      Run(<<Word("--volume"), <<"data", "srv", "ro">>>> \o P("9090", "80")),
      Run(P("65536", "80")), Run(<<Word("-p")>>), Run(<<Word("-v"), Word("data")>>),
      W(<<"container", "run">>), W(<<"container", "list">>), W(<<"ls">>), W(<<"reboot">>), <<>>,
      <<Word("image"), Word("pull"), <<"redis", "7">>>>, W(<<"container", "pull", "redis">>),
      <<Word("image"), Word("rm"), <<"redis", "latest">>>>, W(<<"image", "pull">>),
      W(<<"volume", "create", "data">>), W(<<"volume", "create", "logs">>),
      W(<<"volume", "rm", "data">>) }
    \cup {W(<<"container", "stop", id>>) : id \in {"0", "1", "2", "3", "9", "redis"}}

MCOptionWords == {Word("-p"), Word("--volume"), <<"8080", "80">>, <<"data", "srv">>, Word("x")}
MCBytes == {32, 114, 120, 133, 194}
MCRootUser == <<114>>
MCRootPass == <<120>>
=============================================================================
