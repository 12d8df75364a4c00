------------------------------ MODULE MCBuilds ------------------------------
(* Two workflows of the spindle under every pair of triggers, or two          *)
(* invocations of spindle-run in one directory.                               *)
EXTENDS Builds

CONSTANTS s1, s2, s3, l1, l2, l3, l4

MCJob == {s1, s2, s3, l1, l2, l3, l4}
MCLocal == {l1, l2, l3, l4}
MCGroups == {{s1, s2}, {s3}, {l1, l2}, {l2, l3}, {l1, l4}}
MCDryRun == {l3}

nixpkgs == Source("nixpkgs", "")
stable == Source("channel", "nixos-24.05")
dash == Source("channel", "a-b")
dot == Source("channel", "a.b")
fork == Source("git", "https://fork")
mirror == Source("url", "https://mirror")
odd == Source("git", "https://fork NUL a")
MCSourceOrder == <<fork, odd, mirror, nixpkgs, dash, dot, stable>>
MCSourceBytes == [s \in ToSet(MCSourceOrder) |->
                     IF s = odd THEN <<"https://fork", "NUL", "a">> ELSE <<s.name>>]
MCPackageBytes == [p \in {"go", "git", "rust", "a", "b"} |-> <<p>>]
MCVarOf == "nixos-24.05" :> "nixos_24_05" @@ "a-b" :> "a_b" @@ "a.b" :> "a_b"
MCInputName == "tag" :> "TANGLED_INPUT_TAG" @@ "Tag" :> "TANGLED_INPUT_TAG"

Yaml(bad, steps, deps, env, environment) ==
    [bad |-> bad, steps |-> steps, deps |-> deps, env |-> env, environment |-> environment]
Workflow(clone, yaml) == [engine |-> "nix", clone |-> clone, yaml |-> yaml]

\* The same sources with other packages, one with none of one source; names set
\* in several places.
Yaml1 == Yaml({}, <<"make">>, nixpkgs :> <<"go">> @@ stable :> <<"git">>,
              "PATH" :> "own" @@ "A" :> "env", "A" :> "environment" @@ "B" :> "environment")
Yaml2 == Yaml({}, <<"make">>, nixpkgs :> <<"rust">> @@ stable :> <<>>,
              "TOKEN" :> "env" @@ "TANGLED_REF" :> "env", Empty)

\* Numbered URLs; two channels of one Nix name; files that cannot be read.
Yaml3 == Yaml({}, <<"make", "test">>, fork :> <<"a">> @@ mirror :> <<"b">>,
              "USER" :> "nobody" @@ "HOME" :> "/" @@ "TERM" :> "dumb", Empty)
Yaml4 == Yaml({}, <<"make">>, fork :> <<"b">> @@ mirror :> <<"a">>, Empty, Empty)
Yaml5 == Yaml({}, <<"make">>, dash :> <<"a">> @@ dot :> <<"b">>, Empty, Empty)
Yaml6 == Yaml({"env", "deps"}, <<"make">>, Empty, "CI" :> "false", Empty)
Yaml7 == Yaml({"steps"}, <<>>, Empty, Empty, Empty)

\* The same bytes as Yaml3: a source that no package is asked of has a NUL in it.
Yaml9 == Yaml({}, <<"make">>, odd :> <<>> @@ mirror :> <<"b">>, "USER" :> "nobody", Empty)
Yaml8 == Yaml({}, <<>>, nixpkgs :> <<"a">>, Empty, Empty)

NoClone == <<[depth |-> 0, skip |-> TRUE, submodules |-> FALSE]>>
Deep == <<[depth |-> 9, skip |-> FALSE, submodules |-> TRUE]>>

MCFiles ==
    s1 :> <<Workflow(<<>>, Yaml1)>> @@ s2 :> <<Workflow(Deep, Yaml2)>>
    @@ s3 :> <<Workflow(NoClone, Yaml8)>>
    @@ l1 :> <<Workflow(<<>>, Yaml3), Workflow(<<>>, Yaml5)>>
    @@ l2 :> <<Workflow(NoClone, Yaml4), Workflow(<<>>, Yaml6)>>
    @@ l3 :> <<Workflow(<<>>, Yaml3), Workflow(<<>>, Yaml7)>>
    @@ l4 :> <<Workflow(<<>>, Yaml9)>>
MCProcessVars == l1 :> ("TERM" :> "xterm" @@ "USER" :> "real") @@ l2 :> ("TERM" :> "xterm")
                 @@ l3 :> Empty @@ l4 :> Empty

MCRepo == <<TriggerRepo("localhost", "did", "repo", "main")>>
MCPush == TriggerMetadata("push", MCRepo, <<PushTriggerData("refs/tags/", "v1", "sha1")>>, <<>>, <<>>)
MCPullRequest == TriggerMetadata("pull_request", MCRepo, <<>>,
                     <<PullRequestTriggerData("topic", "main", "sha2", "open")>>, <<>>)
MCManual == TriggerMetadata("manual", MCRepo, <<>>, <<>>,
                <<ManualTriggerData(<<"tag", "Tag">>, <<"1", "2">>)>>)
\* A pull request with a push: the clone step fetches the push.
MCMixed == [MCPullRequest EXCEPT !.push = MCPush.push, !.kind = "pull_request"]
MCTriggers == [bad : {FALSE}, trigger : {MCPush, MCPullRequest, MCManual, MCMixed}]
              \cup [bad : {TRUE}, trigger : {MCPush}]

MCSecretVars == "TOKEN" :> "secret" @@ "B" :> "secret"
=============================================================================
