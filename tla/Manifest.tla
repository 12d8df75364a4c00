------------------------------ MODULE Manifest ------------------------------
(***************************************************************************)
(* What a workflow file and a trigger become: dependencies                 *)
(* (crates/spindle-engine/src/nix_deps.rs), steps and environment          *)
(* (nix_engine.rs, crates/spindle-models/src/step.rs) and the variables    *)
(* of the trigger (pipeline_env.rs).                                       *)
(*                                                                         *)
(* An environment is a function from names to values.  An optional part is *)
(* a sequence of at most one.  yaml.bad names the parts of a workflow file *)
(* that have not the shape they should; broken YAML makes all of them bad. *)
(***************************************************************************)
EXTENDS Integers, Sequences, FiniteSets, SequencesExt, FiniteSetsExt, TLC

CONSTANTS SourceOrder,  \* the sources of dependencies, in the order of their keys
          SourceBytes, PackageBytes, \* what a source or a package is hashed as: it may hold separators
          VarOf,        \* a channel as a Nix name: '-' and '.' become '_'
          InputName     \* an input's variable: TANGLED_INPUT_ and its name in upper case

ASSUME ManifestAssumption == \A name \in DOMAIN InputName : InputName[name] # "TANGLED_SHA"

\* One environment over another: @@ of TLC, by its definition, which proofs need.
f ++ g == [k \in DOMAIN f \cup DOMAIN g |-> IF k \in DOMAIN f THEN f[k] ELSE g[k]]

Readable(yaml, parts) == yaml.bad \cap parts = {}

-----------------------------------------------------------------------------
(* Dependencies.  A source is nixpkgs, a channel of nixpkgs, or a URL with *)
(* or without git+; deps gives for each source the packages asked of it.   *)

Source(form, name) == [form |-> form, name |-> name]

\* NixDeps::parse: the sources, without those no package is asked of.
Listed(deps) == {s \in ToSet(SourceOrder) : s \in DOMAIN deps /\ deps[s] # <<>>}
Needed(deps) == Listed(deps) # {}

\* resolve_source: the variable and what it imports; the URLs are numbered in the
\* order of the keys.
IsUrl(s) == s.form \in {"git", "url"}
Precedes(t, s) ==
    \E i, j \in DOMAIN SourceOrder : i < j /\ SourceOrder[i] = t /\ SourceOrder[j] = s
VarName(deps, s) ==
    CASE s.form = "nixpkgs" -> "nixpkgs"
      [] s.form = "channel" -> VarOf[s.name]
      [] IsUrl(s) -> LET before == {t \in Listed(deps) : IsUrl(t) /\ Precedes(t, s)}
                     IN  "custom_" \o ToString(Cardinality(before))

Import(s) == IF IsUrl(s) THEN <<"git", s.name>>
             ELSE <<"tarball", IF s.form = "nixpkgs" THEN "nixpkgs-unstable" ELSE s.name>>

\* to_nix_expr: the bindings and the paths of buildEnv, by source; the text has
\* them in the order of the keys.
NixExpr(deps) ==
    [bindings |-> [s \in Listed(deps) |-> <<VarName(deps, s), Import(s)>>],
     paths |-> [s \in Listed(deps) |->
                   [i \in DOMAIN deps[s] |-> <<VarName(deps, s), deps[s][i]>>]]]

\* compute_content_hash: what is fed to SHA-256, the sources in order, each with its
\* packages.  The separators are not escaped, so that two maps may make the same bytes.
Fed(deps) ==
    LET part(s) == SourceBytes[s] \o <<"NUL">>
                   \o FlattenSeq([i \in DOMAIN deps[s] |-> PackageBytes[deps[s][i]] \o <<"NUL">>])
                   \o <<"LF">>
    IN  FlattenSeq([i \in DOMAIN SourceOrder |->
                       IF SourceOrder[i] \in DOMAIN deps THEN part(SourceOrder[i]) ELSE <<>>])

\* SHA-256: equal for equal bytes only.
ContentHash_OfSources(deps) == Fed([s \in DOMAIN deps |-> <<>>])
ContentHash(deps) == Fed(deps)

\* Nix refuses an expression that binds a name twice; else it builds the
\* packages, each from what its variable imports.
Evaluates(expr) ==
    \A s, t \in DOMAIN expr.bindings : expr.bindings[s][1] = expr.bindings[t][1] => s = t
Paths(expr) == UNION {ToSet(expr.paths[s]) : s \in DOMAIN expr.paths}
Contents(expr) ==
    UNION {{<<b[2], p[2]>> : p \in {q \in Paths(expr) : q[1] = b[1]}} :
               b \in Range(expr.bindings)}

-----------------------------------------------------------------------------
(* Environments.                                                           *)

(* The trigger of a pipeline, as its record has it.                        *)
TriggerRepo(knot, did, repo, branch) ==
    [knot |-> knot, did |-> did, repo |-> repo, default_branch |-> branch]
PushTriggerData(prefix, name, sha) == [ref |-> [prefix |-> prefix, name |-> name], new_sha |-> sha]
PullRequestTriggerData(source, target, sha, action) ==
    [source_branch |-> source, target_branch |-> target, source_sha |-> sha, action |-> action]
ManualTriggerData(keys, values) ==
    [i \in DOMAIN keys |-> [key |-> keys[i], value |-> values[i]]]
TriggerMetadata(kind, repo, push, pr, manual) ==
    [kind |-> kind, repo |-> repo, push |-> push, pull_request |-> pr, manual |-> manual]

\* One part that has not its shape, and there is no trigger at all: the record
\* itself is read more leniently, so its workflows run without one.
Parsed(record) == IF record.bad THEN <<>> ELSE <<record.trigger>>

\* parse_env_from_yaml: `env` over `environment`.
YamlEnv(yaml) == yaml.env ++ yaml.environment

\* build_repo_url
RepoUrl(repo, dev) ==
    IF dev THEN "http://" \o (IF repo.knot = "localhost" THEN "host.docker.internal" ELSE repo.knot)
                \o "/" \o repo.did \o "/" \o repo.repo
    ELSE "https://" \o repo.knot \o "/" \o repo.did \o "/" \o repo.repo

RepoVars(repo, dev) ==
    [TANGLED_REPO_KNOT |-> repo.knot, TANGLED_REPO_DID |-> repo.did,
     TANGLED_REPO_NAME |-> repo.repo, TANGLED_REPO_DEFAULT_BRANCH |-> repo.default_branch,
     TANGLED_REPO_URL |-> RepoUrl(repo, dev)]

\* ref_short_name, ref_type: a ref is a prefix and a name.
RefVars(ref, sha) ==
    [TANGLED_REF |-> ref.prefix \o ref.name, TANGLED_REF_NAME |-> ref.name,
     TANGLED_REF_TYPE |-> IF ref.prefix = "refs/tags/" THEN "tag" ELSE "branch",
     TANGLED_SHA |-> sha, TANGLED_COMMIT_SHA |-> sha]

PullRequestVars(pr) ==
    [TANGLED_PR_SOURCE_BRANCH |-> pr.source_branch, TANGLED_PR_TARGET_BRANCH |-> pr.target_branch,
     TANGLED_PR_SOURCE_SHA |-> pr.source_sha, TANGLED_PR_ACTION |-> pr.action]
    ++ RefVars([prefix |-> "refs/heads/", name |-> pr.source_branch], pr.source_sha)

\* The last input of a name in upper case is the one that counts.
InputVars(inputs) ==
    LET name(i) == InputName[inputs[i].key]
    IN  [k \in {name(i) : i \in DOMAIN inputs} |->
            inputs[Max({i \in DOMAIN inputs : name(i) = k})].value]

Empty == [k \in {} |-> ""]
Vars(part, kind, trigger) == IF trigger.kind = kind THEN part ELSE <<>>

\* PipelineEnvVars::build: only the part the kind names is looked at.
PipelineEnv(trigger, id, dev) ==
    LET repo == IF trigger.repo = <<>> THEN Empty ELSE RepoVars(trigger.repo[1], dev)
        push == Vars(trigger.push, "push", trigger)
        pr == Vars(trigger.pull_request, "pull_request", trigger)
        manual == Vars(trigger.manual, "manual", trigger)
    IN  [CI |-> "true", TANGLED_PIPELINE_ID |-> id] ++ repo
        ++ (IF push = <<>> THEN Empty ELSE RefVars(push[1].ref, push[1].new_sha))
        ++ (IF pr = <<>> THEN Empty ELSE PullRequestVars(pr[1]))
        ++ (IF manual = <<>> THEN Empty ELSE InputVars(manual[1]))

\* process_pipeline_event: the push's commit, or the pull request's,
\* whatever the kind.
CommitSha(trigger) ==
    IF trigger.push # <<>> THEN <<trigger.push[1].new_sha>>
    ELSE IF trigger.pull_request # <<>> THEN <<trigger.pull_request[1].source_sha>>
    ELSE <<>>

-----------------------------------------------------------------------------
(* Steps.  A step is the fetch of a commit, "" for the remote's HEAD, or a *)
(* command of the user's.                                                  *)

\* CloneStep::build
Fetch(sha, depth, submodules) ==
    [fetch |-> IF sha = <<>> THEN "" ELSE sha[1],
     depth |-> IF depth = 0 THEN 1 ELSE depth, submodules |-> submodules]

NoOpts == [depth |-> 0, skip |-> FALSE, submodules |-> FALSE]
CloneStep(sha, clone) ==
    LET opts == IF clone = <<>> THEN NoOpts ELSE clone[1]
    IN  IF opts.skip THEN <<>> ELSE <<Fetch(sha, opts.depth, opts.submodules)>>

UserStep(command) == [run |-> command]
UserSteps(yaml) == [i \in DOMAIN yaml.steps |-> UserStep(yaml.steps[i])]

\* init_workflow refuses another engine, a file it cannot read, and one
\* without a step.
WorkflowSteps(wf, sha) == CloneStep(sha, wf.clone) \o UserSteps(wf.yaml)
Accepts(wf, sha) ==
    /\ wf.engine \in {"nix", "nixery"}
    /\ Readable(wf.yaml, {"steps", "deps", "env"})
    /\ WorkflowSteps(wf, sha) # <<>>

\* setup_workflow: what the container starts with; the workflow may replace it.
ContainerEnv(env, path) ==
    env ++ [PATH |-> path, HOME |-> "/workspace", USER |-> "spindle", CI |-> "true"]

\* spindle-run: the home comes last, before it TERM and USER of the process, if it has
\* them; the workflow's own may replace the rest.
Homes == [v \in {"HOME", "XDG_CONFIG_HOME", "XDG_CACHE_HOME", "XDG_DATA_HOME", "XDG_STATE_HOME"} |->
             "run_home"]
LocalEnv(process, env, path) == Homes ++ process ++ env ++ [PATH |-> path, CI |-> "true"]
=============================================================================
