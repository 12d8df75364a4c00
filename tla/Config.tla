------------------------------- MODULE Config -------------------------------
(***************************************************************************)
(* The configuration of the spindle, from its environment and command line *)
(* (crates/tangled-spindle/src/config.rs, main.rs).                        *)
(*                                                                         *)
(* An environment is a function from the names of variables to their text, *)
(* which is abstracted to what a parser makes of it: blank, a word, a      *)
(* number, a number with a unit, or none of these.  Files is what the      *)
(* file system has: a path's text without the spaces around it.            *)
(***************************************************************************)
EXTENDS Integers, Sequences

CONSTANTS Word    \* u64: durations wrap at it

Blank == <<"blank">>
Text(s) == <<"text", s>>
Number(n) == <<"number", n>>
Span(n, unit) == <<"span", n, unit>>
Junk == <<"junk">>

\* What a parser answers.
Ok(v) == <<"ok", v>>
Err == <<"error">>

Given(env, key) == key \in DOMAIN env /\ env[key] # Blank
EnvOrDefault(env, key, default) == IF Given(env, key) THEN env[key] ELSE default
RequireEnv(env, key) == IF Given(env, key) THEN Ok(env[key]) ELSE Err

\* Any case; "vault" is OpenBao.
SecretsProvider(v) == CASE v = Text("sqlite") -> Ok("sqlite")
                        [] v \in {Text("openbao"), Text("vault")} -> Ok("openbao")
                        [] OTHER -> Err
EngineKind(v) == IF v \in {Text("nix"), Text("nixery")} THEN Ok(v[2]) ELSE Err

ParseBool(env, key, default) ==
    CASE ~Given(env, key) -> Ok(default)
      [] Given(env, key) /\ env[key] \in {Text("true"), Text("yes"), Number(1)} -> Ok(TRUE)
      [] Given(env, key) /\ env[key] \in {Text("false"), Text("no"), Number(0)} -> Ok(FALSE)
      [] OTHER -> Err

\* Zero is a number like another.
ParseUsize(env, key, default) ==
    IF ~Given(env, key) THEN Ok(default)
    ELSE IF env[key][1] = "number" THEN Ok(env[key][2]) ELSE Err

\* Seconds, which wrap silently in a release build.
ParseDuration(v) ==
    CASE v[1] = "number" -> Ok(v[2])
      [] v[1] = "span" -> Ok(v[2] * (CASE v[3] = "h" -> 3600 [] v[3] = "m" -> 60
                                       [] v[3] = "s" -> 1) % Word)
      [] OTHER -> Err

\* A limit that is no number is no limit.
Limit(env, key) == IF Given(env, key) /\ env[key][1] = "number" THEN <<env[key][2]>> ELSE <<>>

\* The token itself, or the file that has it.
LoadToken(env, files) ==
    LET path == env["TOKEN_FILE"]
    IN  IF Given(env, "TOKEN") THEN Ok(env["TOKEN"])
        ELSE IF Given(env, "TOKEN_FILE") /\ path \in DOMAIN files /\ files[path] # Blank
        THEN Ok(files[path]) ELSE Err

LoadEngineConfig(env) ==
    [kind |-> EngineKind(EnvOrDefault(env, "ENGINE", Text("nix"))),
     max_jobs |-> ParseUsize(env, "MAX_JOBS", 2),
     queue_size |-> ParseUsize(env, "QUEUE_SIZE", 100),
     workflow_timeout |-> ParseDuration(EnvOrDefault(env, "WORKFLOW_TIMEOUT", Span(5, "m"))),
     limit_as |-> Ok(Limit(env, "LIMIT_AS")), limit_nofile |-> Ok(Limit(env, "LIMIT_NOFILE"))]

LoadSecretsConfig(env) ==
    [provider |-> SecretsProvider(EnvOrDefault(env, "SECRETS_PROVIDER", Text("sqlite")))]

Loads(fields) == \A f \in DOMAIN fields : fields[f] # Err
Fields(fields) == [f \in DOMAIN fields |-> fields[f][2]]

\* One bad variable is enough for no configuration.
FromEnv(env, files) ==
    LET server == [hostname |-> RequireEnv(env, "HOSTNAME"), owner |-> RequireEnv(env, "OWNER"),
                   token |-> LoadToken(env, files), dev |-> ParseBool(env, "DEV", FALSE)]
        engine == LoadEngineConfig(env)
        secrets == LoadSecretsConfig(env)
    IN  IF Loads(server) /\ Loads(engine) /\ Loads(secrets)
        THEN Ok([server |-> Fields(server), engine |-> Fields(engine), secrets |-> Fields(secrets)])
        ELSE Err

\* --dev turns dev mode on and never off.
WithCli(config, dev) == [config EXCEPT !.server.dev = @ \/ dev]
=============================================================================
