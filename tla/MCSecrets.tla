----------------------------- MODULE MCSecrets ------------------------------
(* Two repositories and three secrets; the first token, and a JWT within the leeway.   *)
EXTENDS Secrets, TLC

KEY == "KEY"
PASS == "PASS"
DEEP == "deep/KEY"

MCDirectory == [d \in Did |-> [curve |-> "ES256", id |-> 1]]
MCRkeyOf == [n \in Name |-> IF n = "site" THEN "site" ELSE "3kabc"]
MCRegistered == {<<>>, <<"site", "tool">>, <<"tool", "site">>}
MCPlaceOf == [n \in Name |-> n]

\* All changes of one secret, by URI with a JWT or by path with the token; the other
\* secrets are put by path, and names are listed by URI.
Order(method, uri, n, k, v) ==
    [method |-> method, ref |-> [uri |-> uri, meant |-> n], name |-> k, value |-> v,
     request |-> IF uri THEN Jwt("did:plc:a", Us, 80, "ES256", MCDirectory["did:plc:a"])
                 ELSE Bearer("t1")]
MCOrders ==
    {Order("put", uri, n, KEY, v) : uri \in BOOLEAN, n \in Name, v \in Value}
    \cup {Order("delete", uri, n, KEY, "") : uri \in BOOLEAN, n \in Name}
    \cup {Order("put", FALSE, n, k, "v1") : n \in Name, k \in {PASS, DEEP}}
    \cup {Order("list", TRUE, n, "", "") : n \in Name}

\* Two tokens for each manager, one of them in a file; and two environments
\* without a configuration.
Base == "HOSTNAME" :> Text("us") @@ "OWNER" :> Text("did:plc:o")
With(env) == [env |-> env @@ Base, files |-> Text("/token") :> Text("t2") @@ Text("/empty") :> Blank]
MCDeployments ==
    {With("TOKEN" :> Text("t1") @@ "TOKEN_FILE" :> Text("/token") @@ "DEV" :> Number(0)),
     With("TOKEN" :> Blank @@ "TOKEN_FILE" :> Text("/token") @@ "SECRETS_PROVIDER" :> Text("sqlite")),
     With("TOKEN" :> Text("t1") @@ "SECRETS_PROVIDER" :> Text("vault")
          @@ "WORKFLOW_TIMEOUT" :> Span(1, "h")),
     With("TOKEN_FILE" :> Text("/token") @@ "SECRETS_PROVIDER" :> Text("openbao")
          @@ "MAX_JOBS" :> Number(0) @@ "LIMIT_AS" :> Junk),
     With("TOKEN_FILE" :> Text("/empty")),
     With("TOKEN" :> Text("t1") @@ "WORKFLOW_TIMEOUT" :> Junk)}

Symmetric == Permutations(Caller)
=============================================================================
