---------------------------- MODULE ServiceAuth -----------------------------
(***************************************************************************)
(* Who a request comes from: crates/spindle-xrpc/src/service_auth.rs.      *)
(*                                                                         *)
(* A request carries no credential, the configured token, or a JWT: the    *)
(* claims and the key it was signed with.  The PLC directory is external.  *)
(* Encodings and cryptography are abstracted to whether they succeed.      *)
(***************************************************************************)
EXTENDS Integers, Sequences, FiniteSets, FiniteSetsExt

CONSTANTS Did, Owner, Us,       \* DIDs, the owner's, and the spindle's did:web
          Curve,                \* kinds of keys; an algorithm is named for its curve
          Leeway,               \* grace for clock skew (30 s)
          Seconds,              \* numbers of seconds a u64 holds (2^64)
          Directory, Now        \* what the directory answers for each DID, and the time

NoKey == [curve |-> "none", id |-> 0]    \* no #atproto key that can be read
Unreachable == [curve |-> "?", id |-> 0] \* no document
Key == [curve : Curve, id : Nat]

None == [kind |-> "none"]
Bearer(token) == [kind |-> "bearer", token |-> token]
Jwt(iss, aud, exp, alg, signer) ==
    [kind |-> "jwt", wellformed |-> TRUE, iss |-> iss, aud |-> aud, exp |-> exp,
     alg |-> alg, signer |-> signer]

Accepted(did) == [status |-> 200, did |-> did]
Rejected(status) == [status |-> status, did |-> "nobody"]

\* The document's #atproto key, as far as it can be read, is of the kind the
\* token's algorithm is for, and the token is signed with it.
SignatureChecks(jwt, doc) ==
    << <<doc # NoKey, 401>>, <<doc \in Key /\ doc.curve = jwt.alg, 401>>, <<doc = jwt.signer, 401>> >>

\* verify_jwt: the checks in the order of the code, each with what a request
\* that fails it is answered.
Checks(jwt) ==
    LET doc == IF jwt.iss \in Did THEN Directory[jwt.iss] ELSE Unreachable
    IN  << <<jwt.wellformed, 401>>,
           <<jwt.aud = Us, 403>>,
           <<Now <= (jwt.exp + Leeway) % Seconds, 401>>,
           <<jwt.iss \in Did, 401>>,
           <<doc # Unreachable, 502>> >> \o SignatureChecks(jwt, doc)

\* The first check that fails ends it.
VerifyJwt(jwt) ==
    LET checks == Checks(jwt)
        failing == {i \in DOMAIN checks : ~checks[i][1]}
    IN  IF failing = {} THEN Accepted(jwt.iss) ELSE Rejected(checks[Min(failing)][2])

\* from_request_parts: a token with two dots is a JWT and nothing else; any
\* other must be the configured one, which stands for the owner.
Authenticate(request, token) ==
    CASE request.kind = "jwt"    -> VerifyJwt(request)
      [] request.kind = "bearer" -> IF request.token = token THEN Accepted(Owner)
                                    ELSE Rejected(401)
      [] request.kind = "none"   -> Rejected(401)
=============================================================================
