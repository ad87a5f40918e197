------------------------------ MODULE Identity ------------------------------
(***************************************************************************)
(* Who a proof is attributed to: load_identities and verify_token of       *)
(* crates/uni-verify/src/identity.rs, and cmd_verify's choice between a    *)
(* token, --actor and the local user.  Pure operators.                     *)
(*                                                                         *)
(* The signature library is external: a token `signed` with a key is       *)
(* accepted by this key alone, and within the 60 seconds of leeway it has  *)
(* expired or not.  A token of no audience has the empty set of them.      *)
(***************************************************************************)
EXTENDS Integers, Sequences

CONSTANTS Refused, NoToken, NoFlag, NoKey, Absent

Sources == {"oidc", "entra", "spiffe"}
DefaultAlgorithms == {"RS256", "ES256"}

(***************************************************************************)
(* load_identities: one entry that cannot be used refuses them all.  A     *)
(* missing list is empty; without algorithms the defaults hold.  A table   *)
(* whose config.toml cannot be read is one without entries.                *)
(***************************************************************************)
UsableIdentity(entry) == entry.source \in Sources /\ entry.jwks_file # Absent

Loaded(entry) ==
  [entry EXCEPT !.algorithms = IF @ = {} THEN DefaultAlgorithms ELSE @]

LoadIdentities(table) ==
  IF \A issuer \in DOMAIN table : UsableIdentity(table[issuer])
  THEN [issuer \in DOMAIN table |-> Loaded(table[issuer])]
  ELSE Refused

(***************************************************************************)
(* The key a token names; without a kid, only a set of one key is usable.  *)
(* A JWKS file is a sequence of keys, Absent when it cannot be read.       *)
(***************************************************************************)
KeyFor(token, jwks) ==
  IF jwks = Absent THEN NoKey
  ELSE IF token.kid = Absent THEN (IF Len(jwks) = 1 THEN jwks[1].key ELSE NoKey)
  ELSE IF \E i \in DOMAIN jwks : jwks[i].kid = token.kid
  THEN LET first == CHOOSE i \in DOMAIN jwks : /\ jwks[i].kid = token.kid
                                               /\ \A n \in 1..i - 1 : jwks[n].kid # token.kid
       IN  jwks[first].key
  ELSE NoKey

\* A claim the validator is not told to require is only compared when it is
\* there: pinned audiences refuse another audience, not a token without one.
Aimed(token, p) ==
  p.audiences # {} /\ token.aud # {} => token.aud \cap p.audiences # {}

\* Mutant of Accepts: the issuer a token names is not compared.
AcceptsAnyIssuer(issuer, p, token, files) ==
  /\ token.alg \in p.algorithms
  /\ KeyFor(token, files[p.jwks_file]) \in {token.signed} \ {NoKey}
  /\ Aimed(token, p)
  /\ ~token.expired /\ token.sub # Absent

\* The validator: algorithm, key, issuer, audience, expiry; the token must
\* say its issuer, its expiry and a subject, which may be empty.
Accepts(issuer, p, token, files) ==
  /\ token.alg \in p.algorithms
  /\ KeyFor(token, files[p.jwks_file]) \in {token.signed} \ {NoKey}
  /\ token.iss = issuer
  /\ Aimed(token, p)
  /\ ~token.expired /\ token.sub # Absent

\* A spiffe id is the subject itself, the others are named with their issuer.
Verified(issuer, p, token) ==
  IF p.source = "spiffe"
  THEN IF token.spiffe
       THEN [id |-> token.sub, assurance |-> "verified"] ELSE Refused
  ELSE [id |-> p.source \o ":" \o issuer \o "#" \o token.sub, assurance |-> "verified"]

\* verify_token: at most one issuer accepts, it is the one the token names.
VerifyToken(token, identities, files) ==
  IF \E issuer \in DOMAIN identities : Accepts(issuer, identities[issuer], token, files)
  THEN LET issuer == CHOOSE i \in DOMAIN identities : Accepts(i, identities[i], token, files)
       IN  Verified(issuer, identities[issuer], token)
  ELSE Refused

Declared(flag) == [id |-> flag.id, assurance |-> "self-declared"]

(***************************************************************************)
(* cmd_verify: a token that is presented either names the actor or refuses *)
(* the run, and excludes --actor; without both the executor proves itself. *)
(***************************************************************************)
ActorOf(token, flag, executor, table, files) ==
  IF token # NoToken
  THEN IF flag # NoFlag \/ LoadIdentities(table) = Refused THEN Refused
       ELSE VerifyToken(token, LoadIdentities(table), files)
  ELSE IF flag # NoFlag THEN Declared(flag) ELSE executor
=============================================================================
