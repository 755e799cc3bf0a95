------------------------------- MODULE Signing -------------------------------
(***************************************************************************)
(* The storage credential (internal/cred, internal/jwks): the key set and  *)
(* its rotation, minting with the jti recorded for the session, revocation *)
(* by session, and verification against the published keys.                *)
(***************************************************************************)
EXTENDS Integers, FiniteSets

CONSTANTS Holders,    \* sessions that tokens are minted for
          Benches,    \* deployments: the mounted key, the scope minted, rotation
          TokenTTL,   \* StorageTTL, in ticks
          Overlap,    \* overlapWindow, in ticks
          KeyAge,     \* maxKeyAge, in ticks
          Horizon     \* bound: the clock runs to here

ASSUME SigningAssumption == /\ {TokenTTL, Overlap, KeyAge, Horizon} \subseteq Nat
                            /\ TokenTTL > 0

VARIABLES bench,    \* the deployment
          hour,     \* the clock
          active,   \* the active key: number and birth
          previous, \* the superseded key, or none
          tokens,   \* tokens minted and not yet expired
          bind,     \* Revoker.bind: the last token recorded for a session
          dead,     \* Revoker.dead
          doc,      \* the kids in the JWKS artifact
          gone,     \* history: sessions torn down since their last mint
          up        \* the signer is loaded

signVars == <<bench, hour, active, previous, tokens, bind, dead, doc, gone, up>>

Hours == 0 .. Horizon
Keys == [kid : 0 .. Horizon + 1, born : Hours]
Tokens == [who : Holders, kid : 0 .. Horizon + 1, at : Hours, n : 0 .. 3]
NoKey == [kid |-> 0, born |-> 0]
NoToken == [who |-> "nobody", kid |-> 0, at |-> 0, n |-> 0]

SignType == /\ bench \in Benches /\ hour \in Hours
            /\ active \in Keys /\ previous \in Keys
            /\ tokens \subseteq Tokens /\ dead \subseteq Tokens
            /\ bind \in [Holders -> Tokens \cup {NoToken}]
            /\ doc \subseteq 0 .. Horizon + 1
            /\ gone \subseteq Holders
            /\ up \in BOOLEAN

\* parsePKCS8Signer: the bytes are a key of the configured algorithm.
ParsePKCS8Signer(key, alg) == key = alg

\* LoadSignerFromMount: a supported algorithm, both pins set and a readable key
\* of that algorithm, or no signer and no boot.
Loadable(b) == /\ b.alg \in {"eddsa", "es256"}
               /\ b.pinned
               /\ ParsePKCS8Signer(b.key, b.alg)

\* The refusals of MintStorageJWT: a filesystem, a known intent, and a scope
\* where the content is downloadable.
Mintable(r) == /\ r.filesystem
               /\ r.intent \in {"read", "write", "preview"}
               /\ r.downloadable => r.scoped

\* KeySet.PublicKeys: the active key, and the previous one within the overlap
\* of the instant it was activated.
PublicKeys == {active.kid} \cup
              (IF previous # NoKey /\ hour - previous.born <= Overlap THEN {previous.kid} ELSE {})

\* toJWK and publicKeyFromJWK: the key type and curve an algorithm is rendered
\* as, and the family of key a verifier rebuilds from them.
ToJWK(alg) == CASE alg = "eddsa" -> <<"OKP", "Ed25519">> [] alg = "es256" -> <<"EC", "P-256">>
PublicKeyFromJWK(jwk) == CASE jwk = <<"OKP", "Ed25519">> -> "eddsa" [] jwk = <<"EC", "P-256">> -> "es256"

\* Publish: every key of the set, or an error and none at all.
Publish(kids) == IF bench.alg \in {"eddsa", "es256"} THEN kids ELSE {}

\* Verifier.Verify over a published set: keyFunc finds the kid, the rebuilt key
\* is of the family that signed, the token is unexpired, its jti not revoked.
Verify(t, set) == /\ t.kid \in set
                  /\ PublicKeyFromJWK(ToJWK(bench.alg)) = bench.key
                  /\ hour < t.at + TokenTTL
                  /\ t \notin dead

Verifies(t) == Verify(t, Publish(PublicKeys))

\* kidFor: the thumbprint of the mounted key, the same at every boot.
KidFor == 1

\* renderJWKSArtifact at boot: WriteArtifact refuses an empty set.
WriteArtifact(kids) == Publish(kids)

\* buildSigner: the signer over the mounted key, an empty Revoker, the artifact.
SignInit == /\ bench \in Benches
            /\ hour = 0
            /\ up = Loadable(bench)
            /\ active = [kid |-> KidFor, born |-> 0]
            /\ previous = NoKey
            /\ doc = IF up THEN WriteArtifact({KidFor}) ELSE {}
            /\ tokens = {} /\ dead = {} /\ gone = {}
            /\ bind = [h \in Holders |-> NoToken]

Live(h) == {t \in tokens : t.who = h /\ Verifies(t)}

\* MintStorageJWT for a session about to be provisioned, once in its life: the
\* active key signs (mintKey, sign), and the jti (deriveJTI: another at every
\* instant) is recorded for the session over any earlier one (Record).
MintStorageJWT(h) ==
    LET t == [who |-> h, kid |-> active.kid, at |-> hour,
              n |-> Cardinality({u \in tokens : u.who = h /\ u.at = hour})] IN
    /\ up /\ Mintable(bench.req)
    /\ bind[h] = NoToken \/ h \in gone
    /\ t.n < 2
    /\ tokens' = tokens \cup {t}
    /\ bind' = [bind EXCEPT ![h] = t]
    /\ gone' = gone \ {h}
    /\ UNCHANGED <<bench, hour, active, previous, dead, doc, up>>

\* Mutant of Revoke: the binding is cleared and the jti is not marked.
RevokeUnbinds(h) ==
    /\ up
    /\ bind' = [bind EXCEPT ![h] = NoToken]
    /\ gone' = gone \cup {h}
    /\ UNCHANGED <<bench, hour, active, previous, tokens, dead, doc, up>>

\* Revoker.Revoke: the recorded jti is marked; nothing bound is an error.
Revoke(h) ==
    /\ up
    /\ dead' = IF bind[h] = NoToken THEN dead ELSE dead \cup {bind[h]}
    /\ gone' = IF bind[h] = NoToken THEN gone ELSE gone \cup {h}
    /\ UNCHANGED <<bench, hour, active, previous, tokens, bind, doc, up>>

\* KeySet.NeedsRotation.
NeedsRotation == hour - active.born >= KeyAge

\* KeySet.Rotate, called when the poll says so or earlier by an operator.
Rotate ==
    /\ up
    /\ NeedsRotation \/ bench.early
    /\ active.kid <= Horizon
    /\ previous' = active
    /\ active' = [kid |-> active.kid + 1, born |-> hour]
    /\ UNCHANGED <<bench, hour, tokens, bind, dead, doc, gone, up>>

\* A restart builds an empty Revoker over the same mounted key and renders the
\* artifact again.
Restart ==
    /\ up /\ bench.restarts
    /\ bind' = [h \in Holders |-> NoToken]
    /\ dead' = {}
    /\ active' = [kid |-> KidFor, born |-> hour] /\ previous' = NoKey
    /\ doc' = WriteArtifact({KidFor})
    /\ gone' = {}
    /\ UNCHANGED <<bench, hour, tokens, up>>

\* Expired tokens leave the model's history; the Revoker keeps their jtis.
HourPasses == /\ hour < Horizon /\ hour' = hour + 1
              /\ tokens' = {t \in tokens : hour' < t.at + TokenTTL}
              /\ dead' = dead \cap (tokens' \cup {bind[h] : h \in Holders})
              /\ UNCHANGED <<bench, active, previous, bind, doc, gone, up>>

SignNext == HourPasses \/ Rotate \/ Restart \/ \E h \in Holders : MintStorageJWT(h) \/ Revoke(h)

-----------------------------------------------------------------------------
\* A session that was torn down holds no token that still verifies: neither a
\* key rotation nor a later mint for the same session brings one back.  The
\* Revoker is in memory, so this is promised within one life of the daemon.
RevokedRefused == ~bench.restarts => \A h \in gone : Live(h) = {}

\* A rotation early in a key's life leaves the tokens minted before it valid: a
\* token whose whole lifetime fits the overlap of its key's activation verifies
\* until it expires or is revoked.
EarlyCutover ==
    \A t \in tokens \ dead :
        \A k \in {active, previous} :
            t.kid = k.kid /\ t.at + TokenTTL <= k.born + Overlap + 1 => Verifies(t)

\* A token is judged by its session (Verify, Revoke, Rotate): neither does a
\* rotation bring back a revoked one, nor does an early rotation refuse a live one.
TokensJudged == RevokedRefused /\ EarlyCutover

=============================================================================
