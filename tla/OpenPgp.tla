------------------------------- MODULE OpenPgp -------------------------------
(***************************************************************************)
(* The OpenPGP trust policy of janex-signature: decoding a transferable    *)
(* public key into its components, and authenticating a document with the  *)
(* pinned primary key or one of its signing subkeys.                       *)
(*                                                                         *)
(* A key is a record of its fingerprint `fp`, version, creation time,      *)
(* parameters and RSA modulus length.  A signature records the key that    *)
(* really made it (`by`) and the inputs it covers (`over`): its            *)
(* cryptographic check succeeds exactly for those.  Its hashed subpackets  *)
(* are fields, absent ones the empty set; `marks` holds the irregularities *)
(* the code looks for.  Times are whole seconds.                           *)
(***************************************************************************)
EXTENDS Integers, Sequences, FiniteSets, SequencesExt

-----------------------------------------------------------------------------
(* Algorithms and raw verification. *)

\* The combinations of key parameters and digest with an Algorithm.
Combinations ==
    {<<"rsa", "sha256">>, <<"rsa", "sha512">>, <<"p256", "sha256">>, <<"p384", "sha384">>,
     <<"ed25519", "sha256">>, <<"ed25519", "sha512">>}

\* key_algorithm and check_algorithms.
AlgorithmFails(key, hash) ==
    \/ key.version \notin {4, 6}
    \/ <<key.params, hash>> \notin Combinations
    \/ key.params = "rsa" /\ key.bits \notin 2048 .. 8192

\* The kind of the error of verify_raw, or "ok".
VerifyRaw(signature, input, key) ==
    IF key.params # signature.params \/ key.version # signature.version THEN "verification"
    ELSE IF AlgorithmFails(key, signature.hash) THEN "unsupported"
    ELSE IF signature.by = key.fp /\ signature.over = input THEN "ok"
    ELSE "verification"

-----------------------------------------------------------------------------
(* The document signature. *)

\* OpenPgpSignature::decode.
DocumentFails(document) ==
    \/ document.marks \cap {"trailing", "twice", "critical"} # {}
    \/ document.typ # "Binary"
    \/ document.issuer = {} \/ document.created = {}
    \/ \E fingerprint \in document.issuer : document.issuerVersion # document.version

Issuer(document) == CHOOSE fingerprint \in document.issuer : TRUE
Created(signature) == CHOOSE time \in signature.created : TRUE

\* validate_time: the end of the lifetime is exclusive, zero is no end.
TimeFails(document, now) ==
    \/ now < 0
    \/ now < Created(document)
    \/ document.lifetime # 0 /\ now >= Created(document) + document.lifetime

\* sign: one binary signature with the key's own version and the two hashed fields.
SignFails(key, hash, now) == AlgorithmFails(key, hash) \/ now < key.created

Sign(document, key, hash, now) ==
    [typ |-> "Binary", params |-> key.params, version |-> key.version, hash |-> hash,
     by |-> key.fp, over |-> <<document>>, issuer |-> {key.fp}, issuerVersion |-> key.version,
     created |-> {now}, lifetime |-> 0, marks |-> {}]

-----------------------------------------------------------------------------
(* Decoding a certificate: packets are grouped under the component they     *)
(* follow, and direct-key statements belong to the primary key.             *)

\* check_key.
KeyFails(key) == key.version \notin {4, 6} \/ ~key.canonical

NewCertificate(key) == [primary |-> key, direct |-> << >>, identities |-> << >>, subkeys |-> << >>]

Fingerprints(certificate) ==
    {certificate.primary.fp} \cup {s.key.fp : s \in ToSet(certificate.subkeys)}

SubkeyFails(certificate, key) ==
    \/ KeyFails(key)
    \/ key.version # certificate.primary.version
    \/ key.fp \in Fingerprints(certificate)

\* Where a signature packet goes.
Holder(signature, component) ==
    IF \/ signature.typ \in {"Key", "KeyRevocation"}
       \/ signature.typ = "CertRevocation" /\ component = "none"
    THEN "direct" ELSE component

Attached(components, signature) ==
    [components EXCEPT ![Len(components)].signatures = Append(@, signature)]

\* The loop state is the certificate so far, if any, the last component and the error.
DecodePacket(state, packet) ==
    LET certificate == state.certificate[1]
        Failed == [state EXCEPT !.fails = TRUE]
        Becomes(changed, component) ==
            [certificate |-> <<changed>>, component |-> component, fails |-> FALSE]
    IN
    IF state.fails \/ packet.tag = "Marker" THEN state
    ELSE IF state.certificate = << >> THEN
        IF packet.tag # "PublicKey" \/ KeyFails(packet.key) THEN Failed
        ELSE Becomes(NewCertificate(packet.key), "none")
    ELSE IF packet.tag \in {"UserId", "UserAttribute"} THEN
        Becomes([certificate EXCEPT !.identities =
                     Append(@, [input |-> packet.body, signatures |-> << >>])], "identities")
    ELSE IF packet.tag = "PublicSubkey" THEN
        IF SubkeyFails(certificate, packet.key) THEN Failed
        ELSE Becomes([certificate EXCEPT !.subkeys =
                          Append(@, [key |-> packet.key, signatures |-> << >>])], "subkeys")
    ELSE IF packet.tag = "Signature" /\ "malformed" \notin packet.signature.marks THEN
        LET holder == Holder(packet.signature, state.component) IN
        IF holder = "none" THEN Failed
        ELSE IF holder = "direct" THEN
            Becomes([certificate EXCEPT !.direct = Append(@, packet.signature)], state.component)
        ELSE Becomes([certificate EXCEPT ![holder] = Attached(@, packet.signature)],
                     state.component)
    ELSE Failed

\* KeyCertificate::decode: a sequence with the certificate, or empty on an error.
Decode(packets) ==
    LET end == FoldLeft(DecodePacket,
                        [certificate |-> << >>, component |-> "none", fails |-> FALSE], packets)
    IN IF end.fails THEN << >> ELSE end.certificate

-----------------------------------------------------------------------------
(* Certificate-forming signatures. *)

\* Whether KeySignature::verify ends in an error: an ambiguous issuer or an unsupported
\* key at once, a repeated, critical or delegating field once the signature is verified.
VerifyFails(signature, key, input) ==
    \/ "twoIssuers" \in signature.marks
    \/ /\ signature.issuer \subseteq {key.fp}
       /\ \/ VerifyRaw(signature, input, key) = "unsupported"
          \/ /\ VerifyRaw(signature, input, key) = "ok"
             /\ \/ signature.marks \cap {"twice", "revoker", "critical"} # {}
                \/ signature.created = {}

\* The policy of a verified statement: none for another issuer's, an invalid one, or one
\* that precedes its key.
PolicyOf(signature, key, input) ==
    IF /\ signature.issuer \subseteq {key.fp}
       /\ VerifyRaw(signature, input, key) = "ok"
       /\ Created(signature) >= key.created
    THEN {[created |-> Created(signature), lifetime |-> signature.lifetime,
           keyLifetime |-> signature.keyLifetime, flags |-> signature.flags]}
    ELSE {}

\* Policy::validity.
ValidityFails(policy, key, now) ==
    \/ key.created > now \/ policy.created > now \/ policy.created < key.created
    \/ policy.lifetime # 0 /\ now >= policy.created + policy.lifetime
    \/ policy.keyLifetime # 0 /\ now >= key.created + policy.keyLifetime

\* Policy::usage: flags restrict only when present.
UsageFails(policy, usage) == \E flags \in policy.flags : usage \notin flags

\* newer: the candidate unless the previous one is later; equal times must agree.
NewerFails(previous, candidate) ==
    /\ previous # << >>
    /\ previous[1].policy.created = candidate.policy.created
    /\ previous[1].policy # candidate.policy

Newer(previous, candidate) ==
    IF previous # << >> /\ previous[1].policy.created > candidate.policy.created
    THEN previous ELSE <<candidate>>

Certifications == {"CertGeneric", "CertPositive"}

IsStatement(signature, typ) ==
    signature.typ \in {typ} \cup (IF typ = "CertGeneric" THEN Certifications ELSE {})

\* One turn of select's loop.
SelectStep(signature, state, key, input, typ, revocation, now) ==
    IF \/ state.fails
       \/ /\ ~IsStatement(signature, typ)
          /\ signature.typ \notin {revocation, "CertRevocation"}
    THEN state
    ELSE IF VerifyFails(signature, key, input) THEN [state EXCEPT !.fails = TRUE]
    ELSE IF PolicyOf(signature, key, input) = {} THEN state
    ELSE LET policy == CHOOSE p \in PolicyOf(signature, key, input) : TRUE
             candidate == [signature |-> signature, policy |-> policy]
         IN
         IF signature.typ = revocation THEN [state EXCEPT !.fails = TRUE]
         ELSE IF policy.created > now THEN state
         ELSE IF signature.typ = "CertRevocation" THEN
             [state EXCEPT !.revoked = IF @ > policy.created THEN @ ELSE policy.created]
         ELSE IF NewerFails(state.latest, candidate) THEN [state EXCEPT !.fails = TRUE]
         ELSE [state EXCEPT !.latest = Newer(@, candidate)]

\* A revocation of the same second leaves the statement in force.
StandsLoosely(latest, revoked) ==
    IF latest # << >> /\ revoked > latest[1].policy.created THEN << >> ELSE latest

\* A certification revocation suppresses what is not later than itself.
Stands(latest, revoked) ==
    IF latest # << >> /\ revoked >= latest[1].policy.created THEN << >> ELSE latest

Select(signatures, key, input, typ, revocation, now) ==
    LET state[n \in 0 .. Len(signatures)] ==
            IF n = 0 THEN [latest |-> << >>, revoked |-> -1, fails |-> FALSE]
            ELSE SelectStep(signatures[n], state[n - 1], key, input, typ, revocation, now)
        end == state[Len(signatures)]
    IN [fails |-> end.fails, latest |-> Stands(end.latest, end.revoked)]

-----------------------------------------------------------------------------
(* Authentication. *)

\* One turn of the loop over the identities, given what select chose for one.
AddIdentity(state, chosen) ==
    IF state.fails \/ chosen.fails THEN [state EXCEPT !.fails = TRUE]
    ELSE IF chosen.latest = << >> THEN state
    ELSE IF NewerFails(state.latest, chosen.latest[1]) THEN [state EXCEPT !.fails = TRUE]
    ELSE [state EXCEPT !.latest = Newer(@, chosen.latest[1])]

\* primary_policy: of version-4 keys the identities' certifications count as well.
PrimaryPolicy(certificate, now) ==
    LET primary == certificate.primary
        direct == Select(certificate.direct, primary, <<primary.fp>>, "Key", "KeyRevocation", now)
        Of(identity) == Select(identity.signatures, primary, <<primary.fp, identity.input>>,
                               "CertGeneric", "none", now)
        state[n \in 0 .. Len(certificate.identities)] ==
            IF n = 0 THEN direct ELSE AddIdentity(state[n - 1], Of(certificate.identities[n]))
        end == IF primary.version = 4 THEN state[Len(certificate.identities)] ELSE direct
    IN IF end.fails \/ end.latest = << >> THEN {}
       ELSE {p \in {end.latest[1].policy} : ~ValidityFails(p, primary, now)}

\* The embedded reverse bindings of a binding: an error, or whether one holds now.
ReverseFails(binding, key, input) ==
    \E reverse \in ToSet(binding.embedded) :
        \/ "malformed" \in reverse.marks
        \/ reverse.typ = "KeyBinding" /\ VerifyFails(reverse, key, input)

ReverseHolds(binding, key, input, now) ==
    \E reverse \in ToSet(binding.embedded) :
        /\ reverse.typ = "KeyBinding"
        /\ \E policy \in PolicyOf(reverse, key, input) : ~ValidityFails(policy, key, now)

\* validate_signer.
SignerFails(certificate, fingerprint, now) ==
    LET primary == certificate.primary
        policy == PrimaryPolicy(certificate, now)
        found == {k \in DOMAIN certificate.subkeys : certificate.subkeys[k].key.fp = fingerprint}
        subkey == certificate.subkeys[CHOOSE k \in found : \A j \in found : k <= j]
        input == <<primary.fp, subkey.key.fp>>
        bound == Select(subkey.signatures, primary, input, "SubkeyBinding",
                        "SubkeyRevocation", now)
        binding == bound.latest[1]
    IN
    \/ now < 0
    \/ policy = {}
    \/ \E p \in policy :
          IF fingerprint = primary.fp THEN UsageFails(p, "sign")
          ELSE \/ UsageFails(p, "certify")
               \/ found = {}
               \/ bound.fails \/ bound.latest = << >>
               \/ ValidityFails(binding.policy, subkey.key, now)
               \/ UsageFails(binding.policy, "sign")
               \/ ReverseFails(binding.signature, subkey.key, input)
               \/ ~ReverseHolds(binding.signature, subkey.key, input, now)

\* authenticate: the proof, the document's own time, then the signer both when the
\* document was signed and now.
AuthenticateFails(certificate, document, input, now) ==
    LET issuer == Issuer(document)
        keys == {certificate.primary} \cup {s.key : s \in ToSet(certificate.subkeys)}
    IN \/ issuer \notin Fingerprints(certificate)
       \/ \E key \in keys : key.fp = issuer /\ VerifyRaw(document, <<input>>, key) # "ok"
       \/ TimeFails(document, now)
       \/ SignerFails(certificate, issuer, Created(document))
       \/ SignerFails(certificate, issuer, now)

-----------------------------------------------------------------------------
(* Secret keys.  A secret packet adds to the key what its material is the     *)
(* secret of, the password and the protection, and the place of its          *)
(* fingerprint among the texts of fingerprints.                              *)

SecretTags == {"SecretKey", "SecretSubkey"}

\* What decode refuses of one packet: its encoding, and before it an unencrypted RSA
\* coefficient without an inverse (check_rsa_coefficient).
SecretPacketFails(packet) ==
    /\ packet.tag \in SecretTags
    /\ \/ ~packet.key.canonical
       \/ packet.key.params = "rsa" /\ packet.protection.kind = "none" /\ ~packet.coefficient

PublicPacket(packet) ==
    CASE packet.tag = "SecretKey"    -> [tag |-> "PublicKey", key |-> packet.key]
      [] packet.tag = "SecretSubkey" -> [tag |-> "PublicSubkey", key |-> packet.key]
      [] OTHER                       -> packet

\* check_protection: AES with a salted digest, or Argon2 within its limits under AEAD.
ProtectionFails(protection, version) ==
    /\ protection.kind # "none"
    /\ \/ protection.kind \notin {"cfb", "aead"}
       \/ protection.cipher # "aes"
       \/ CASE protection.s2k \in {"salted", "iterated"} ->
                 protection.hash \notin {"sha256", "sha384", "sha512"}
                                        \cup (IF version = 4 THEN {"sha1"} ELSE {})
            [] protection.s2k = "argon2" ->
                 \/ protection.kind # "aead"
                 \/ protection.passes \notin 1 .. 10 \/ protection.lanes \notin 1 .. 16
                 \/ 2 ^ protection.memory < 8 * protection.lanes
                 \/ 2 ^ protection.memory > 262144
                 \/ 2 ^ protection.memory * protection.passes > 1048576
            [] OTHER -> TRUE

\* Faulty variant: older subkeys come first.
PreferredToOld(a, b) ==
    IF a.tag # b.tag THEN a.tag = "SecretSubkey"
    ELSE IF a.key.created # b.key.created THEN a.key.created < b.key.created
    ELSE a.place < b.place

\* Subkeys come before the primary key, newer ones first, then by fingerprint.
Preferred(a, b) ==
    IF a.tag # b.tag THEN a.tag = "SecretSubkey"
    ELSE IF a.key.created # b.key.created THEN a.key.created > b.key.created
    ELSE a.place < b.place

\* The digest of a requested combination, or the one of the key.
DigestFor(key, requested) ==
    IF requested = << >> THEN (IF key.params = "p384" THEN "sha384" ELSE "sha256")
    ELSE requested[1][2]

CandidateFails(certificate, key, requested, now) ==
    \/ SignerFails(certificate, key.fp, now)
    \/ AlgorithmFails(key, DigestFor(key, requested))
    \/ requested # << >> /\ requested[1][1] # key.params

\* OpenPgpSigner::decode: the first candidate is loaded or, with a protection that is not
\* supported, refused; the others are not tried then.
LoadSigner(packets, fingerprint, requested, now) ==
    LET certificate == Decode([i \in DOMAIN packets |-> PublicPacket(packets[i])])
        secret == SelectSeq(packets, LAMBDA p : p.tag \in SecretTags)
        candidates == SelectSeq(SortSeq(secret, Preferred), LAMBDA p :
                          /\ fingerprint \subseteq {p.key.fp}
                          /\ ~CandidateFails(certificate[1], p.key, requested, now))
        chosen == candidates[1]
    IN  IF (\E p \in ToSet(packets) : SecretPacketFails(p)) \/ certificate = << >> THEN << >>
        ELSE IF candidates = << >> THEN << >>
        ELSE IF ProtectionFails(chosen.protection, chosen.key.version) THEN << >>
        ELSE <<[key |-> chosen.key, secret |-> chosen.secret, password |-> chosen.password,
                locked |-> chosen.protection.kind # "none", certificate |-> certificate[1],
                hash |-> DigestFor(chosen.key, requested)]>>

\* checked_signature: the signature is read and verified again.
CheckedSignature(signer, input, now) ==
    LET made == [Sign(input, signer.key, signer.hash, now) EXCEPT !.by = signer.secret]
    IN  IF \/ SignFails(signer.key, signer.hash, now) \/ DocumentFails(made)
           \/ VerifyRaw(made, <<input>>, signer.key) # "ok"
        THEN << >> ELSE <<made>>

\* unlock: the password, then a signature in the second of the key's creation.
Unlock(signer, password) ==
    IF \/ signer.locked /\ signer.password # password
       \/ CheckedSignature(signer, "consistency check", signer.key.created) = << >>
    THEN << >> ELSE <<[signer EXCEPT !.locked = FALSE]>>

\* OpenPgpSigner::sign.
SignWith(signer, input, now) ==
    IF signer.locked \/ SignerFails(signer.certificate, signer.key.fp, now) THEN << >>
    ELSE CheckedSignature(signer, input, now)

=============================================================================
