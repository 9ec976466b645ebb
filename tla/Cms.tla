--------------------------------- MODULE Cms ---------------------------------
(***************************************************************************)
(* Detached CMS signatures of janex-signature: signing, verification       *)
(* against explicitly pinned certificates, and offline revocation lists.   *)
(*                                                                         *)
(* An algorithm identifier is its oid and its parameters ("absent",        *)
(* "null", "other").  A signature value records the key that made it, the  *)
(* combination it used and the value it covers, so that the cryptographic  *)
(* check is equality with all three; a digest is the digested value        *)
(* together with its function.  Optional fields are sets of at most one    *)
(* value.  A key is [id, kind, bits], kind one of "rsa", "p256", "p384".   *)
(***************************************************************************)
EXTENDS Integers, Sequences, FiniteSets, SequencesExt

Identifier(oid, parameters) == [oid |-> oid, parameters |-> parameters]

\* null_or_absent.
NullOrAbsent(algorithm) == algorithm.parameters \in {"null", "absent"}

\* same_algorithm: NULL and absence agree for the digests and the RSA identifiers only.
SameAlgorithm(a, b) ==
    \/ a = b
    \/ /\ a.oid = b.oid
       /\ a.oid \in {"sha256", "sha384", "sha512", "rsa", "rsaSha256", "rsaSha512"}
       /\ NullOrAbsent(a) /\ NullOrAbsent(b)

-----------------------------------------------------------------------------
(* Algorithm: the supported combinations. *)

Algorithms == {"RsaSha256", "RsaSha512", "EcdsaP256Sha256", "EcdsaP384Sha384"}

DigestName(algorithm) ==
    CASE algorithm \in {"RsaSha256", "EcdsaP256Sha256"} -> "sha256"
      [] algorithm = "RsaSha512" -> "sha512"
      [] algorithm = "EcdsaP384Sha384" -> "sha384"

DigestAlgorithm(algorithm) == Identifier(DigestName(algorithm), "absent")

SignatureAlgorithm(algorithm) ==
    CASE algorithm \in {"RsaSha256", "RsaSha512"} -> Identifier("rsa", "null")
      [] algorithm = "EcdsaP256Sha256" -> Identifier("ecdsaSha256", "absent")
      [] algorithm = "EcdsaP384Sha384" -> Identifier("ecdsaSha384", "absent")

KindOf(algorithm) ==
    CASE algorithm \in {"RsaSha256", "RsaSha512"} -> "rsa"
      [] algorithm = "EcdsaP256Sha256" -> "p256"
      [] algorithm = "EcdsaP384Sha384" -> "p384"

\* public_key: the supported kinds, and the strength of RSA moduli.
PublicKeyFails(certificate) ==
    \/ certificate.key.kind \notin {"rsa", "p256", "p384"}
    \/ certificate.key.kind = "rsa" /\ certificate.key.bits \notin 2048 .. 8192

\* signing_algorithm: the combination the identifiers name for this key, if any.
SigningAlgorithm(digest, signature, key) ==
    {algorithm \in Algorithms :
        /\ NullOrAbsent(digest)
        /\ digest.oid = DigestName(algorithm)
        /\ key.kind = KindOf(algorithm)
        /\ IF key.kind = "rsa"
           THEN /\ NullOrAbsent(signature)
                /\ signature.oid \in {"rsa", IF digest.oid = "sha256" THEN "rsaSha256" ELSE "rsaSha512"}
           ELSE signature = SignatureAlgorithm(algorithm)}

\* verify_bytes.
VerifyBytes(key, algorithm, input, signature) ==
    /\ key.kind = KindOf(algorithm)
    /\ signature = [by |-> key.id, algorithm |-> algorithm, over |-> input]

-----------------------------------------------------------------------------
(* Certificates. *)

Oids(extensions) == {extensions[i].oid : i \in DOMAIN extensions}
Repeated(extensions) == Cardinality(Oids(extensions)) # Len(extensions)

\* A critical extension other than key usage, basic constraints, extended key usage.
UnknownCritical(extensions) ==
    \E e \in ToSet(extensions) : e.critical /\ e.oid \notin {"keyUsage", "basic", "extended"}

OutsideValidity(certificate, now) == now < certificate.from \/ now > certificate.to

\* SignerCertificate::validate.
ValidateFails(certificate, now) ==
    \/ OutsideValidity(certificate, now)
    \/ Repeated(certificate.extensions) \/ UnknownCritical(certificate.extensions)
    \/ \E usage \in certificate.keyUsage : "digitalSignature" \notin usage
    \/ \E usage \in certificate.extendedUsage : usage \cap {"codeSigning", "any"} = {}
    \/ PublicKeyFails(certificate)

-----------------------------------------------------------------------------
(* Signing. *)

\* CmsSigner::from_pkcs8 once the key is decrypted: the requested combination must fit
\* the secret key, and the secret key its certificate.
SignerMismatch(certificate, key, algorithm) ==
    \/ key.kind # KindOf(algorithm)
    \/ PublicKeyFails(certificate)
    \/ key # certificate.key

Attribute(oid, value) == [oid |-> oid, values |-> <<value>>]

Protection(algorithm) ==
    [digest |-> DigestAlgorithm(algorithm), signature |-> {SignatureAlgorithm(algorithm)}, mac |-> {}]

SignedAttributes(input, algorithm) ==
    <<Attribute("contentType", [content |-> "data"]),
      Attribute("messageDigest", [function |-> DigestName(algorithm), of |-> input]),
      Attribute("protection", Protection(algorithm))>>

\* sign_info for a signer [certificate, algorithm].
SignInfo(signer, input) ==
    LET attributes == SignedAttributes(input, signer.algorithm) IN
    [version |-> 1,
     sid |-> [serialOf |-> signer.certificate.issuer, serial |-> signer.certificate.serial],
     digest |-> DigestAlgorithm(signer.algorithm),
     algorithm |-> SignatureAlgorithm(signer.algorithm),
     attributes |-> {attributes},
     signature |-> [by |-> signer.certificate.key.id, algorithm |-> signer.algorithm,
                    over |-> attributes]]

\* sign: distinct certificates, each valid now.
SignFails(signers, now) ==
    \/ signers = << >>
    \/ \E i, j \in DOMAIN signers :
          i < j /\ signers[i].certificate.fingerprint = signers[j].certificate.fingerprint
    \/ \E s \in ToSet(signers) : ValidateFails(s.certificate, now)

Sign(signers, input) ==
    [content |-> "data", detached |-> TRUE, version |-> 1,
     digests |-> {DigestAlgorithm(s.algorithm) : s \in ToSet(signers)},
     certificates |-> [i \in DOMAIN signers |-> signers[i].certificate],
     crls |-> << >>, other |-> FALSE,
     signers |-> [i \in DOMAIN signers |-> SignInfo(signers[i], input)]]

-----------------------------------------------------------------------------
(* Verification. *)

ByKeyIdentifier(signer) == "keyId" \in DOMAIN signer.sid

\* validate_versions: a signer's version follows its identifier, and the whole one is
\* the largest of them, or 5 with foreign certificate or revocation choices.
VersionsFail(data) ==
    LET expected(signer) == IF ByKeyIdentifier(signer) THEN 3 ELSE 1
        versions == {expected(s) : s \in ToSet(data.signers)} \cup {IF data.other THEN 5 ELSE 1}
    IN \/ \E s \in ToSet(data.signers) : s.version # expected(s)
       \/ data.version # CHOOSE v \in versions : \A w \in versions : w <= v

\* CmsSignature::decode after the DER is read.
DecodeFails(data) ==
    \/ data.content # "data" \/ ~data.detached
    \/ data.signers = << >>
    \/ VersionsFail(data)

MatchesCertificate(signer, certificate) ==
    IF ByKeyIdentifier(signer) THEN signer.sid.keyId \in certificate.keyId
    ELSE signer.sid = [serialOf |-> certificate.issuer, serial |-> certificate.serial]

\* required_attribute: one occurrence with one value.
RequiredAttribute(attributes, oid) ==
    LET found == {i \in DOMAIN attributes : attributes[i].oid = oid}
    IN  {attributes[i].values[1] : i \in {i \in found : found = {i} /\ Len(attributes[i].values) = 1}}

\* Accepts a SignerInfo whose protection says nothing of its signature algorithm.
ProtectionAbsentAgrees(protection, signer) ==
    /\ SameAlgorithm(protection.digest, signer.digest)
    /\ protection.mac = {}
    /\ \A a \in protection.signature : SameAlgorithm(a, signer.algorithm)

\* The protected algorithms are those the SignerInfo declares.
ProtectionAgrees(protection, signer) ==
    /\ SameAlgorithm(protection.digest, signer.digest)
    /\ protection.mac = {}
    /\ \E a \in protection.signature : SameAlgorithm(a, signer.algorithm)

\* verify_signer: the combination that verified, or nothing.
VerifySigner(data, signer, input, certificate) ==
    {algorithm \in SigningAlgorithm(signer.digest, signer.algorithm, certificate.key) :
        \E attributes \in signer.attributes :
           /\ RequiredAttribute(attributes, "contentType") = {[content |-> "data"]}
           /\ \E p \in RequiredAttribute(attributes, "protection") : ProtectionAgrees(p, signer)
           /\ \E d \in data.digests : SameAlgorithm(d, signer.digest)
           /\ ~PublicKeyFails(certificate)
           /\ RequiredAttribute(attributes, "messageDigest")
                = {[function |-> DigestName(algorithm), of |-> input]}
           /\ VerifyBytes(certificate.key, algorithm, attributes, signer.signature)}

\* verify_signature: one matching signer is enough, whatever the others are.
VerifySignature(data, input, certificate) ==
    UNION {VerifySigner(data, s, input, certificate) :
              s \in {s \in ToSet(data.signers) : MatchesCertificate(s, certificate)}}

\* verify_pinned.
PinnedFails(data, input, required, now) ==
    \/ required = << >>
    \/ \E i, j \in DOMAIN required : i < j /\ required[i].fingerprint = required[j].fingerprint
    \/ \E c \in ToSet(required) :
          ValidateFails(c, now) \/ VerifySignature(data, input, c) = {}

-----------------------------------------------------------------------------
(* Revocation lists. *)

\* algorithm: certificate and list signatures name the digest in the identifier itself.
ListAlgorithm(identifier) ==
    {algorithm \in Algorithms :
        \/ identifier.oid = "rsaSha256" /\ algorithm = "RsaSha256" /\ NullOrAbsent(identifier)
        \/ identifier.oid = "rsaSha512" /\ algorithm = "RsaSha512" /\ NullOrAbsent(identifier)
        \/ algorithm \in {"EcdsaP256Sha256", "EcdsaP384Sha384"}
           /\ identifier = SignatureAlgorithm(algorithm)}

\* The protected part of a certificate or a list.
Body(signed) == [field \in DOMAIN signed \ {"outer", "signature"} |-> signed[field]]

\* The two identifiers of a certificate or a list agree and its signature is the key's.
SignedBy(key, signed) ==
    /\ SameAlgorithm(signed.outer, signed.inner)
    /\ \E a \in ListAlgorithm(signed.outer) : VerifyBytes(key, a, Body(signed), signed.signature)

\* verify_issuer: the issuer's key made the pinned certificate and the list.
IssuerFails(certificate, issuer, list, now) ==
    \/ PublicKeyFails(issuer)
    \/ ~SignedBy(issuer.key, certificate)
    \/ OutsideValidity(issuer, now)
    \/ Repeated(issuer.extensions) \/ UnknownCritical(issuer.extensions)
    \/ \E usage \in issuer.keyUsage : "crlSign" \notin usage
    \/ ~SignedBy(issuer.key, list)

\* extensions: anything critical, scoped, or a removal makes a list unsupported.
ExtensionsFail(extensions) ==
    \/ Repeated(extensions)
    \/ \E e \in ToSet(extensions) :
          e.critical \/ e.oid \in {"delta", "partitioned", "indirect", "removeFromCRL"}

\* A revocation dated later than now does not count yet.
Revokes(entry, certificate, now) == entry.serial = certificate.serial /\ entry.date <= now

\* validate_list.
ListFails(list, certificate, now) ==
    \/ list.version # 2
    \/ list.next = {}
    \/ now < list.this \/ \E next \in list.next : now > next
    \/ ExtensionsFail(list.extensions)
    \/ \E i, j \in DOMAIN list.entries : i < j /\ list.entries[i].serial = list.entries[j].serial
    \/ \E e \in ToSet(list.entries) : ExtensionsFail(e.extensions) \/ Revokes(e, certificate, now)

\* The lists, supplied or embedded, that the issuer of the certificate is named in.
MatchingLists(data, certificate, supplied) ==
    {l \in ToSet(supplied) \cup ToSet(data.crls) : l.issuer = certificate.issuer}

\* Skips a list nobody is found to authenticate.
RevocationFailsOnlyWhenAuthentic(data, certificate, issuers, supplied, now) ==
    LET candidates == {certificate} \cup ToSet(issuers) \cup ToSet(data.certificates) IN
    \E list \in MatchingLists(data, certificate, supplied) :
       /\ \E issuer \in candidates :
             issuer.subject = list.issuer /\ ~IssuerFails(certificate, issuer, list, now)
       /\ ListFails(list, certificate, now)

\* revocation::check: every matching list is authenticated by one of the candidates, the
\* certificate itself included, and clears the certificate.
RevocationFails(data, certificate, issuers, supplied, now) ==
    LET candidates == {certificate} \cup ToSet(issuers) \cup ToSet(data.certificates) IN
    \E list \in MatchingLists(data, certificate, supplied) :
       \/ \A issuer \in candidates :
             issuer.subject # list.issuer \/ IssuerFails(certificate, issuer, list, now)
       \/ ListFails(list, certificate, now)

\* CmsSignature::authenticate.
AuthenticateFails(data, input, required, issuers, supplied, now) ==
    \/ PinnedFails(data, input, required, now)
    \/ \E c \in ToSet(required) : RevocationFails(data, c, issuers, supplied, now)
=============================================================================
