--------------------------- MODULE SignatureCases ---------------------------
(***************************************************************************)
(* OpenPGP certificates put together from a few statements in every order,  *)
(* and CMS envelopes, honest and altered, with revocation lists.            *)
(***************************************************************************)
EXTENDS Integers, Sequences, FiniteSets, SequencesExt

OP == INSTANCE OpenPgp
C == INSTANCE Cms

-----------------------------------------------------------------------------
(* OpenPGP: a primary key "p" and a subkey "s" made in second 1, a foreign    *)
(* key "x"; statements of seconds 0 to 3.                                    *)

Key(fp, version) == [fp |-> fp, version |-> version, created |-> 1, params |-> "ed25519",
                     bits |-> 0, canonical |-> TRUE]

Statement(typ, by, over, created) ==
    [typ |-> typ, params |-> "ed25519", version |-> 4, hash |-> "sha256", by |-> by,
     over |-> over, issuer |-> {by}, created |-> {created}, lifetime |-> 0, keyLifetime |-> 0,
     flags |-> {}, marks |-> {}, embedded |-> << >>]

Direct ==
    {[Statement("Key", "p", <<"p">>, t) EXCEPT !.flags = f] : t \in {1, 2}, f \in {{}, {{"certify"}}}}
    \cup {[Statement("Key", "p", <<"p">>, 2) EXCEPT !.lifetime = 1],
          [Statement("Key", "x", <<"p">>, 2) EXCEPT !.flags = {{"sign"}}],
          Statement("KeyRevocation", "p", <<"p">>, 3), Statement("KeyRevocation", "x", <<"p">>, 1),
          [Statement("Key", "p", <<"p">>, 1) EXCEPT !.marks = {"revoker"}]}

OnIdentity ==
    {[Statement("CertPositive", "p", <<"p", "u">>, t) EXCEPT !.keyLifetime = k] : t \in {1, 2}, k \in {0, 2}}
    \cup {Statement("CertRevocation", "p", <<"p", "u">>, 2), Statement("CertRevocation", "x", <<"p", "u">>, 2),
          Statement("CertGeneric", "x", <<"p", "u">>, 2)}

CrossSigned(by, created) == Statement("KeyBinding", by, <<"p", "s">>, created)

OnSubkey ==
    {[Statement("SubkeyBinding", "p", <<"p", "s">>, t) EXCEPT !.embedded = e, !.flags = f] :
        t \in {1, 2}, f \in {{}, {{"certify"}}},
        e \in {<<CrossSigned("s", 1)>>, <<CrossSigned("p", 1), CrossSigned("s", 2)>>, <<CrossSigned("p", 1)>>}}
    \cup {Statement("SubkeyBinding", "x", <<"p", "s">>, 2), Statement("SubkeyRevocation", "p", <<"p", "s">>, 3),
          Statement("CertRevocation", "p", <<"p", "s">>, 1)}

UpTo(n, S) == UNION {[1 .. k -> S] : k \in 0 .. n}
Packets(signatures) == [i \in DOMAIN signatures |-> [tag |-> "Signature", signature |-> signatures[i]]]

Certificate(version, direct, identity, subkey) ==
    <<[tag |-> "PublicKey", key |-> Key("p", version)]>> \o Packets(direct)
    \o <<[tag |-> "UserId", body |-> "u"]>> \o Packets(identity)
    \o <<[tag |-> "PublicSubkey", key |-> Key("s", version)]>> \o Packets(subkey)

\* A document as it was signed, or changed on its way.
Documents == {"signed", "trailing", "critical", "text", "anonymous", "undated", "misattributed",
              "forged", "short", "weak"}

Document(c) ==
    LET made == OP!Sign("document", Key(c.signer, 4), IF c.document = "weak" THEN "sha1" ELSE "sha256", c.created)
    IN  CASE c.document \in {"trailing", "critical"} -> [made EXCEPT !.marks = {c.document}]
          [] c.document = "text" -> [made EXCEPT !.typ = "Text"]
          [] c.document = "anonymous" -> [made EXCEPT !.issuer = {}]
          [] c.document = "undated" -> [made EXCEPT !.created = {}]
          [] c.document = "misattributed" -> [made EXCEPT !.by = "x"]
          [] c.document = "forged" -> [made EXCEPT !.over = <<"other">>]
          [] c.document = "short" -> [made EXCEPT !.lifetime = 1]
          [] OTHER -> made

PgpCases ==
    {[call |-> "pgp", direct |-> d, identity |-> i, subkey |-> << >>, signer |-> "p",
      created |-> t[1], now |-> t[2], document |-> "signed"] :
        d \in UpTo(2, Direct), i \in UpTo(2, OnIdentity), t \in {<<1, 2>>, <<2, 3>>}}
    \cup {[call |-> "pgp", direct |-> d, identity |-> << >>, subkey |-> s, signer |-> "s",
           created |-> t[1], now |-> t[2], document |-> "signed"] :
            d \in UpTo(1, Direct), s \in UpTo(2, OnSubkey), t \in {<<1, 2>>, <<2, 3>>}}
    \cup {[call |-> "pgp", direct |-> d, identity |-> << >>, subkey |-> s, signer |-> k,
           created |-> t[1], now |-> t[2], document |-> document] :
            d \in UpTo(1, Direct), s \in UpTo(1, OnSubkey), k \in {"p", "s"},
            t \in {<<0, 1>>, <<1, 1>>, <<1, 2>>, <<2, 1>>}, document \in Documents}

\* The certificate is also read without the packets of other issuers.
AuthenticatePgp(c) ==
    LET Own(signatures) == SelectSeq(signatures, LAMBDA s : s.by # "x")
        made == ~OP!SignFails(Key(c.signer, 4), IF c.document = "weak" THEN "sha1" ELSE "sha256", c.created)
        Accepts(packets) == LET certificate == OP!Decode(packets) IN
            /\ made /\ certificate # << >> /\ ~OP!DocumentFails(Document(c))
            /\ ~OP!AuthenticateFails(certificate[1], Document(c), "document", c.now)
    IN [accepted |-> Accepts(Certificate(4, c.direct, c.identity, c.subkey)),
        alone |-> Accepts(Certificate(4, Own(c.direct), Own(c.identity), Own(c.subkey)))]

\* What the primary key, and the subkey where it signs, said of a component up to a time.
Said(signatures, types, time) ==
    {s \in ToSet(signatures) : s.by = "p" /\ s.typ \in types /\ \E t \in s.created : t <= time}

When(s) == CHOOSE t \in s.created : TRUE

\* The newest statements not withdrawn at that time.
Standing(signatures, types, time) ==
    {s \in Said(signatures, types, time) :
        /\ \A o \in Said(signatures, types, time) : When(o) <= When(s)
        /\ \A r \in Said(signatures, {"CertRevocation"}, time) : When(r) < When(s)}

InForce(s, time) ==
    /\ s.lifetime = 0 \/ time < When(s) + s.lifetime
    /\ s.keyLifetime = 0 \/ time < 1 + s.keyLifetime

Permits(s, usage) == \A flags \in s.flags : usage \in flags

MaySign(c, time) ==
    LET primary == Standing(c.direct, {"Key"}, time)
                   \cup Standing(c.identity, {"CertGeneric", "CertPositive"}, time)
        newest == {s \in primary : \A o \in primary : When(o) <= When(s)}
    IN /\ newest # {}
       /\ \A s \in newest : InForce(s, time) /\ Permits(s, IF c.signer = "p" THEN "sign" ELSE "certify")
       /\ Said(c.direct, {"KeyRevocation"}, 9) = {}
       /\ c.signer = "s" =>
            /\ Said(c.subkey, {"SubkeyRevocation"}, 9) = {}
            /\ Standing(c.subkey, {"SubkeyBinding"}, time) # {}
            /\ \A s \in Standing(c.subkey, {"SubkeyBinding"}, time) :
                  InForce(s, time) /\ Permits(s, "sign")
            /\ \E s \in Standing(c.subkey, {"SubkeyBinding"}, time) :
                  \E r \in ToSet(s.embedded) : r.by = "s" /\ When(r) <= time

\* Statements that contradict each other, or that are refused whatever they say.
Doubtful(signatures) ==
    \E s, o \in ToSet(signatures) : s # o /\ s.by = "p" /\ o.by = "p" /\ When(s) = When(o)
Refused(signatures) == \E s \in ToSet(signatures) : s.by = "p" /\ s.marks # {}

\* The document is the one that was signed, by a key that existed, and has not expired.
Genuine(c) ==
    /\ 1 <= c.created /\ c.created <= c.now
    /\ c.document = "signed" \/ (c.document = "short" /\ c.now = c.created)

\* A signer is accepted only if the newest statements about it, as of the document and as
\* of now, allow it, and always then unless statements contradict each other; what other
\* keys say changes nothing.
PgpFor(c, out) ==
    /\ out.accepted => Genuine(c) /\ MaySign(c, c.created) /\ MaySign(c, c.now)
    /\ /\ Genuine(c) /\ MaySign(c, c.created) /\ MaySign(c, c.now)
       /\ ~Doubtful(c.direct \o c.identity) /\ ~Doubtful(c.subkey)
       /\ ~Refused(c.direct)
       => out.accepted
    /\ out.accepted = out.alone

-----------------------------------------------------------------------------
(* OpenPGP secret keys: the primary key, a subkey "s" of second 1 and a newer *)
(* subkey "n" of second 2, each of which may be public only or revoked.      *)

NoProtection == [kind |-> "none", cipher |-> "none", s2k |-> "none", hash |-> "none", passes |-> 0, lanes |-> 0, memory |-> 0]
Iterated(hash) == [NoProtection EXCEPT !.kind = "cfb", !.cipher = "aes", !.s2k = "iterated", !.hash = hash]
Argon2(kind, passes, memory) ==
    [kind |-> kind, cipher |-> "aes", s2k |-> "argon2", hash |-> "none", passes |-> passes, lanes |-> 4, memory |-> memory]

Protections == {NoProtection, Iterated("sha1"), Iterated("md5"), [Iterated("sha256") EXCEPT !.cipher = "des"],
                Argon2("aead", 3, 16), Argon2("cfb", 3, 16), Argon2("aead", 0, 16), Argon2("aead", 5, 18), Argon2("aead", 1, 4)}
Supported == {NoProtection, Iterated("sha1"), Argon2("aead", 3, 16)}

\* State of a subkey: "secret", "public", "revoked" from second 3 on by a certification
\* revocation, "idle" for one that may not sign, or "stray" with foreign secret material.
States == {"secret", "public", "revoked", "idle", "stray"}

Packet(tag, fp, created, place, state, protection) ==
    LET key == [Key(fp, 4) EXCEPT !.created = created] IN
    IF state = "public" THEN [tag |-> tag[1], key |-> key]
    ELSE [tag |-> tag[2], key |-> key, place |-> place, coefficient |-> TRUE, password |-> "right",
          secret |-> IF state = "stray" THEN "x" ELSE fp, protection |-> protection]

SubkeyPackets(fp, created, place, state, protection) ==
    LET over == <<"p", fp>>
        bound == [Statement("SubkeyBinding", "p", over, created) EXCEPT
                     !.flags = IF state = "idle" THEN {{"certify"}} ELSE {},
                     !.embedded = <<Statement("KeyBinding", fp, over, created)>>]
    IN  <<Packet(<<"PublicSubkey", "SecretSubkey">>, fp, created, place, state, protection)>>
        \o Packets(<<bound>> \o IF state = "revoked" THEN <<Statement("CertRevocation", "p", over, 3)>> ELSE << >>)

SecretPackets(c) ==
    <<Packet(<<"PublicKey", "SecretKey">>, "p", 1, 0, c.primary, c.protection)>> \o Packets(<<Statement("Key", "p", <<"p">>, 1)>>)
    \o SubkeyPackets("s", 1, 1, c.s, NoProtection) \o SubkeyPackets("n", c.newer, 2, c.n, c.protection)

SecretCases ==
    {[call |-> "secret", primary |-> p, s |-> s, n |-> n, newer |-> w, protection |-> r, wanted |-> f, requested |-> a,
      password |-> q, loaded |-> t[1], now |-> t[2]] :
        p \in {"secret", "public", "stray"}, s \in States, n \in States, w \in {1, 2}, r \in Protections,
        f \in {{}, {"p"}}, a \in {<< >>}, q \in {"right"}, t \in {<<2, 2>>, <<2, 3>>}}
    \cup {[call |-> "secret", primary |-> "secret", s |-> s, n |-> n, newer |-> 1, protection |-> r, wanted |-> f, requested |-> a,
           password |-> q, loaded |-> 2, now |-> 3] :
            s \in {"secret"}, n \in {"secret", "idle"}, r \in {NoProtection, Iterated("sha1")}, f \in {{}, {"s"}, {"x"}},
            a \in {<< >>, <<<<"ed25519", "sha512">>>>, <<<<"rsa", "sha256">>>>, <<<<"ed25519", "sha384">>>>}, q \in {"right", "wrong"}}

LoadAndSign(c) ==
    LET signer == OP!LoadSigner(SecretPackets(c), c.wanted, c.requested, c.loaded)
        unlocked == IF signer = << >> THEN << >> ELSE OP!Unlock(signer[1], c.password)
        made == IF unlocked = << >> THEN << >> ELSE OP!SignWith(unlocked[1], "document", c.now)
    IN  [signer |-> signer, unlocked |-> unlocked # << >>, made |-> made # << >>,
         accepted |-> made # << >> /\ ~OP!AuthenticateFails(signer[1].certificate, made[1], "document", c.now),
         early |-> signer # << >> /\ OP!SignWith(signer[1], "document", c.now) # << >>]

\* The keys that may sign at a time, most preferred first.
Usable(c, time) ==
    LET Signs(state) == state \in {"secret", "stray"} \/ (state = "revoked" /\ time < 3)
        N == IF Signs(c.n) /\ c.newer <= time THEN <<"n">> ELSE << >>
        S == IF Signs(c.s) THEN <<"s">> ELSE << >>
        P == IF Signs(c.primary) THEN <<"p">> ELSE << >>
    IN  SelectSeq((IF c.newer > 1 THEN N \o S ELSE S \o N) \o P, LAMBDA k : c.wanted \subseteq {k})

\* The key that is loaded is the preferred one of those that may sign; a locked or mismatched
\* key never signs; what was signed is accepted at that moment, and nothing is signed
\* once the key's binding is withdrawn.
SecretFor(c, out) ==
    LET usable == IF c.requested \in {<< >>, <<<<"ed25519", "sha512">>>>} THEN Usable(c, c.loaded) ELSE << >>
        State(k) == CASE k = "p" -> c.primary [] k = "s" -> c.s [] k = "n" -> c.n
        protected == usable # << >> /\ usable[1] # "s" /\ c.protection # NoProtection
    IN  /\ out.signer # << >> <=> usable # << >> /\ (protected => c.protection \in Supported)
        /\ out.signer # << >> => out.signer[1].key.fp = usable[1]
        /\ out.unlocked <=> /\ out.signer # << >> /\ State(usable[1]) # "stray"
                            /\ protected => c.password = "right"
        /\ out.made <=> out.unlocked /\ usable[1] \in ToSet(Usable(c, c.now))
        /\ out.made => out.accepted
        /\ out.early => ~protected

-----------------------------------------------------------------------------
(* CMS: two signers under the issuer "CA", whose name another key claims.     *)

Rsa(id) == [id |-> id, kind |-> "rsa", bits |-> 2048]

Signed(by, body) ==
    [field \in DOMAIN body \cup {"outer", "signature"} |->
        CASE field = "outer" -> C!Identifier("rsaSha256", "null")
          [] field = "signature" -> [by |-> by, algorithm |-> "RsaSha256", over |-> body]
          [] OTHER -> body[field]]

X509(subject, serial, key, from, to) ==
    Signed("ca", [fingerprint |-> <<subject, key.id>>, subject |-> subject, issuer |-> "CA", serial |-> serial,
                  keyId |-> {key.id}, key |-> key, from |-> from, to |-> to, extensions |-> << >>,
                  keyUsage |-> {}, extendedUsage |-> {{"codeSigning"}},
                  inner |-> C!Identifier("rsaSha256", "absent")])

First == X509("first", 1, Rsa("k1"), 1, 3)
Second == X509("second", 2, [id |-> "k2", kind |-> "p256", bits |-> 0], 1, 4)
Authority == X509("CA", 9, Rsa("ca"), 1, 4)
Pretender == X509("CA", 9, Rsa("evil"), 1, 4)

Signers == <<[certificate |-> First, algorithm |-> "RsaSha256"],
             [certificate |-> Second, algorithm |-> "EcdsaP256Sha256"]>>

Honest == C!Sign(Signers, "document")
FirstInfo == Honest.signers[1]
Said1 == C!SignedAttributes("document", "RsaSha256")
Weak == [C!Protection("RsaSha256") EXCEPT !.signature = {}]

AttributeVariants ==
    {C!SignedAttributes("document", "RsaSha512"), C!SignedAttributes("other", "RsaSha256"),
     Tail(Said1), SubSeq(Said1, 1, 2), Append(Said1, Said1[2]), [Said1 EXCEPT ![3].values = <<Weak>>],
     [Said1 EXCEPT ![1].values = <<[content |-> "signedData"]>>], [Said1 EXCEPT ![2].values = @ \o @]}

InfoVariants ==
    {FirstInfo} \cup {[FirstInfo EXCEPT !.attributes = {a}, !.signature.over = IF again THEN a ELSE @] :
                    a \in AttributeVariants, again \in BOOLEAN}
    \cup {[FirstInfo EXCEPT !.digest = C!Identifier(d, q), !.algorithm = C!Identifier(g, r)] :
            d \in {"sha256", "sha512"}, g \in {"rsa", "rsaSha256", "rsaSha512", "ecdsaSha256"},
            q \in {"null", "absent"}, r \in {"null", "absent", "other"}}
    \cup {[FirstInfo EXCEPT !.signature.by = "evil"], [FirstInfo EXCEPT !.version = 3],
          [FirstInfo EXCEPT !.sid = [keyId |-> "k1"]], [FirstInfo EXCEPT !.sid = [keyId |-> "k1"], !.version = 3],
          [FirstInfo EXCEPT !.sid = [keyId |-> "k2"], !.version = 3], [FirstInfo EXCEPT !.attributes = {}]}

List(by, this, next, entries) ==
    Signed(by, [issuer |-> "CA", version |-> 2, this |-> this, next |-> {next}, extensions |-> << >>,
                entries |-> entries, inner |-> C!Identifier("rsaSha256", "absent")])

Revoked(serial, date) == [serial |-> serial, date |-> date, extensions |-> << >>]

Lists == {List(by, 1, n, e) : by \in {"ca", "evil"}, n \in {1, 3},
                              e \in {<<Revoked(2, 1)>>, <<Revoked(1, 2)>>, << >>}}
         \cup {[List("ca", 1, 3, <<Revoked(1, 1)>>) EXCEPT !.issuer = "elsewhere"],
               [List("ca", 1, 3, << >>) EXCEPT !.extensions = <<[oid |-> "delta", critical |-> FALSE]>>],
               [List("ca", 1, 3, <<Revoked(1, 2)>>) EXCEPT !.entries = << >>]}

CmsCases ==
    {[call |-> "cms", data |-> [Honest EXCEPT !.signers[1] = info, !.version = v], input |-> input,
      required |-> required, issuers |-> << >>, lists |-> << >>, now |-> now] :
        info \in InfoVariants, v \in {1, 3}, input \in {"document", "other"}, now \in {0, 2, 3, 4},
        required \in {<< >>, <<First>>, <<Second, First>>, <<First, First>>}}
    \cup {[call |-> "cms", data |-> [Honest EXCEPT !.certificates = @ \o e, !.crls = k], input |-> "document",
           required |-> <<First>>, issuers |-> i, lists |-> l, now |-> now] :
            e \in UpTo(1, {Authority, Pretender}), k \in UpTo(1, Lists), l \in UpTo(1, Lists), now \in {1, 2, 3},
            i \in {<< >>, <<Authority>>, <<Pretender, Authority>>}}

AuthenticateCms(c) ==
    [accepted |-> ~C!DecodeFails(c.data)
                  /\ ~C!AuthenticateFails(c.data, c.input, c.required, c.issuers, c.lists, c.now)]

\* Signers as a caller puts them together: a secret key, its supposed certificate and the
\* requested combination.
Keyholders ==
    {[certificate |-> x, secret |-> k, algorithm |-> g] :
        x \in {First, Second}, k \in {First.key, Second.key}, g \in {"RsaSha256", "RsaSha512", "EcdsaP256Sha256"}}

SignCases ==
    {[call |-> "sign", signers |-> s, made |-> t[1], now |-> t[2]] :
        s \in UpTo(2, Keyholders), t \in {<<0, 2>>, <<1, 2>>, <<2, 3>>, <<3, 4>>, <<4, 4>>}}

SignAndAuthenticate(c) ==
    LET required == [i \in DOMAIN c.signers |-> c.signers[i].certificate]
        made == /\ \A s \in ToSet(c.signers) : ~C!SignerMismatch(s.certificate, s.secret, s.algorithm)
                /\ ~C!SignFails(c.signers, c.made)
        data == C!Sign(c.signers, "document")
    IN  [made |-> made,
         accepted |-> /\ made /\ ~C!DecodeFails(data)
                      /\ ~C!AuthenticateFails(data, "document", required, << >>, << >>, c.now)]

\* Signing succeeds exactly for distinct signers whose key, certificate and combination
\* agree and whose certificates are in force, and what it made is accepted while they are.
SignFor(c, out) ==
    /\ out.made = (/\ c.signers # << >>
                   /\ \A s \in ToSet(c.signers) :
                        /\ s.secret = s.certificate.key /\ s.secret.kind = C!KindOf(s.algorithm)
                        /\ s.certificate.from <= c.made /\ c.made <= s.certificate.to
                   /\ \A i, j \in DOMAIN c.signers : c.signers[i].certificate = c.signers[j].certificate => i = j)
    /\ out.accepted = (out.made /\ \A s \in ToSet(c.signers) : c.now <= s.certificate.to)

\* The signer's own key covered this input, under the algorithms the envelope declares.
Covers(info, certificate, input) ==
    /\ info.signature.by = certificate.key.id
    /\ \E a \in info.attributes :
         /\ info.signature.over = a
         /\ Cardinality({i \in DOMAIN a : a[i].oid = "messageDigest"}) = 1
         /\ \E i \in DOMAIN a : a[i].oid = "messageDigest" /\ a[i].values = <<[function |-> info.digest.oid, of |-> input]>>
         /\ \E i \in DOMAIN a : \E p \in ToSet(a[i].values) :
               /\ a[i].oid = "protection" /\ p.digest.oid = info.digest.oid
               /\ \E g \in p.signature : g.oid = info.algorithm.oid

AllLists(c) == {l \in ToSet(c.lists) \cup ToSet(c.data.crls) : l.issuer = "CA"}

\* Acceptance means that each pinned certificate is in force and its own key covered this
\* very input; and that every list of its issuer was made by the issuer's key, is current
\* and does not revoke it.  An honest envelope with such lists is accepted.
CmsFor(c, out) ==
    /\ out.accepted =>
         /\ c.required # << >>
         /\ \A p \in ToSet(c.required) :
              /\ p.from <= c.now /\ c.now <= p.to
              /\ \E info \in ToSet(c.data.signers) : Covers(info, p, c.input)
              /\ \A l \in AllLists(c) :
                    /\ l.signature.by = "ca" /\ l.entries = l.signature.over.entries
                    /\ l.this <= c.now /\ \A n \in l.next : c.now <= n
                    /\ \A e \in ToSet(l.entries) : e.serial = p.serial => e.date > c.now
    /\ /\ c.data.signers = Honest.signers /\ c.data.version = 1 /\ c.input = "document"
       /\ c.required \in {<<First>>, <<Second, First>>} /\ c.now \in 1 .. 3
       /\ AllLists(c) # {} => Authority \in ToSet(c.issuers) \cup ToSet(c.data.certificates)
       /\ AllLists(c) \subseteq {List("ca", 1, 3, << >>), List("ca", 1, 3, <<Revoked(2, 1)>>)}
       => out.accepted
=============================================================================
