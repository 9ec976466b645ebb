---------------------------- MODULE MCAlgorithms ----------------------------
(***************************************************************************)
(* The pure algorithms, one call each: the input is chosen in Init.         *)
(***************************************************************************)
EXTENDS FormatCases, SignatureCases, RequestCases

VARIABLES input, out

vars == <<input, out>>

Init ==
    /\ \/ input \in ContainerCases
       \/ input \in TamperCases
       \/ input \in ClassCases
       \/ input \in BlobCases
       \/ input \in FoundCases
       \/ input \in RootCases
       \/ input \in JarCases
       \/ input \in RangeCases
       \/ input \in CborCases
       \/ input \in NumberCases
       \/ input \in GraphCases
       \/ input \in ModelCases
       \/ input \in PgpCases
       \/ input \in CmsCases
       \/ input \in SecretCases
       \/ input \in SignCases
       \/ input \in SelectCases
       \/ input \in VersionCases
       \/ input \in AppCases
       \/ input \in TrustCases
       \/ input \in JavaCases
       \/ input \in ConfigCases
       \/ input \in DependencyCases
       \/ input \in SeveralCases
    /\ out = << >>

Call(name, Result(_)) ==
    /\ input.call = name
    /\ out = << >>
    /\ out' = <<Result(input)>>
    /\ UNCHANGED input

CallContainer == Call("container", OpenContainer)
CallTamper == Call("tamper", CheckTampered)
CallClass == Call("class", TransformBoth)
CallBlob == Call("blob", BuildAndResolve)
CallFound == Call("found", ReadFound)

CallRoot == Call("root", MergeAndResolve)
CallJar == Call("jar", ImportAndMaterialize)
CallRange == Call("range", TestRange)
CallCbor == Call("cbor", ReadCbor)
CallNumber == Call("number", WriteNumber)
CallGraph == Call("graph", Resolve)
CallModel == Call("model", ReadModel)
CallPgp == Call("pgp", AuthenticatePgp)
CallCms == Call("cms", AuthenticateCms)
CallSecret == Call("secret", LoadAndSign)
CallSign == Call("sign", SignAndAuthenticate)
CallSelect == Call("select", SelectAndRepeat)
CallVersions == Call("versions", AcceptRelease)
CallApp == Call("app", ParseAndStore)
CallLaunch == Call("launch", PrepareLaunch)

Next == CallContainer \/ CallTamper \/ CallClass \/ CallBlob \/ CallFound \/ CallRoot \/ CallJar
        \/ CallRange \/ CallCbor \/ CallNumber \/ CallGraph \/ CallModel
        \/ CallPgp \/ CallCms \/ CallSecret \/ CallSign \/ CallSelect \/ CallVersions \/ CallApp \/ CallLaunch

Spec == Init /\ [][Next]_vars

Done(name) == input.call = name /\ out # << >>

\* Reader::open and open_auto accept what Writer writes, at the boundary the writer meant
\* whatever archive follows it, and no file that a reader accepts and verifies differs from
\* the written one in a byte that a checksum covers.
ContainersAuthentic ==
    /\ Done("container") => ContainerOpensFor(input, out[1])
    /\ Done("tamper") => TamperEvidentFor(input, out[1])

\* transform followed by restore gives back every class file, also after the pool was
\* shared with others and after transforms that were undone.
ClassesRestore == Done("class") => ClassesRestoreFor(input, out[1])

\* Blobs that PoolBuilder wrote resolve to their bytes in every order of access, and no two
\* blobs or pages that BlobStore accepts from a file overlap.
BlobsResolve ==
    /\ Done("blob") => BlobsResolveFor(input, out[1])
    /\ Done("found") => FoundPoolsFor(input, out[1])

\* Merging the layers of a root gives what the last matching layer says of each path, links
\* resolve without leaving the root or looping, and a JAR that was imported into layers and
\* materialized for a Java version has the entries that a multi-release JAR shows to it.
ResourcesMaterialize ==
    /\ Done("root") => RootsMergeFor(input, out[1])
    /\ Done("jar") => JarsMaterializeFor(input, out[1])

\* A version range contains a version exactly if one of its intervals does, by an order of
\* versions that is total and agrees with Runtime.Version.
RangesHold == Done("range") => RangesHoldFor(input, out[1])

\* CBOR items, integers and ULEB128 numbers have one accepted encoding each: the one the
\* encoders write.
OneEncoding ==
    /\ Done("cbor") => CborFor(input, out[1])
    /\ Done("number") => NumberFor(input, out[1])

\* The collected class path has the nearest, first declared version of every artifact that
\* is reachable through runtime scopes and no exclusion, and a model its managed versions.
ClasspathsCollected ==
    /\ Done("graph") => ClasspathsFor(input, out[1])
    /\ Done("model") => ModelFor(input, out[1])

\* A document is authenticated only by a key that the pinned certificate allows to sign it,
\* at its creation and now, and by statements of the owner alone; what the loaded
\* signers made is authenticated while their keys and certificates are in force.
SignersAuthentic ==
    /\ Done("pgp") => PgpFor(input, out[1])
    /\ Done("cms") => CmsFor(input, out[1])
    /\ Done("secret") => SecretFor(input, out[1])
    /\ Done("sign") => SignFor(input, out[1])

\* Selectors and application targets written by target() or the registry read back as the
\* same request on every host, and a version requirement accepts a contiguous run of releases
\* that narrows when one of them is chosen.
RequestsHold ==
    /\ Done("select") => SelectFor(input, out[1])
    /\ Done("versions") => VersionsFor(input, out[1])
    /\ Done("app") => AppFor(input, out[1])

\* prepare gives a plan only for a package that is trusted as the options say, runs it on the
\* preferred Java for which it is compatible, holds the lease of that SDK, and composes what
\* the descriptor says for that Java out of exactly the archives that the entries describe.
LaunchesAuthorized == Done("launch") => LaunchFor(input, out[1])
=============================================================================
