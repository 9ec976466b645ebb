------------------------------ MODULE SdkModel ------------------------------
(***************************************************************************)
(* The vocabulary of the SDK registry (janex-host/src/sdk/state.rs): SDK   *)
(* requests, installations, saved selections and platform defaults, and    *)
(* the pure functions the manager computes on one registry snapshot.       *)
(*                                                                         *)
(* Requests and installation identities are abstract.  What the code       *)
(* derives from their text is a constant: which installations a request    *)
(* accepts (SdkRequest::accepts), the exact request an installation        *)
(* records, the default slot of a request, and the order used to pick the  *)
(* newest build.                                                           *)
(***************************************************************************)
EXTENDS Integers

CONSTANTS Req,        \* SDK requests (sdk:<product>@<version>[...])
          Id,         \* installation identities (64 hex digits)
          Key,        \* default slots: family, or family/platform
          Managed,    \* identities of archives Janex downloads and owns
          Accepts,    \* Accepts[r]: the installations request r matches
          Removes,    \* Removes[r]: those "uninstall r" may name
          ExactOf,    \* ExactOf[i]: the exact request installation i records
          KeyOf,      \* KeyOf[r]: the default slot of request r
          Rank,       \* Rank[i]: place in the order of builds, newest first
          NoId        \* absence of an installation

ASSUME SdkAssumption ==
    /\ NoId \notin Id
    /\ Managed \subseteq Id
    /\ Accepts \in [Req -> SUBSET Id]
    /\ Removes \in [Req -> SUBSET Id]
    /\ \A r \in Req : Removes[r] \subseteq Accepts[r]
    /\ ExactOf \in [Id -> Req]
    /\ \A i \in Id : i \in Accepts[ExactOf[i]]
    /\ KeyOf \in [Req -> Key]
    /\ Rank \in [Id -> Nat]
    /\ \A i, j \in Id : Rank[i] = Rank[j] => i = j

Selection == [request : Req, installation : Id, pinned : BOOLEAN]

\* id = NoId follows the request; any other id fixes one installation
DefaultSelection == [request : Req, id : Id \cup {NoId}]

DefaultMap == UNION {[K -> DefaultSelection] : K \in SUBSET Key}

Registry == [installations : SUBSET Id,
             selections    : SUBSET Selection,
             defaults      : DefaultMap]

EmptyRegistry == [installations |-> {}, selections |-> {},
                  defaults |-> [k \in {} |-> NoId]]

-----------------------------------------------------------------------------
(* Queries on one snapshot                                                 *)

Selected(reg, r) == \E s \in reg.selections : s.request = r

SelectionOf(reg, r) == CHOOSE s \in reg.selections : s.request = r

Newest(S) ==
    IF S = {} THEN NoId
    ELSE CHOOSE i \in S : \A j \in S : Rank[i] <= Rank[j]

\* A stored binding first, then the newest matching build; NoId is the error.
ResolveRequest(reg, r) ==
    IF Selected(reg, r) THEN SelectionOf(reg, r).installation
    ELSE Newest({i \in reg.installations : i \in Accepts[r]})

DefaultInstallation(reg, d) ==
    IF d.id = NoId THEN ResolveRequest(reg, d.request)
    ELSE IF d.id \in reg.installations /\ d.id \in Accepts[d.request] THEN d.id
    ELSE NoId

DefaultAtKey(reg, k) ==
    IF k \notin DOMAIN reg.defaults \/ KeyOf[reg.defaults[k].request] # k
    THEN NoId
    ELSE DefaultInstallation(reg, reg.defaults[k])

Target == Req \cup Id

ResolveIn(reg, t) ==
    IF t \in reg.installations THEN t
    ELSE IF t \in Req THEN ResolveRequest(reg, t)
    ELSE NoId

\* uninstall wants an installed id or a precise request with one match.
UninstallTarget(reg, t) ==
    IF t \in reg.installations THEN t
    ELSE IF t \in Req /\ \E i \in Id : reg.installations \cap Removes[t] = {i}
         THEN CHOOSE i \in Id : reg.installations \cap Removes[t] = {i}
    ELSE NoId

\* Faulty variant: a slot that follows a request is not looked up.
IsDefaultById(reg, i) ==
    \E k \in DOMAIN reg.defaults : reg.defaults[k].id = i

IsDefault(reg, i) ==
    \E k \in DOMAIN reg.defaults : DefaultAtKey(reg, k) = i

-----------------------------------------------------------------------------
(* Updates of one snapshot                                                 *)

Bind(reg, r, i, pin) ==
    [reg EXCEPT !.selections =
        {s \in @ : s.request # r}
            \cup {[request |-> r, installation |-> i, pinned |-> pin]}]

AddInstallation(reg, i) == [reg EXCEPT !.installations = @ \cup {i}]

SetPinned(reg, r, pin) ==
    [reg EXCEPT !.selections =
        {IF s.request = r THEN [s EXCEPT !.pinned = pin] ELSE s : s \in @}]

InsertDefault(reg, d) ==
    LET key == KeyOf[d.request]
    IN  [reg EXCEPT !.defaults =
            [k \in DOMAIN @ \cup {key} |-> IF k = key THEN d ELSE @[k]]]

RemoveDefault(reg, key) ==
    [reg EXCEPT !.defaults = [k \in DOMAIN @ \ {key} |-> @[k]]]

\* Faulty variant: the selections of the installation are left behind.
ForgetRecordOnly(reg, i) == [reg EXCEPT !.installations = @ \ {i}]

Forget(reg, i) ==
    [reg EXCEPT !.selections    = {s \in @ : s.installation # i},
                !.installations = @ \ {i}]

-----------------------------------------------------------------------------
(* What read() demands of the file before any operation uses it            *)

SelectionsBound(reg) ==
    \A s \in reg.selections :
        /\ s.installation \in reg.installations
        /\ s.installation \in Accepts[s.request]

SelectionsUnique(reg) ==
    \A s, t \in reg.selections : s.request = t.request => s = t

DefaultsResolve(reg) ==
    \A k \in DOMAIN reg.defaults : DefaultAtKey(reg, k) # NoId

Readable(reg) ==
    SelectionsBound(reg) /\ SelectionsUnique(reg) /\ DefaultsResolve(reg)

-----------------------------------------------------------------------------
(* The registry on disk, at both levels, and what holds of it.             *)

VARIABLE registry   \* state/sdks.cbor

\* read() accepts every registry that save() ever publishes, whatever commands
\* interleave and wherever they crash: no selection dangles or repeats a
\* request, and every default resolves.  One registry that failed this would
\* make every later command fail.
RegistryReadable == Readable(registry)

\* Removing an installation, as uninstall does, never changes what any default
\* slot resolves to, neither a slot bound to an id nor one that follows a
\* request.
UninstallKeepsDefaults ==
    [][ \A i \in registry.installations :
            ~ IsDefault(registry, i) /\ registry' = Forget(registry, i) =>
                \A k \in Key : DefaultAtKey(registry', k) = DefaultAtKey(registry, k)
      ]_registry
=============================================================================
