------------------------------ MODULE AppModel ------------------------------
(***************************************************************************)
(* The vocabulary of the application registry (janex-host/src/app/mod.rs   *)
(* and app/request.rs): requests, installed releases, saved requirements   *)
(* and native commands, and the functions AppManager computes on one       *)
(* registry snapshot.                                                      *)
(*                                                                         *)
(* A request names a line (repository, coordinates, classifier, type,      *)
(* command name and JAR options) and perhaps a version.  A release is an   *)
(* installation identity: a digest over its exact request, the bytes of    *)
(* the artifact and the resolved dependencies, so one exact request may    *)
(* have several releases if a repository ever changes what it serves.      *)
(***************************************************************************)
EXTENDS Naturals, FiniteSets

CONSTANTS Line,        \* what a request says besides its version
          Version,     \* exact versions
          NoVersion,   \* follow the repository's release pointer
          Command,     \* native command names
          Product,     \* (group, artifact, repository)
          CommandOf,   \* CommandOf[l]: command name of line l
          ProductOf,   \* ProductOf[l]: product of line l
          Req,         \* the requests in use
          Release,     \* installation identities (app-<64 hex digits>)
          App,         \* App[i]: the exact request of release i
          NoId         \* absence of an installation

ASSUME AppAssumption ==
    /\ NoVersion \notin Version
    /\ CommandOf \in [Line -> Command]
    /\ ProductOf \in [Line -> Product]
    /\ Req \subseteq [line : Line, version : Version \cup {NoVersion}]
    /\ App \in [Release -> [line : Line, version : Version]]
    /\ \A i \in Release : App[i] \in Req
    /\ NoId \notin Release
    /\ Release \cap Req = {}

Selection == [request : Req, installation : Release, pinned : BOOLEAN]

\* installation = NoId follows the request; the command's name is the request's
CommandSelection == [request : Req, installation : Release \cup {NoId}]

AppStatus == [installations : SUBSET Release,
              selections    : SUBSET Selection,
              commands      : SUBSET CommandSelection]

EmptyStatus == [installations |-> {}, selections |-> {}, commands |-> {}]

Name(r) == CommandOf[r.line]

Exact(r, v) == [r EXCEPT !.version = v]

SameProduct(r, q) == ProductOf[r.line] = ProductOf[q.line]

\* The releases a repository can serve for a request.
Served(r) ==
    {i \in Release : IF r.version = NoVersion THEN App[i].line = r.line ELSE App[i] = r}

\* Repositories never serve two different artifacts for one exact request.
ReleasesImmutable == \A i, j \in Release : App[i] = App[j] => i = j

-----------------------------------------------------------------------------
(* Queries on one snapshot                                                 *)

Saved(reg, r) == \E s \in reg.selections : s.request = r

SelectionOf(reg, r) == CHOOSE s \in reg.selections : s.request = r

\* A saved binding, or the only release of an exact request; NoId otherwise.
FindRequest(reg, r) ==
    LET found == {i \in reg.installations : App[i] = r}
    IN  IF Saved(reg, r) THEN SelectionOf(reg, r).installation
        ELSE IF \E i \in found : found = {i} THEN CHOOSE i \in found : TRUE
        ELSE NoId

Target == Req \cup Release

Resolve(reg, t) ==
    IF t \in Req THEN FindRequest(reg, t)
    ELSE IF t \in reg.installations THEN t
    ELSE NoId

CommandInstallation(reg, c) ==
    IF c.installation = NoId THEN FindRequest(reg, c.request)
    ELSE IF c.installation \in reg.installations THEN c.installation
    ELSE NoId

HasCommand(reg, name) == \E c \in reg.commands : Name(c.request) = name

OwnsCommand(reg, r) ==
    \A c \in reg.commands : Name(c.request) = Name(r) => SameProduct(c.request, r)

\* uninstall wants an installation id or a request with a version
UninstallTarget(reg, t) ==
    IF t \in Req /\ t.version = NoVersion THEN NoId ELSE Resolve(reg, t)

-----------------------------------------------------------------------------
(* Updates of one snapshot                                                 *)

\* Faulty variant: an installed request takes the command over.
TakeCommand(reg, r) ==
    [reg EXCEPT !.commands = {c \in @ : Name(c.request) # Name(r)}
        \cup {[request |-> r, installation |-> NoId]}]

\* The first request for a command name selects itself.
AddCommand(reg, r) ==
    IF HasCommand(reg, Name(r)) THEN reg
    ELSE [reg EXCEPT !.commands = @ \cup {[request |-> r, installation |-> NoId]}]

\* install: record the release and bind the request to it, keeping its pin.
BindRelease(reg, r, i, pin) ==
    LET pinned == pin \/ (Saved(reg, r) /\ SelectionOf(reg, r).pinned)
    IN  AddCommand([reg EXCEPT !.installations = @ \cup {i},
                               !.selections = {s \in @ : s.request # r}
            \cup {[request |-> r, installation |-> i, pinned |-> pinned]}], r)

SetPinned(reg, r, pinned) ==
    [reg EXCEPT !.selections =
        {IF s.request = r THEN [s EXCEPT !.pinned = pinned] ELSE s : s \in @}]

\* install of a request that is saved already
Reselect(reg, r, pin) ==
    AddCommand(IF pin THEN SetPinned(reg, r, TRUE) ELSE reg, r)

DropCommand(reg, name) ==
    [reg EXCEPT !.commands = {c \in @ : Name(c.request) # name}]

\* default: a request follows its updates, an id stays fixed.
SelectCommand(reg, t) ==
    LET r == IF t \in Req THEN t ELSE App[t]
    IN  [DropCommand(reg, Name(r)) EXCEPT !.commands = @ \cup
            {[request |-> r, installation |-> IF t \in Req THEN NoId ELSE t]}]

\* Faulty variant: only commands fixed to the release are dropped.
ForgetFixed(reg, i) ==
    [installations |-> reg.installations \ {i},
     selections    |-> {s \in reg.selections : s.installation # i},
     commands      |-> {c \in reg.commands : c.installation # i}]

\* uninstall: the release, its bindings and the command that resolves to it.
Forget(reg, i) ==
    [installations |-> reg.installations \ {i},
     selections    |-> {s \in reg.selections : s.installation # i},
     commands      |-> {c \in reg.commands : CommandInstallation(reg, c) # i}]

-----------------------------------------------------------------------------
(* selections has one entry per request, commands is a map by name         *)

SelectionsUnique(reg) ==
    \A s, t \in reg.selections : s.request = t.request => s = t

CommandsUnique(reg) ==
    \A c, d \in reg.commands : Name(c.request) = Name(d.request) => c = d

-----------------------------------------------------------------------------
(* What read() demands of the file before any operation uses it            *)

SelectionsBound(reg) ==
    \A s \in reg.selections :
        /\ s.installation \in reg.installations
        /\ Exact(s.request, App[s.installation].version) = App[s.installation]

CommandsResolve(reg) ==
    \A c \in reg.commands :
        /\ CommandInstallation(reg, c) # NoId
        /\ Name(App[CommandInstallation(reg, c)]) = Name(c.request)

Readable(reg) == SelectionsBound(reg) /\ CommandsResolve(reg)
=============================================================================
