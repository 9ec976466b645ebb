# A TLA+ model of Janex

Janex is a native workstation host for Java: it installs SDKs and applications,
keeps a cache of dependencies, updates itself, packs and verifies `.janex`
containers and starts JVMs. It has no daemon. Every command is a process of its
own, and whatever commands have in common is a directory tree, `JANEX_HOME`,
that they change concurrently and in which any of them may stop at any point.
This project models that shared state (the registries, their locks and leases,
the trees and files around them, and the protocols that publish, replace and
remove them) and the algorithms that decide what is read, trusted and launched:
the container format, signatures, version and package requests, Maven collection
and the preparation of a launch.

The modules are read next to `src/`; `PROJECT.json` maps each definition to the
lines it stands for.

## 1. The system

| Component | State | Operations | Where it is hard |
|---|---|---|---|
| SDK registry and store (`janex-host/src/sdk/state.rs`, `persistence.rs`) | `state/sdks.cbor`, `state/sdk.lock`, `sdks/<family>/<id>`, `state/sdk-leases/<id>.lock` | install (online, offline, from a path), update, pin, default, clear, uninstall | a download between an unlocked read and a locked commit; trees published before and removed after the record; leases taken under the registry lock |
| SDK selection and execution (`sdk/selection.rs`) | shared registry lock, shared leases, the child | exec, runtimes of an application, `use --project` | a child that runs for ever; a project file that is read, merged and replaced |
| SDK catalogs and download (`sdk/catalog.rs`, `bellsoft.rs`, `tools.rs`) | a metadata cache, the partial archive | query, download in ranges with retries | broken, wrong, excessive and changing answers |
| Shell sessions (`sdk/shell.rs`, `janex-cli/src/shell.rs`) | the saved environment | activate, deactivate | nested activations |
| Application registry and store (`app/mod.rs`, `app/request.rs`, `app/run.rs`) | `state/apps.cbor`, `state/apps.lock`, `apps/<id>`, `state/app-leases`, `bin/<command>` | install, update, pin, default, clear, uninstall, execute | command names that several products want; a pin set during a download; recovery of what a stopped command left |
| Dependency cache (`dependency.rs`; its Java twin `Dependencies.java`) | a record per request, content per digest, a lock per request | resolve online, offline, with refresh | content that is shared by requests whose locks do not exclude one another |
| Self installation (`self_manage.rs`) | `bin/janex`, `bin/.janex-update-*`, `state/self.lock` | install, update | no atomic replacement of a running image on Windows |
| Desktop integration (`integration/`) | a recovery record, generated files, registry values, binfmt | register, unregister | many small changes that must be resumable |
| Runtime cache (`janex-java/src/runtime_cache.rs`) | an entry per executable with a fingerprint | probe | an installation that changes during the probe |
| Maven collection (`maven/`) | a dependency graph | collect | mediation, exclusions, cycles |
| Launch (`run.rs`, `roots.rs`, `materialize.rs`, `janex-java`, `janex-launcher`) | a verified snapshot, temporary files, the child | prepare, execute, forward signals | order of verification and use |
| Container format (`janex-format`, `janex-reader`) | immutable bytes | read, verify, select | two implementations of one format |
| Signatures (`janex-signature`) | keys and certificates | sign, verify | revocation and certification policy |
| Packing (`pack.rs`, `import.rs`, `janex-writer`, `janex-gradle-plugin`) | one output file | pack | mostly encoding |
| Java bootstrap (`janex-bootstrap`) | a resource index shared by threads, a child JVM | load, close, shut down | shutdown hooks against normal completion |

The components meet in few places. SDK and application registries are separate
files with separate locks; an application launch reads the SDK registry to choose
a runtime and keeps the SDK's lease while the child runs. Applications install
their dependencies through the dependency cache. All registries use the
same publication (`persistence::publish`: temporary file, then rename), and all
locks are advisory file locks that the operating system releases with the process.

What makes each modelled component correct:

* a registry that one command has saved is accepted by every later one;
* a record never names files that are not there, whatever stopped where;
* nothing that runs has its files removed;
* two commands at once have the effect of one after the other;
* what the user fixed (a pin, a default, a command name) stays until the user
  changes it;
* no command waits for ever, under a lock that others need, for something that
  need not happen;
* a damaged, partial or mixed download is never taken for a good one;
* what a reader accepts is what the writer meant, byte for byte where a checksum
  says so;
* nothing is executed that the owner of a pinned key did not sign, or that the
  options do not allow.

## 2. Modules

```
SdkModel ---- SdkRegistry            AppModel ---- AppRegistry
     \            |   refined by          \            |   refined by
      +------- SdkStore                    +------- AppStore
SelfUpdate
SdkProject  ArchiveDownload  Integration  RuntimeCache  DependencyCache --> Host

Container -- JarTail    Blob    Encoding  --> FormatCases    --\
ClassPool -- Resource -- JarImport        --> FormatCases    ---\
                |-- JavaVersions                                 > MCAlgorithms
OpenPgp  Cms                              --> SignatureCases ---/
SdkRequests  AppRequests  Launch  Maven   --> RequestCases   --/
```

`*Model` modules hold the persisted schema and the functions that the code
computes on one snapshot of it. `SdkModel` also declares the registry itself, so that both
levels share what is said of it. `*Registry` modules are abstract specifications:
each command is one atomic update. `*Store` modules are the implementation, with
processes, locks, leases, files and crashes. Both levels use the same functions,
so what is compared is the protocol: `RefinesRegistry` is the specification of
`Abstract == INSTANCE SdkRegistry WITH registry <- registry` (of `AppRegistry`
likewise). `*Cases` modules hold the bounded inputs of the pure algorithms and the
reference definitions that their results are compared with. `MC*` modules give the
constants their values, `*Proofs` modules contain the theorems. A definition that a
comment calls a faulty variant is a plausible mistake in the definition after it;
`PROJECT.json` lists under `mutants` which property notices it.

`SelfUpdate` needs no MC module: its cfg gives the two processes directly.

`Host` puts the five protocols that share no state side by side. `Init` chooses
the part that moves from the constant `Parts` and the others stand still, so a run or
a theorem about `Host` speaks of each part alone; its assumption `HostAssumptions` is
the conjunction of theirs.

### SdkModel, SdkRegistry, SdkStore

`SdkModel` abstracts version texts. A request is an element of `Req`; what the
code derives from its text is a constant: the builds it accepts (`Accepts`), those
an uninstall may name by it (`Removes`), its default slot (`KeyOf`), the exact
request of a build (`ExactOf`) and the order of builds (`Rank`, the comparison
that picks the newest). A registry is a record of installations, selections
(request, installation, pinned) and defaults, as in `sdks.cbor`. `Readable` is
the validation of `read()`.

In `SdkStore` a process is at one phase (`pc`) of one command; `snap` is the
registry it has in memory. A phase ends where another process can see or prevent
something: at taking a lock or a lease, publishing a tree or a lease file, saving,
each part of `remove_dir_all`, and between an unlocked read and what is done with
it. An install searches under a shared lock, drops it, and pins under an exclusive
one; an online install reads unlocked, queries the catalog, downloads, and commits
under the exclusive lock, where it checks again what it must. `Crash` may happen
in every phase: it drops locks and leases and leaves all files. An I/O error that
makes a command give up has the same effect and is the same action.
External homes come and go (`ExternalHome`), as their owners please. Java
candidates are programs that are started to ask for their version: `ExecProbe` and
`ProbeEnd` are the wait for one, which has no deadline and takes place under the shared
registry lock (selection.rs:480 under the lock of line 423, and line 273). `install`
looks up the saved selection unless it is called by `update`, the only caller that
sets `options.refresh`; the command line of `install` has no such option.

`FreshHome` says whether `state/sdk.lock` exists at first. Without the file, a
reader proceeds without a lock.

### SdkProject

`use --project`: targets are resolved, `.janex-toolchains.toml` is read, merged
and replaced under a *shared* registry lock, while others install and uninstall
as far as that lock lets them. Without a lock file (`lockFile`) the command holds no
lock; `found` remembers which commands found it.

### AppModel, AppRegistry, AppStore

A request is a line (repository, coordinates, classifier, type, command name,
options) with an optional version. A release is an identity with one exact
request; the repository decides which release it serves, and may serve another one
for the same version later (constants decide whether it does). Commands resolve to a release or follow a request. `AppStore`
follows the code's order: lock, decide again, publish the directory, lease file and
native entry, save; on uninstall, save first and remove afterwards. `SaveFails`
is the one place where the code undoes its work, `RemoveFile` is a part of
`remove_dir_all`.

### SelfUpdate

One `bin/janex`, a lock, and the staging directories that stopped or failed
replacements leave. The platform is chosen in `Init`. On Windows publication is two
renames, either of which may fail, with a restoration that may fail too; cleanup by
later commands removes backups from abandoned directories.

### DependencyCache

`resolve_address`: lock per request (shared and without creation when offline),
look up, download, publish content, publish record. Content files are shared by
digest and may decay `Decays` times. Processes in `Jvm` are bootstraps
(`Dependencies.java`), the others are Hosts. Both take the same steps, but Java
locks files with `fcntl` and the Host with `flock`, which need not exclude each
other, so a lock excludes only processes of the holder's kind (`Peers`). No property
depends on more: content is named by its digest and both publications are renames.

### ArchiveDownload

`download_archive`: ranges of at most `Chunk` bytes, three attempts each, into one
file that is cut back before every attempt. A byte is identified by its version and
offset, so a mixture is visible. The server is arbitrary within what the code can
observe, and may replace the archive between any two answers.

### Integration

`register` and `unregister`: a process takes the lock, reads the ownership record,
saves the union of what was and what will be owned, changes generated files,
registry values and the binfmt rule one at a time, and saves what is then owned. What
is obsolete is removed as `remove_obsolete` does it, manifest by manifest of the
record (`NextManifest`) and entry by entry (`RemoveEntry`), except for entries that
the new manifest names and for contents that are not the recorded ones. A
content stands for its digest. Other programs edit entries and the rule
(`MaxEdits` times), each step may fail and each process may stop.

### RuntimeCache

A probe reads the stamps of an installation file by file, runs the launcher (which
reads the files too), and reads the stamps again, while an installer replaces
files one at a time (`MaxGeneration` times each). Entries may be lost.

### The format: Container, JarTail, Blob, ClassPool, Encoding

Files are sequences of cells. What the algorithms treat as a unit (a magic number,
the metadata, the footer, a ZIP record, a compressed frame) is one cell, everything
else is bytes, so offsets, lengths, overlaps and truncation are real while bit
patterns are not. `Container` has the writer, the reader and the verification of
checksums; `JarTail` finds the end of a container that an archive follows; `Blob`
has pools, pages, extents and the registration of ranges, on both sides; `ClassPool`
the shared strings and the class-file transform with its undo; `Encoding` bounded
decoding, ULEB128 and deterministic CBOR. In `Encoding` a byte has `Base` values
and the widths are scaled with it, which keeps every boundary (the last direct
argument, the shortest form, the last group of a number) and makes all
short inputs enumerable.

### Metadata: JavaVersions, Resource, JarImport

Versions with their order, ranges with their canonical form, conditions; layers,
their merge, and links in the merged tree; import of a plain, multi-release or
signed JAR into layers and materialization of a JAR for one Java version.

### Maven, OpenPgp, Cms

`Maven`: effective models (parents, properties, profiles, management, imported
BOMs) and collection with mediation, exclusions and scopes. `OpenPgp`
and `Cms`: what a pinned key or certificate authenticates, given the certificate's
statements in the order they appear in, revocations and revocation lists; and
which key a loaded signer chooses. A signature is a record of who made it and what
it covers, so the cryptographic check is equality, and every rule around it is
spelled out.

### SdkRequests, AppRequests, Launch

Selectors, version requirements and package URLs as syntax trees, with their
validation, canonical form and stored form. `Launch` is `prepare_snapshot`:
authorization of the package, choice of the application, the Java candidates in
their order with the lease on a managed one, the configuration that the conditions
select, acquired dependencies and their expectations, module checks and limits.

## 3. Runs

All passing runs finish in less than five minutes on two cores. Deadlock is checked in all
of them but `algorithms`, where a call that has returned has nothing left to do.

| Run | Instance | Shows |
|---|---|---|
| `sdk_registry` | 4 builds, 3 requests, 2 slots | `RegistryReadable`: every sequence of commands leaves a registry that `read()` accepts. `UninstallKeepsDefaults`: uninstall moves no default to another build. |
| `sdk_store` | 2 processes, a managed build and an external one, 2 requests, used home, fairness | `RegistryNamesWholeTrees`, `LeasedTreesWhole` under all interleavings and crashes; `RefinesRegistry`; `LockReleased`: a lock is kept for ever only by a command whose Java probe never ends. |
| `sdk_pin_race` | as above, without fairness, with two managed builds | **Violation** of `PinHeld`, see findings. |
| `app_registry` | 4 releases of 3 lines, 2 products, 1 command | `RegistryReadable`; `UninstallNeverSwitches`; `InstallKeepsCommands`. |
| `app_republished` | 2 releases of one version | **Violation** of `RegistryReadable`. |
| `app_store` | 2 processes, 2 products with one command | `RegistryNamesArtifacts`, `RunningKept`, `CommandOwnerKept`. |
| `app_store_refines` | 2 processes, 2 releases of one version, fresh home, fairness | `RefinesRegistry`, `PinHeld`, `LockReleased`. |
| `app_reinstall` | 2 processes, 1 release | **Violation** of `RegistryNamesWholeTrees`. |
| `self_update` | 2 processes, 2 versions, both platforms | `NeverMissing` (Unix), `CopySurvives`, `FailureRestores`, `LatestNeverDowngrades`. |
| `host_parts` | `Host` with all five parts, fairness of the download; cache: a Host and a JVM, 3 requests, 2 contents, 1 decay | `use --project`: `ResolvedWhenWritten`. Download: `WholeArchive`, `CompletedKept`, `Ends`. Integration: `EntriesRecorded`, `ForeignKept`. Runtime cache: `EntryTruthful`. Dependency cache: `RecordsComplete`, `EntryKept`, `Healed`. |
| `project_lost_line` | `Host` with `use --project`; 2 processes, 2 families | **Violation** of `OthersPreserved`. |
| `algorithms` | one call, its input chosen in `Init` (about 155,000 inputs) | see the next table |

| Property of `algorithms` | Compares |
|---|---|
| `ContainersAuthentic` | what the reader opens, at which boundary, with what the writer wrote; verified files after any change of one cell with the original |
| `BlobsResolve` | blobs in every order of access with the bytes that were added; accepted ranges with one another |
| `ClassesRestore` | restored class files with the originals, also after undone transforms |
| `OneEncoding` | all short inputs that a decoder accepts with what the encoder writes |
| `RangesHold` | ranges with the intervals they mean; the order of versions with the laws of an order |
| `ResourcesMaterialize` | merged trees with the last layer that says something; links with paths; materialized JARs with the multi-release view of the imported ones |
| `ClasspathsCollected` | collected class paths with nearest-first mediation over all paths of the graph |
| `SignersAuthentic` | accepted documents with what the owner stated at that time; what a loaded signer makes with what the verifier accepts |
| `RequestsHold` | stored or printed requests, read again on either host, with the originals; accepted versions with runs of the order |
| `LaunchesAuthorized` | plans with what the signers, the options, the conditions and the entries allow |

**Bounds.** Two processes are enough for every race of a reader or writer with one
other command, and a crashed process starts again as another one, so longer
histories are covered; a race that needs three commands in flight is covered for
the properties that are proved. The instances have the smallest number of
identities for which the interesting cases exist: two builds that one request
accepts, so that "newest" and bindings matter; a request that no build
distinguishes (ambiguous for uninstall); a managed and an external build; two
products with one command name; three requests whose locks guard one file; an archive
below, at and above the limit with a last chunk that is shorter than the others
(lengths 7, 8 and 9, chunk 3, limit 8); two registrations that share an entry with
one rule, two foreign edits, one before and one after a process looked; a launcher of
two files, each replaced once (`MaxGeneration` 2), which is what a torn fingerprint
needs. Limits of the algorithms are scaled down until inputs below, at and above
them are enumerated: `MAX` 99 and `Window` 12 (ZIP), `VuintBase` 3, page shifts 0
and 1 with `Limit` 9 (pools), `Elements` 12 and `Depth` 4 (resources), `IntMax` 20,
`MaxTotal` 7 and `MaxBytes` 8 (import), `Nesting` 4 and `EdgeLimit` 20 (Maven),
`MaxDepth` 2, `MaxElements` 3 and `MaxBytes` 5 (launch).
`Decays`, `MaxEdits` and `MaxGeneration` are the counters that are cut: one damage
suffices for `Healed`, which speaks of the time after the last one. `sdk_store` keeps to two
builds; the registry itself is checked with four builds in `sdk_registry`, and the
proofs have no bound. That no longer chain of
waiting commands closes into a circle is proved (`WaitedForNeverWaits`).

**Fairness.** `FairSpec` of `AppStore` is weak fairness of `Step(p)` for each
process: a command that can take its next step eventually takes it. Its steps are
system calls that return, and downloads have a deadline. `SdkStore` asks this only of
commands that hold the registry lock. There the end of the
selection (`ExecStart`, `ExecReject`) is strongly fair, because the candidates are a finite
list and each is probed once. Starting commands, the end of a child or of a probe,
crashes, and the order in which waiting processes get a lock are not fair.
`LockReleased` of the application store therefore says that no process waits under its
lock for an event that may never happen, such as the end of a child. The SDK store
does wait for such an event: the probe of a Java candidate, with no timeout
(`probe_output`, janex-java/src/runtime.rs:334). A program that hangs there keeps the
shared lock, and every install, update, pin, default and uninstall waits until it is
killed; with the exclusive lock nothing of the kind happens. `LockReleased` of the SDK store
says that this is the only way to keep a lock for ever. `ArchiveDownload`
assumes weak fairness of its steps (`DownloadStep` in `host_parts`): every request
has a timeout and there are three attempts; the server's replacement of the archive
is not fair. `Healed` needs none: it is an implication from calls that keep
succeeding.

### Findings

* `sdk_pin_race`. `update` (state.rs:366) tests the pin in an unlocked read and
  later binds the new build unpinned. A pin set during the catalog query or
  download is lost. `AppManager` repeats the test under the lock, and
  `app_store_refines` shows that this suffices there.
* `project_lost_line`. Two `use --project` commands for different families hold
  the registry lock shared (selection.rs:299), read the project file, and write it one
  after the other; the line of the first is lost, although both report success and the
  documentation promises that other families are preserved.
* `app_republished`. If a repository serves a second artifact for an exact
  version, an update can leave a command that matches two releases, which `read()`
  rejects in every later command.
* `app_reinstall`. An uninstall that stops within `remove_dir_all` may leave
  the artifact without its dependencies; the next install of that release keeps the
  directory and registers it.

Further limits that the properties state as conditions, with the reason in the
hazard list: without a lock file a reader does not exclude a concurrent
install-and-uninstall (`LeasedTreesWhole` is for used homes, `ResolvedWhenWritten` for
commands that found the lock file); an update may replace
a version, installed while it waited, that is newer than the release
(`LatestNeverDowngrades`); cleanup removes the backup that a failed Windows
replacement had kept for the user, in the next command that takes the lock; ranges are not bound
to an entity tag, so two versions of equal length are told apart only by the
checksum that follows (`WholeArchive`); a stop between creating a native entry and
saving leaves an entry without a command; what somebody else writes between the
look and the change of `register` or `unregister` is lost (`ForeignKept`); an
installer that restores a file together with its stamps, inode included, is not
noticed by the runtime cache.

One observation without a run: `JAVA_HOME` that is set but empty makes
`application_runtimes` (selection.rs:454) take the first candidate on `PATH` for the
environment's, before managed SDKs, whereas run.rs:47 says "otherwise environment,
managed SDK, and PATH candidates". The inputs of `LaunchesAuthorized` leave the empty
value out.

## 4. Proofs

The proof system checks, for all values of the constants that satisfy the named
assumptions:

| Theorem | Statement |
|---|---|
| `SdkStoreProofs!AlwaysReadable`, `UninstallSafe` | `SdkRegistry`: `RegistryReadable`, `UninstallKeepsDefaults` |
| `SdkStoreProofs!StoreUninstallSafe` | the same of uninstall in the store, with everything that runs beside it |
| `SdkStoreProofs!StoreTypeOK`, `StoreReadable`, `StoreNamesWholeTrees` | the invariants of the store |
| `SdkStoreProofs!StoreRefinesRegistry` | `SdkStore` implements `SdkRegistry` |
| `SdkStoreProofs!LeasesProtect` | `LeasedTreesWhole`, if the home has been used before |
| `SdkStoreProofs!LeasedNeverRemoved` | in every home, nothing is taken from a managed tree that is leased |
| `SdkStoreProofs!WaitedForNeverWaits`, `AppStoreProofs!WaitedForNeverWaits` | who has what another command waits for waits for no command, so that there is no deadlock among any number of commands |
| `AppRegistryProofs!AlwaysReadable`, `UninstallSafe`, `InstallSafe` | the properties of `app_registry`, if exact requests have one release each |
| `AppStoreProofs!StoreTypeOK`, `StoreNamesArtifacts` | the invariants of the store |
| `AppStoreProofs!StoreRefinesRegistry` | `AppStore` implements `AppRegistry` |
| `AppStoreProofs!StoreKeepsOwners`, `StoreHoldsPins` | `CommandOwnerKept`, `PinHeld` |
| `AppStoreProofs!LeasesProtect` | `RunningKept`, if the home has been used before |
| `AppStoreProofs!RunningNeverRemoved` | in every home, nothing is taken from the directory of a running release |
| `SelfUpdateProofs!UnixNeverMissing`, `NothingLost`, `OldRestored`, `NoDowngrade` | `NeverMissing`, `CopySurvives`, `FailureRestores`, `LatestNeverDowngrades` |
| `HostProofs!CacheComplete`, `UsableStaysUsable` | dependency cache: `RecordsComplete`, `EntryKept` |
| `HostProofs!ProjectResolved` | `use --project`: `ResolvedWhenWritten`, in homes with and without a lock file |
| `HostProofs!DownloadKeeps`, `DownloadWholeByLength` | download: `CompletedKept`; a finished file has a version's length, and each byte is in its place in a version of that length |
| `HostProofs!DownloadWhole` | `WholeArchive`, if versions differ in length |
| `HostProofs!IntegrationRecorded`, `IntegrationKeepsForeign` | integration: `EntriesRecorded`, `ForeignKept` |
| `HostProofs!ProbeTruthful` | runtime cache: `EntryTruthful` |
| `AlgorithmProofs!CoverageDeterminesFile` | two files with the same signed metadata, both completely and securely covered, are equal outside the signature |
| `AlgorithmProofs!WrittenOpens`, `WrittenCovered` | what the writer writes opens, reads back section by section, and is completely and securely covered |
| `AlgorithmProofs!AutoFindsWritten` | `open_auto`, if it succeeds on what the writer wrote before a JAR, answers with the writer's boundary |
| `AlgorithmProofs!CmsAuthentic`, `SignedPackageAuthentic`, `CmsComplete` | who is pinned signed this very document; an accepted package is one that its publisher packed; what `sign` makes is accepted |
| `AlgorithmProofs!SelectNewest`, `SelectIndependent`, `PrimaryPolicyNewest`, `SignerMaySign` | OpenPGP: the statement in force is the latest one that nothing withdraws, in any order of the packets, and a key signs only under it |
| `AlgorithmProofs!PgpAuthentic`, `PgpComplete` | an authenticated document was signed as it is by a key that might sign then and may now; what `OpenPgpSigner::sign` returns is authenticated |
| `AlgorithmProofs!VersionOrder`, `ParsedRangeHolds` | versions are totally ordered; `contains` on a parsed range answers what its nearest bounds say |
| `AlgorithmProofs!TargetReadsBack`, `AcceptedStandsFor` | `target()` of an accepted selector means the same request on every host; a release that a request accepts can stand for it |

The theorems above those of `AlgorithmProofs` are all the safety properties of the passing
runs other than `algorithms`. That run compares bounded inputs with reference definitions;
`AlgorithmProofs` proves, for inputs of any size, what `ContainersAuthentic`,
`SignersAuthentic`, `RangesHold` and `RequestsHold` check of `Container`, `JarTail`,
`Cms`, `OpenPgp`, `JavaVersions` and `SdkRequests`. They are stated of the operators
themselves, since those invariants speak of the enumerated inputs.

**Assumptions** are `SdkAssumption`, `AppAssumption`, `StoreAssumption`,
`AppStoreAssumption`, `SelfAssumption` and `HostAssumptions`: the types of the
constants, that a build matches its own exact request, that the order of builds is
strict, and that `NoId` and its like are not real values. No set need be finite: the
newest of any set of builds exists because ranks are natural numbers. Three further
assumptions stand in the theorems that need them:

* `ReleasesImmutable` in `AppRegistryProofs`; `app_republished` shows what happens
  otherwise. `AppStoreProofs` does not use it.
* `~FreshHome` in both `LeasesProtect`. Where no lock file exists yet, a reader
  proceeds without a lock: it may lease something that is removed meanwhile and run
  from what is left of it, and a later install may put it back.
  `LeasedNeverRemoved` and `RunningNeverRemoved` are what holds without the assumption.
* different lengths in `DownloadWhole`, because `download_archive` compares nothing
  but lengths. `DownloadWholeByLength` is what holds without it.

The theorems of `AlgorithmProofs` are about operators and name what they need of
their arguments: files, tables and packets that are decoded (`Decoded`, `Dated`,
`Certified`, `RecordNumbers`: lengths and dates are numbers, certificates have their
fields);
external regions that the caller recorded (`Recorded` in `WrittenCovered`); certificates
in force and keys that match them, in the two theorems that say what is accepted;
fingerprints that tell a certificate's keys apart (`PgpComplete`); and tables of products
in which no tool name is another product's id and no variant is empty
(`TablesAgree`, which TLC evaluates on the tables of the run). `SignedOnly` in the two
CMS theorems is the cryptographic assumption: the owner of the pinned key signed
nothing outside the given set.

**SDK registry.** `SdkModelProofs` has a lemma per update function: what it makes
of a readable registry is readable. The delicate one is `Forget`: a default that
follows a request may resolve through a binding or as the newest match; after an
uninstall of a build that is no default, both give the build they gave before
(`ForgetKeepsRequests`, `NewestKept`).

**SDK store.** `RegistryNamesWholeTrees` is not inductive: a save installs a
registry computed some steps ago. `IInv` adds that one process at most is in the
phases of a writer (`LockInv`); what each phase knows of its request and build
(`JobInv`); that a registry about to be saved is one command applied to the
registry *on disk now* and names only builds that are ready (`PendingInv`);
and that a tree being removed is no longer registered (`RemovalInv`). Every action
has one of three shapes (a command returns, moves on without the lock, or stages a
new registry), each a lemma, so the inductive step is a case split that cites
them. Refinement follows from `PendingInv`: the only step that changes `registry`
is `Save`. `LeasesProtect` needs that leased builds stay registered, for which an
uninstall must see the shared leases under the lock (`LeaseInv`). `LeasedNeverRemoved`
needs less: an exclusive lease excludes shared ones, and an install that publishes a
tree has found none in its place under the lock it still holds (`ExclusiveInv`).

**Waiting.** A command waits for the registry lock, or for a lease that another one has
taken to remove something (`Waits`). In the phases that hold the lock exclusively,
removal among them, nothing waits. The lock is held shared only while a command looks
up or selects (`SharedInv`); it may then wait for a lease, but a lease is taken for
removal under the exclusive lock only, which is free of others while the shared one is
held. So whoever is waited for waits for no other command (`WaitedForNeverWaits`), in any
home and for any number of commands; a command that probes a Java waits for that program,
which holds nothing of the store. That every wait ends (`LockReleased`) follows from this with
fairness; TLC checks it.

**Application registry.** `RegistryReadable` is strengthened by the fact that a
command that follows a request resolves by a binding or by the only release of an
exact request; this is what makes the next update of the request keep it resolved.

**Application store.** The invariant has the shape of the SDK store's: `LockInv`,
and per process what its phase knows (`ProcInv`: `JobKnown` of the request and
release, `PendingKnown` of the registry it is about to save, `RecordGone` of the
directory it removes). Both levels define a change of the registry by the same
functions, so the pending registry is related to the one on disk by
`AppModelProofs!Change`, and the three properties of changes follow from the one fact
that only `Save` changes the registry: refinement because every change is a command
of `AppRegistry`, `CommandOwnerKept` because the name is checked again under the lock
(`OwnersKept`), `PinHeld` because the pin is. Readability is not part of the
invariant, since it needs `ReleasesImmutable`; `Sound` has the types and references
that hold in any case. `RunningKept` adds that a leased release stays registered
(`LeaseInv`), `RunningNeverRemoved` only that a lease taken exclusively for removal
excludes the shared ones (`ExclusiveInv`).

**Self update.** `CopySurvives` needs where every command stands: a target is
empty only while the holder of the lock has its backup, or a kept directory has a
candidate (`BackupInv`), since cleanup takes backups but leaves candidates.
`LatestNeverDowngrades` needs that what an update has staged is newer than the image
it runs as from the check to the publication (`NewerInv`).

**Dependency cache.** A process that is about to publish a record has content
that verifies and has been published, and content files are never removed
(`PublishInv`). The argument uses no lock, and so holds for every division of the
processes into Hosts and JVMs.

**`use --project`.** What a command found for its targets still resolves when it
writes, because, if it found the lock file, it holds the registry's lock shared from the resolution to the write
and an uninstall needs that lock exclusively (`ResolvedInv`).

**Download.** The first `offset` bytes of the file are, each in its place, bytes of
versions of the announced length (`CompletedInv`), and an accepted answer continues
them within the archive and the limit (`ReplyInv`). A changed length
is noticed, a changed content of equal length is not, hence the two theorems.

**Integration.** An entry that is neither absent nor foreign is in the record
(`RecordedInv`), but a command saves a record that is shorter than the one it loaded.
`ProcInv` says what makes that safe at each step of the holder of the lock: the record
on disk has caught up with the one it loaded, desired manifest included, before it
changes anything (`LoadedInv`); what is generated is desired or still to be replaced
or removed (`LeftInv`); and foreign content where it may still write or remove came
after it had looked (`LookedInv`). When the loop ends, every generated content that is
still there belongs to the desired manifest, which is what `Finish` saves.

**Runtime cache.** A probe reads stamps file by file, so neither fingerprint need be
a state of the installation. But generations never go back: the stamp of each file
in the first fingerprint is no later than what the launcher read, and that is no
later than the stamp in the second one (`BetweenInv`). If the fingerprints agree, the
result is squeezed between them.

**Container.** `Open` succeeds only on one layout of the file (`OpenLayout`), and the
checks of the table make sections lie side by side from the magic number to the
metadata (`TableHolds`). With complete coverage every cell is in one checked region, so
equal metadata mean equal digests region by region, and equal regions in equal places
are equal files. For the writer the table is followed through the loop that adds the
sections (`WrittenTable`): each offset is the sum of the lengths before it. A JAR
is recognised by records that point backwards, relative to where they stand, so
`candidate_ends` sees it in the same way wherever it begins (`CandidatesMove`); the writer's
boundary is therefore among those that `open_auto` tries, and only one may open.

**Signatures.** CMS: the accepted signer of a pinned certificate has signed attributes with
one message digest, which is the digest of the input. OpenPGP: `select` is a loop over
packets, with an invariant that relates its state to the packets seen so far
(`SelectLoop`): the latest statement and the latest withdrawal, each the greatest by
date. Two statements of one second that differ are refused when they meet, which can
depend on the order of the packets; what is chosen when nothing is refused does not
(`SelectIndependent`). `primary_policy` is the same argument over direct-key signatures and
identities, and `validate_signer` and `authenticate` follow.

**Versions and ranges.** A comparison goes by the first difference of two sequences that
are continued without end, by zeros after the numbers and by a key that places a release
after its pre-releases; that gives the order. `contains` walks along the boundaries
and answers by the last one it has passed (`Scanned`). The parser's check that
boundaries ascend is what makes the last one passed the nearest one, so that the
answer is the meaning of the range (`ParsedTimeline`, `InRange`).

**Requests.** `target` writes every qualifier that `parse` would otherwise take from the
host, so nothing of the reading host enters (`TargetRead`). The versions of Java are compared
number by number with zeros for missing ones, of which `accepts` on releases is an
equivalence; a series of Java (`8` as an accepted version of `8.0`) is the exception that
`AcceptedStandsFor` states.

**Model-checked only.** Liveness under fairness (`LockReleased`, `Ends`, `Healed`) is
beyond the prover. Loops that are recursive functions are proved about by two first-order
lemmas (`Smallest`, from the well-foundedness of the numbers, and `Recursion`); but
modules with recursive operators (`Blob`, `ClassPool`, `Encoding`, `JarImport`, `Launch`,
`Maven`, `Resource`) and `AppRequests`, which folds, have no theorems:
`ClassesRestore`, `BlobsResolve`, `ResourcesMaterialize`, `OneEncoding`,
`ClasspathsCollected`, `LaunchesAuthorized` and what `RequestsHold` says of package URLs
are checked on bounded inputs.

## 5. Not modelled

Texts below the level of a syntax tree (characters of JSON, XML, TOML, version and
PURL texts), compression, digests and cryptographic primitives are abstracted to
identities and relations between them. File system
calls are atomic where the code relies on it (rename, lock) and `remove_dir_all` is
not. Durability after a power failure is not modelled: the code syncs temporary
files but makes no claim about directories.

The components that `PROJECT.json` lists as `not_modelled` are:

* system calls and output without logic of their own: `janex-platform`, `janex-cli`,
  `integration/render.rs`, generated shell code, the native launcher;
* archive extraction (library decoders into a private directory, which `SdkStore`
  publishes in one step) and the provider catalogs (data that the registries draw
  from their constants);
* the Java reader, writer and file system, a second implementation of the format
  that is modelled from the first;
* of the Java bootstrap, the session of `Standalone.java`, whose shutdown hook may run
  between the start of the child and its assignment (line 114), and the resource
  index, whose `close` may meet a load (`ResourceIndex.java`, line 508);
* the vendored Gradle wrapper.

Of partly modelled components the notes in `PROJECT.json` say what is missing: the
precedence of explicit, environment, project and default SDK selections, the search
for the nearest project file, the metadata cache and the redirect rules of
downloads, descriptive application metadata, and the index that a launch hands to
the bootstrap.

## 6. Plan

1. Theorems about `AppRequests`, whose folds would become recursive functions as in
   `Container` and `OpenPgp`; then the smaller of the modules with recursive operators
   (`Encoding`, `Blob`).
2. `StandaloneSession` and the resource index of the bootstrap; SDK selection
   precedence; the metadata cache.
