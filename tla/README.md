# unison-capabilities in TLA+

TLA+ models of the capability service of UnisonOS (the code under `src/`), the TLC runs that
check them and the TLAPS proofs about them. `PROJECT.json` lists components, runs,
mutants, theorems and hazards, and maps every definition to the lines it models.

## The system

One Python process (FastAPI, synchronous handlers in a thread pool, restarted by systemd
when it dies) serves a catalog of capabilities on the loopback interface. All of its state
that outlives a request, except for the replay guard's, is files below one store directory.

| Part | State it keeps | Operations | Correct when |
|---|---|---|---|
| store (`store.py`, `atomic.py`) | `manifest.local.json`, which overrides the shipped `manifest.base.json`; `manifests/<id>/<version>/` with a manifest and a meta file; `payloads/` | load, merge, upsert, delete, disable, remove, factory reset | no update is lost; catalog entries have their artifacts; a crash leaves nothing half done that is later taken for done |
| store lock (`locks.py`) | `flock` on `locks/store.lock` | shared, exclusive | a writer excludes everybody; everybody gets on |
| installer (`installer.py`) | staging directories under `tmp/staging` | stage, promote by rename, clean up | an artifact appears whole or not at all, and never changes |
| resolver (`resolver.py`, handlers in `server.py`) | none of its own | search, resolve, install, run, list, get, remove | each call has its effect at one instant and answers what it did |
| policy (`policy.py`) | none | may a manifest be installed, may it run | nothing runs disabled or without its token |
| discovery (`discovery.py`) | none; asks static, HTTP and MCP registries | list, score | the candidates' order follows catalog, match and trust |
| onboarding (`oauth.py`) | `tmp/oauth.sessions.json`; codes and tokens in the secrets backend | start, complete | an enabled connector has a token; a session on file can be completed; one approval, one token |
| secrets (`credential_secrets.py`) | `secrets.enc.json`, one encrypted file, lock `locks/secrets.lock` | put, get, delete | an atomic map; never replaced under another key |
| execution (`execution.py`) | none | command, python, MCP tool, A2A request | a run executes at most once and its answer is true to that |
| egress (`egress.py`) | none; rules of the configuration and of a manifest | decide on a URL | no request leaves for where either set of rules does not let it |
| governance (`governance.py`) | the nonces seen, in memory | validate, authorize, consume | a decision is good for one execution, and for none once it has run out by the wall clock |
| semantic targets (`semantic_targets.py`) | none; signed bindings travel outside | bind, authorize | what is authorized is what was bound, in time |
| ecosystem (`ecosystem.py`) | the revoked identities, in memory | verify, compare, revoke | an update is signed and shown to a review when it may do more |
| authentication, authorisation, configuration (`security.py`, `config.py`) | none | keep remote clients out, authenticate, check the endpoint's tier | nothing is open unless it was asked to be |
| audit, metrics, health, schema, built-ins | none that decides anything | per request, or at start-up | see "Not modelled" |

Handlers of the resolver take the store lock: `install`, `remove` and the factory reset
exclusively, `get`, `list`, `search` and `run` shared, `run` for the whole execution and a
second time inside, through `get`. Registries, the provider and MCP servers are called
over HTTP with timeouts. Onboarding takes **no** lock on the store, although it updates
the same local catalog, and its session file lies in the directory a factory reset
deletes. It reaches the secrets backend, which has its own lock, call by call. A request
reaches a handler through the locality middleware, authentication and the tier's check;
a run passes the policy and the authority check before it is dispatched, and every URL of
an execution the manifest's network rules and the service's.

What is hard here: file operations of several threads in any order, read-modify-write of
whole files, a crash between any two file operations, a disk that fails after half of the
work (or after a rename has already taken effect), a provider that redeems a code once
whether or not its answer arrives, a registry that names the address of the second hop, a
nonce checked while others are, clocks that are set back, a session that ends while its
request is authenticated, and a lock held during executions. `PROJECT.json` lists each
such hazard at its line.

## Modules

| Module | Models | Built on |
|---|---|---|
| `CapabilityApi` | manifests, catalogs, requests and the rules the handlers apply to them | |
| `CapabilityStore` | the files of the store, and what failing deletions leave of them | `CapabilityApi` |
| `CapabilityService` | the handlers, one action per file operation, under the lock, with crashes and a failing disk | `CapabilityStore` |
| `CapabilityCatalog` | abstract: catalog operations that take effect at once | `CapabilityApi` |
| `CapabilityServiceProofs`, `CapabilityRefinement` | proofs about `CapabilityService` | `CapabilityService` |
| `OAuthOnboarding`, `OAuthOnboardingProofs` | start and complete, one action per read, write and call; proofs | `CapabilityApi` |
| `CapabilitySystem` | the process: handlers and onboarding on one catalog and one session file | `CapabilityService`, instance of `OAuthOnboarding` |
| `CapabilitySystemProofs` | proofs about `CapabilitySystem` | `CapabilitySystem`, `CapabilityServiceProofs` |
| `SecretsStore` | the encrypted file, one action per read and write, with crashes and failing writes | |
| `SecretsMap` | abstract: an atomic map | |
| `SecretsStoreProofs` | proofs about `SecretsStore` | `SecretsStore` |
| `CapabilityDiscovery`, `CapabilityDiscoveryProofs` | search and resolve over catalog and registries; proofs about the scores | |
| `EgressPolicy` | the decisions on a URL | |
| `CapabilityExecution`, `CapabilityExecutionProofs` | a run from the manifest in hand to the answer; proofs | `EgressPolicy` |
| `ExecutionAuthority` | decisions presented by several threads against a clock that may be set, nonces, restarts | |
| `SemanticTargets` | bindings issued, altered on the way and presented under a clock that may be set | |
| `CapabilityEcosystem` | a package and its updates, reviews and revocations | |
| `ServiceAccess` | the way of a request to its handler, for every configuration | |
| `ServiceControls`, `ServiceControlsProofs` | the four modules above side by side; proofs about each and about all | all four |
| `MC...` | instances for TLC | |

**State of the service.** A manifest is a record of what some branch of the code looks at;
its other content is `body`. A catalog is a function from identifiers to manifests or
`Absent`. `local` is the local catalog file, `artifact` the two files of each install
directory, `payload` the payload tree (`partial` when copying stopped half way), `stage` a
worker's staging directory, `orphans` those that were left behind. Each worker has its
program counter `pc`, its request, the manifest in hand, the catalog it read for the next
write and its settled answer. `shared` counts a worker's `LOCK_SH` descriptors,
`exclusive` is the set of `LOCK_EX` holders. `found` is history: the manifest that an
install found installed already. In `OAuthOnboarding`, `held` and `catalog` are
the copies of the session file and of the local catalog that a call writes back; `grant`
is what the provider thinks of each device code; `crossed` is history: the threads whose
call another call overlapped. In `SecretsStore`, `data` is the
plaintext a call read and `key` its backend's key.

**Actions of the service.** An action is the code between two points where another thread
or a crash can be noticed: one file operation, one call, one wait for a lock. The
atomicity of a file replacement is that of `os.replace` (`atomic.py`). A failing operation
goes on as the code's `except` and `finally` clauses do. `CapabilitySystem` synchronises
the two parts where they meet: `ResetTmp` also empties the session file, and a crash stops
both.

**The failing disk.** `DiskError` spends one of `MaxDiskErrors`. A write that raises may
have replaced its file all the same, since `atomic.py` synchronises the directory after
the rename: so the answer is an error and the file is old or new. An unlink that fails
ends a removal, and the resolver, which swallows it, answers success; files that
`rmtree(ignore_errors=True)` could not delete stay (`Leftovers`), install directories
that a reset leaves so are counted in `resetsCut`, staging directories in `orphans`. What
the answers promise about files (`AnswersHold`) is therefore stated for `diskErrors = 0`,
what catalog and disk promise each other (`CatalogBacked`) for `resetsCut = 0` only.
In `OAuthOnboarding` and `SecretsStore` any write may fail at any time, with either
outcome.

**Execution.** `pc` is how far a run is: its gates, the dispatch, the registry asked for
an MCP tool, the scan of its servers, the call. Registries answer any of `Listings` or
fail; a call that is under way may have had its effect whether or not an answer arrives.
`contacted` and `effects` are history: where requests went, how many executions were
begun. A host is the sequence of its labels, and a rule that is a URL prefix may end in
the middle of a host, as in the code.

**Reinstallation.** The installer leaves an installed version alone whatever manifest it is
given, while the resolver files that manifest in the catalog: an install may answer
success with one content in the catalog and another on disk. `AnswersHold` therefore says
that the disk holds the install's own manifest or the one it `found`, and `CatalogBacked`
compares identifier and version only.

**Replies of onboarding.** Two calls that overlap can each write back what both had read:
the later write erases the entry of a connector the other reports enabled, or a session
the other reports started. `EnabledInCatalog` and `RepliesHold` are therefore about the calls outside
`crossed`: any number of calls may run, overlap, fail and die before and after, and a call
that has the process's onboarding to itself must reply the truth on what they left.

**Controls.** `ExecutionAuthority` keeps the guard's set `seen` and per thread the manifest
and decision presented; the lookup and the insertion of a nonce are one step for the
reason given at `Consume`, so no property of it speaks of a race between the two.
Decisions are checked against `datetime.now`, a wall clock that may be set back: after a
restart a decision that had run out can then execute again. `ExpiredIsSpent` says that
this takes a clock set back, and that nothing less makes a decision that has run out
executable. In `SemanticTargets` a signature is what was signed, with which
secret; `clock` is seconds and a part of one, of which the code sees the seconds.
`CapabilityEcosystem` supposes the order in which a host would call the helpers, which
nothing in `src/` does yet. `ServiceAccess` has one request at a time, as requests share
no state there, with the principal's session changing under it. `ServiceControls` follows
one of the four in a behaviour: they have no state in common and none calls another, so
their product would show nothing more than their sum.

**Abstract specifications.** `CapabilityService!ImplementsAtomicCatalog` maps `local` to
the abstract catalog and each worker's settled answer to its result: install and remove
take effect as `_write_local_catalog` swaps the file, the factory reset as the file is
unlinked, get and run as the catalog is read. `SecretsStore!ImplementsSecretsMap` maps the
plaintext of the file to the abstract map. Both specifications say that a call which
answers an error may have taken effect, because of the late fsync above: an install that
is answered with an error may be in the catalog, and a client that repeats it is right.

## Runs

| Run | Shows | Distinct states |
|---|---|---|
| `service` | freshness, stable runs, catalog backed by disk, truthful answers, bounded staging, immutable and whole artifacts, refinement of the atomic catalog | 710 000 |
| `service_liveness` | every request is answered | 58 000 |
| `secrets` | key kept, refinement of the atomic map | 19 000 |
| `onboarding` | what two unlocked calls at a time keep: no dangling token reference, sessions that can be completed, one approval per token, one exchange per session, and true replies of the calls nobody overlapped | 1 900 000 |
| `system` | with handlers, resets, a crash and a failing disk around: no connector runs without a token, every entry has an origin | 3 100 000 |
| `discovery` | order of candidates, and that resolve always answers | 135 000 |
| `execution` | rules of service and manifest kept on both hops, one execution at most, true answers, tools called where they are listed, every run answered | 18 000 |
| `controls` | one execution per nonce and none after expiry until the clock is set back; nothing unbound or late authorized; nothing open or served without its rights; no package in use unsigned or unreviewed | 820 000 |
| `interrupted_reset` | *violated*: an install after an interrupted reset answers success without a manifest on disk | |
| `install_erased` | *violated*: an install is erased by an onboarding completion | |
| `local_tools_run` | *violated*: with default settings an enabled local tool is refused | |

The three violated properties state what the repository's README says; `PROJECT.json`
quotes it under "findings".

**Bounds.** `MaxCalls`, `MaxCrashes` and `MaxDiskErrors` cap the requests, crashes and disk
errors of a behaviour; no other counter grows. Three threads in `service` are a writer at
work, a second writer waiting and a reader; two versions and two contents of one tool, an
update of a shipped tool, a pinned remote manifest, a payload and a refused manifest take
every branch of install, and remove is asked of a shipped and of an installed capability.
Four calls are enough for install, remove, reset and a run to meet in any order, with one
crash and one disk error anywhere; `service_liveness` has no disk error, which ends or
shortens a call and makes none wait. `onboarding` has two threads, two connectors and two
sessions; five calls allow two starts, two completions and a retry, one after the other or
overlapping. `system` has two workers and one onboarding thread. In `secrets` a third client
and a second key are what it takes for two writers and a foreign backend to meet.
`discovery` runs over all catalogs of up to two entries and all single offers of the three
kinds of registry at the two ends of the trust scale. `execution` runs over tools of every
kind, complete or not, with narrow, wide and no network rules, and over listings of up to
two servers at addresses that are local, private, allowed, denied by a prefix, and next to
an allowed domain; runs are repeated without bound. `controls` has for the authority two
threads, four calls, one restart and a clock of three values around the expiry of two
decisions, set to any of them at any time, one of them also in a form that denies; for the targets one binding, altered in
any field and presented with either secret, and a clock in half seconds that is set to any
value; for access the modes and flags of file and environment with their conflicts, and
a session that ends, gains or loses a role; for the ecosystem packages with every set of
three permissions, two risks and two confirmations, and some that are unfit, unknown or
altered, which is enough for a permission to be given up and asked for again. Threads, sessions, handles, keys
and the values of a binding are symmetric: no definition names one, and the runs with
symmetry check no liveness.

**Fairness.** `CapabilityService!Fairness` is weak fairness of each worker's own steps: the
threads are scheduled, HTTP requests time out (5 s for a registry, 10 s for a tool, 15 s
for A2A) and commands are killed after at most 300 s (`execution.py`); a `python` tool that
never returns is excluded. Taking a request and crashing are never obliged. A lock is
waited for under weak fairness only, so the run relies on finitely many calls: with an
endless stream of overlapping readers `flock`, and so the service, can starve a writer.
`CapabilityDiscovery!FairSpec` and `CapabilityExecution!FairSpec` are weak fairness of a
call's steps, on the same grounds.

**Deadlock** is not checked where a behaviour may stop: all `MaxCalls` are spent, or, in
`controls`, the process refuses to start. `discovery` and `execution` never stop and are
checked for it.

**Mutants.** Definitions named `<Definition>_<Bug>` stand before the definition whose bug
they are. They are used by nothing; replacing the definition by its mutant breaks the
property that `PROJECT.json` names, which shows that the property depends on that code.

## Proofs

Every theorem holds for all values of the constants under the named assumptions of the
modules, which say no more than that the constants are of the right shape (a catalog files
each entry under its own identifier; `Absent` is none of the values; finitely many
threads). Each safety
property that a run checks is the statement of a theorem; `PROJECT.json` says which.
Every invariant below was first checked with TLC as an invariant of the run of its module.

* `CapabilityServiceProofs`: `Invariance` proves `Inv` of `CapabilityService` inductive,
  with a lemma for each conjunct and in it a step for each action. The safety properties
  are not inductive alone. `Dispatched` adds that a worker in a handler's step serves a
  request of that kind and holds its lock, from which `LockExclusion` makes the others
  stand still; `SettledOnce` and `InHand` say what each step has in hand;
  `DirectoriesWhole` says that a meta file without a manifest is the doing of a reset at
  work, that an install past its promotion has its manifest on disk, or the one
  it found there (`Left`), and that a removal has
  dropped its entry first, which is what `CatalogBacked` needs. The history variable
  `resetsCut` is there because a reset that a crash or the disk cuts short is what really
  breaks it (run `interrupted_reset`). From `Inv` follow `TypeCorrect`, `LockExcludes`,
  `NoUpdateLost`, `RunsAreStable` and `CatalogIsBacked`, and with the effect of each action
  on the install directories (`ArtifactStep`, `UnlinkEffects`, `ResetEffect`) the action
  properties `InstalledIsImmutable` and `InstalledIsWhole`.
  `AnswersAreTrue` needs in addition `Told`: of each handler, how much of its promise holds
  from each step on. It is kept because whoever settles an answer is a writer, and stands
  under `diskErrors = 0` and `resetsCut = 0` where the promise does. `StagingIsBounded`
  rests on `Staged`: only an install between staging and sweeping has a staging directory,
  and there is one such install at a time, so a crash orphans one.
* `CapabilityRefinement`: `HandlersAreAtomic`, by a step for each action that is mapped to
  an abstract action or a stutter; freshness (`WriteIsFresh`) is what makes the write of a
  whole file the update of one entry.
* `OAuthOnboardingProofs`: with no lock nothing can be said of freshness, so `Inv` is about
  every *copy*: each catalog a thread is about to write back refers to stored tokens only
  (`CopiesBacked`; the token is stored before the catalog is read), and each session file in
  hand can be completed (`CopiesCompletable`; codes vanish only after redemption, which is
  for good). `ExchangedRedeemed` gives `OneExchangeEach`, since the provider redeems a
  pending code once; `TokensCounted` compares the tokens with the redeemed sessions whose
  token is not still to be stored, which is what makes the count of `TokensGranted` go
  through. `EnabledIsInCatalog` and `RepliesAreTrue` hold for any number of threads: of two
  calls under way both have crossed (`Met`), so a call outside `crossed` is the only one to
  have stepped since it began, and `Got` says what it has reached by each of its steps;
  `AloneInv` is the two together. Without `crossed` TLC refutes both with two threads.
* `CapabilitySystemProofs`: once onboarding writes the catalog, the handlers' own `Inv` is
  lost: a write is no longer fresh and a run no longer stable (run `install_erased`).
  What remains of it is `Equipped` of `CapabilityServiceProofs`: what each handler has in
  hand by its own steps. `SystemInv` adds `SoundCatalog`: every manifest of the local
  catalog was shipped or let through by the policy, up to enablement and token reference,
  and its reference is to a stored token or was shipped or brought along; and the same of
  every copy of a catalog or manifest in the hand of a worker (`SoundIn`) or of an
  onboarding thread (`SoundAt`). Writing any sound copy back leaves a sound catalog, in
  whatever order copies were taken: hence `EntriesAreSourced` and
  `ConnectorsRunWithTokens`. tlapm does not export the theorems of a module that is
  instantiated, so the steps of onboarding are taken up again here, on the shared
  catalog. The proof showed that a connector may also be *shipped* with a token reference,
  which `ConnectorRunHasToken` must allow for (`Prebound`), as `BindingHasToken` does: such
  a reference runs before anything is onboarded.
* `SecretsStoreProofs`: the same as for the catalog, for the secrets file (`TypeCorrect`,
  `NoSecretLost`, `KeyIsKept`, `BackendIsAtomic`).
* `CapabilityDiscoveryProofs`: an invariant that bounds each candidate's score by its source
  and match, and from it `CatalogFirst` and `IdentifierCounts` for every catalog, offer and
  policy; `TypeCorrect`.
* `CapabilityExecutionProofs`: `EgressIsKept`, `ManifestIsKept`, `ExecutesOnce` and
  `CallsAsListed` for all rules, manifests and listings. The invariant adds `Progress` (what
  a run has sent and begun at each point of it) and `Targeted` (the server in hand is one
  the scan did not pass over).
* `ServiceControlsProofs`, in four parts:
  * decisions: `NoncesAreSingleUse`, `OnlyGovernedExecutes` and `ExpiryIsFinal` for any
    number of threads, calls and restarts and any clock. `Spent` is the strengthening: a nonce that was
    used or is about to be is in the guard or was forgotten in a restart, and two threads
    are never past the guard with the same one;
  * bindings: `NothingUnbound` and `WholeSecondsSuffice`, from `Dated` (an issued binding
    carries the whole second it was issued in plus its lifetime) and `Timed` (what the last
    answer says of the clock);
  * access: `AccessInv` says what the steps behind a request have established: the client
    is local or that was waived, the user is known by a credential, or by nothing where
    authentication is off and the flag agrees, and a session that was active on the way has
    the roles it is served with. From it `OpensOnlyOnRequest` and `ServesWithRights`, for
    any file, environment and sessions;
  * packages: `Vetted` with types is inductive as it stands (`PackageInv`), revocation
    touching neither what is installed nor what was reviewed: `PackagesAreVetted`.

  The lemma `ImplementsEach` carries what is proved of one part over to the four side by
  side (`ControlsKeepPromises`).

Only model-checked: the liveness properties `EveryCallReturns`, `ResolveReturns` and
`RunEnds`, which need fairness and `ENABLED` and are beyond the prover; and that the three
properties of the `violation` runs fail.

## Not modelled

* Directories: an `rmdir` or a listing that fails leaves an empty directory, which no
  property and no other operation of the program tells from none.
* Other processes on the store directory, and edits of its files by hand: the service is
  the only writer, and catalogs hold valid manifests only. `seed_tools.py` runs before it.
* The schema of manifests, evaluated by a library: every manifest of the models is valid,
  and one that is refused takes the same `Fail` steps.
* In the service, manifests with governance: the catalog's schema forbids the field, so
  `authorize_execution` refuses every entry unless `AllowLegacy`. `ExecutionAuthority` is
  about the library for any manifest; `run` passes it no revoked identities, and so neither
  does the model.
* The user name in a token's handle: tokens are told apart by capability. Ports and user
  information in URLs.
* How the token library verifies a bearer token, and that the auth service tells the
  truth: either answer is possible.
* What a caller does between reading a target's state and acting on the authorization: it
  is outside the program.
* Audit records, metrics and health: output that decides nothing. (Two requests counted at
  once may count as one.)
* Built-in tools, skill packs, seeding: leaf functions and a script that runs before.

Seen on the way, and stated by no document as wrong: a factory reset whose deletions
failed answers success; `search` may return a catalog entry that does not match the
query, with a low score; an empty list of roles or services in the configuration means
the default one.

## Plan

1. The guarantees of onboarding that survive among handlers and resets (`SessionHasCode`,
   `OneExchange`, `TokensWereGranted`) as theorems of `CapabilitySystem`.
2. That handlers and onboarding together implement a catalog whose entries change one at a
   time where no onboarding call overlaps a writer.
3. A run of governed manifests through the locked handlers, once the catalog's schema
   admits them.
