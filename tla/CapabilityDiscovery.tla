------------------------- MODULE CapabilityDiscovery -------------------------
(***************************************************************************)
(* CapabilityResolver.search and .resolve (src/src/resolver.py) over the    *)
(* registry adapters and the scoring of src/src/discovery.py.  The merged   *)
(* catalog is read under the shared store lock, then each configured        *)
(* registry is asked in turn without it, so what each answers is whatever   *)
(* it holds at that moment.                                                 *)
(*                                                                         *)
(* A manifest keeps what a score depends on: whether its identifier and its *)
(* description contain the intent, and its trust level.  Scores are counted *)
(* in quarters, which the code's floats represent exactly.                  *)
(***************************************************************************)
EXTENDS Integers, Sequences, FiniteSets

CONSTANTS
    Catalogs,    \* the contents the merged catalog may have
    Offers,      \* the answers each registry may give
    Registries,  \* the configured adapters, in the order they are asked
    TrustAllow,  \* the policy's trust_allow
    Constraints  \* the trust_allow constraints clients send ({}: none)

Trust == {"verified", "local", "community", "untrusted"}
Manifest == [inId : BOOLEAN, inDesc : BOOLEAN, trust : Trust]

\* An entry of an HTTP catalog carries its manifest or only a shell of it with
\* a manifest_url.
Offer == [manifest : Manifest, shell : BOOLEAN]
Adapter == {"static_catalog", "http_catalog", "mcp_registry"}

ASSUME CatalogsAssumption == Catalogs \subseteq SUBSET Manifest
ASSUME OffersAssumption ==
    \A a \in Adapter : Offers[a] \subseteq SUBSET Offer
\* McpRegistryAdapter makes every manifest itself, as untrusted.
ASSUME McpAssumption ==
    \A o \in UNION Offers["mcp_registry"] : o.manifest.trust = "untrusted"
ASSUME RegistriesAssumption == Registries \in Seq(Adapter)
ASSUME TrustAssumption == TrustAllow \subseteq Trust /\ Constraints \subseteq SUBSET Trust

Source == Adapter \cup {"catalog"}
Candidate == [manifest : Manifest, source : Source, score : Int]

VARIABLES
    pc,          \* "idle", "catalog", "registries", "choose", "found", "not_found"
    constraint,  \* the call's trust_allow constraint
    asked,       \* registries asked so far
    found,       \* candidates collected so far
    chosen       \* the candidate resolve returns, {} when there is none

vars == <<pc, constraint, asked, found, chosen>>

TypeOK ==
    /\ pc \in {"idle", "catalog", "registries", "choose", "found", "not_found"}
    /\ constraint \in Constraints
    /\ asked \in 0..Len(Registries)
    /\ found \in SUBSET Candidate
    /\ chosen \in SUBSET Candidate
    /\ (pc = "found") = (chosen # {})

Init ==
    /\ pc = "idle"
    /\ constraint \in Constraints
    /\ asked = 0
    /\ found = {}
    /\ chosen = {}

-----------------------------------------------------------------------------

TrustRank(level) ==
    CASE level = "verified" -> 0
      [] level = "local" -> 1
      [] level = "community" -> 2
      [] level = "untrusted" -> 3

\* score_manifest: 5.0 for the identifier, 2.0 for the description, less 0.25 a rank.
ScoreManifest(m) ==
    (IF m.inId THEN 20 ELSE 0) + (IF m.inDesc THEN 8 ELSE 0) - TrustRank(m.trust)

\* Mutant of CatalogScore: the catalog gets no bonus.
CatalogScore_NoBonus(m) == ScoreManifest(m)

\* search adds 10.0 to a catalog entry whose score is positive.
CatalogScore(m) == ScoreManifest(m) + (IF ScoreManifest(m) > 0 THEN 40 ELSE 0)

\* Mutant of Penalty: an MCP candidate loses one point more.
Penalty_McpFive(adapter, offer) ==
    CASE adapter = "static_catalog" -> 0
      [] adapter = "http_catalog" -> IF offer.shell THEN 12 ELSE 8
      [] adapter = "mcp_registry" -> 20

\* What each adapter takes off: nothing, 2.0 or 3.0 for HTTP catalogs, 4.0 for MCP.
Penalty(adapter, offer) ==
    CASE adapter = "static_catalog" -> 0
      [] adapter = "http_catalog" -> IF offer.shell THEN 12 ELSE 8
      [] adapter = "mcp_registry" -> 16

CatalogCandidates(c) ==
    {[manifest |-> m, source |-> "catalog", score |-> CatalogScore(m)] : m \in c}
ListedBy(adapter, offers) ==
    {[manifest |-> o.manifest, source |-> adapter,
      score |-> ScoreManifest(o.manifest) - Penalty(adapter, o)] : o \in offers}

\* The constraint filter of search; resolve then takes catalog entries and what
\* enforce_install lets through.
Admitted(c) == constraint = {} \/ c.manifest.trust \in constraint
Eligible(c) ==
    Admitted(c) /\ (c.source = "catalog" \/ c.manifest.trust \in TrustAllow)

\* Position of a source in the list search sorts; the sort is stable, and the
\* order within one source is the catalog's or the registry's own.
Position(source) ==
    IF source = "catalog" THEN 0
    ELSE CHOOSE n \in DOMAIN Registries : Registries[n] = source
SortedBefore(c, d) ==
    c.score > d.score \/ (c.score = d.score /\ Position(c.source) <= Position(d.source))

-----------------------------------------------------------------------------

Resolve ==
    /\ pc = "idle"
    /\ pc' = "catalog"
    /\ constraint' \in Constraints
    /\ UNCHANGED <<asked, found, chosen>>

\* The effective catalog, read under LOCK_SH.
ReadCatalog ==
    /\ pc = "catalog"
    /\ \E c \in Catalogs : found' = CatalogCandidates(c)
    /\ pc' = "registries"
    /\ UNCHANGED <<constraint, asked, chosen>>

\* One registry answers, or raises (unreachable, not https, an entry that does
\* not validate) and contributes nothing.
AskRegistry ==
    /\ pc = "registries" /\ asked < Len(Registries)
    /\ LET a == Registries[asked + 1] IN
          \/ \E offers \in Offers[a] : found' = found \cup ListedBy(a, offers)
          \/ UNCHANGED found
    /\ asked' = asked + 1
    /\ UNCHANGED <<pc, constraint, chosen>>

ApplyConstraints ==
    /\ pc = "registries" /\ asked = Len(Registries)
    /\ found' = {c \in found : Admitted(c)}
    /\ pc' = "choose"
    /\ UNCHANGED <<constraint, asked, chosen>>

\* The candidates are tried best first; policy errors move on to the next one.
Choose ==
    /\ pc = "choose"
    /\ \E c \in found :
          /\ Eligible(c)
          /\ \A d \in found : Eligible(d) => SortedBefore(c, d)
          /\ chosen' = {c}
    /\ pc' = "found"
    /\ UNCHANGED <<constraint, asked, found>>

\* Mutants of ChooseNone: it answers as if it had found one; it is only prepared
\* for a search without candidates.
ChooseNone_Found ==
    /\ pc = "choose"
    /\ \A c \in found : ~Eligible(c)
    /\ pc' = "found"
    /\ UNCHANGED <<constraint, asked, found, chosen>>
ChooseNone_OnlyEmpty ==
    /\ pc = "choose" /\ found = {}
    /\ pc' = "not_found"
    /\ UNCHANGED <<constraint, asked, found, chosen>>

ChooseNone ==
    /\ pc = "choose"
    /\ \A c \in found : ~Eligible(c)
    /\ pc' = "not_found"
    /\ UNCHANGED <<constraint, asked, found, chosen>>

Answer ==
    /\ pc \in {"found", "not_found"}
    /\ pc' = "idle"
    /\ asked' = 0
    /\ found' = {}
    /\ chosen' = {}
    /\ UNCHANGED constraint

Next ==
    \/ Resolve \/ ReadCatalog \/ AskRegistry \/ ApplyConstraints
    \/ Choose \/ ChooseNone \/ Answer

Spec == Init /\ [][Next]_vars

\* A call goes on: the adapters' requests time out (discovery.py).
FairSpec == Spec /\ WF_vars(ReadCatalog \/ AskRegistry \/ ApplyConstraints
                                \/ Choose \/ ChooseNone \/ Answer)

-----------------------------------------------------------------------------

Relevant(c) == c.manifest.inId \/ c.manifest.inDesc

\* Whatever the registries offer, a catalog entry that matches the intent is
\* resolved to before any of them: the bonus exceeds what an untrusted rank
\* costs and what two matches bring (resolver.py, search and resolve).
CatalogMatchWins ==
    (\E c \in found : c.source = "catalog" /\ Relevant(c)) =>
        \A c \in chosen : c.source = "catalog" /\ Relevant(c)

\* A candidate whose identifier contains the intent is never passed over for one
\* that does not match at all, whichever adapter's penalty it bears.
IdentifierMatchCounts ==
    (\E c \in found : Eligible(c) /\ c.manifest.inId) => \A c \in chosen : Relevant(c)

\* Every resolve is answered, whichever registries fail.
ResolveReturns == pc = "catalog" ~> pc \in {"found", "not_found"}
=============================================================================
