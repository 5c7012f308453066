---------------------- MODULE CapabilityDiscoveryProofs ----------------------
(***************************************************************************)
(* Theorems about CapabilityDiscovery: the scores of resolver.search and the *)
(* registry adapters, for every catalog, offer, registry list and policy.   *)
(***************************************************************************)
EXTENDS CapabilityDiscovery, TLAPS

\* What the score of a candidate says about where it comes from and what matches.
Scored(c) ==
    /\ c.source = "catalog" => c.score = CatalogScore(c.manifest)
    /\ c.source # "catalog" =>
          /\ c.score <= ScoreManifest(c.manifest)
          /\ c.score >= ScoreManifest(c.manifest) - 16
AllScored == \A c \in found : c \in Candidate /\ Scored(c)

\* A candidate is chosen out of the filtered ones, best first.
ChosenIsBest ==
    \A c \in chosen :
        /\ pc = "found" /\ c \in found /\ Eligible(c)
        /\ \A d \in found : Eligible(d) => SortedBefore(c, d)
Filtered == pc \in {"choose", "found", "not_found"} => \A c \in found : Admitted(c)
NoneYet == pc # "found" => chosen = {}
InOrder == asked \in 0..Len(Registries)

\* The inductive invariant.
Inv == AllScored /\ ChosenIsBest /\ Filtered /\ NoneYet /\ InOrder

\* The range of a score: 7.0 for two matches down to -0.75 for none.
LEMMA ScoreRange ==
    ASSUME NEW m \in Manifest
    PROVE  /\ ScoreManifest(m) \in Int
           /\ ScoreManifest(m) <= 28
           /\ m.inId => ScoreManifest(m) >= 17
           /\ m.inDesc => ScoreManifest(m) >= 5
           /\ ~m.inId /\ ~m.inDesc => ScoreManifest(m) <= 0
<1>1. TrustRank(m.trust) \in 0..3
  BY DEF TrustRank, Trust, Manifest
<1>2. m.inId \in BOOLEAN /\ m.inDesc \in BOOLEAN
  BY DEF Manifest
<1> QED
  BY <1>1, <1>2 DEF ScoreManifest

\* Candidates of the catalog are scored as search scores them.
LEMMA CatalogScored ==
    ASSUME NEW c \in Catalogs, NEW x \in CatalogCandidates(c)
    PROVE  x \in Candidate /\ Scored(x)
<1>1. PICK m \in c : x = [manifest |-> m, source |-> "catalog", score |-> CatalogScore(m)]
  BY DEF CatalogCandidates
<1>2. m \in Manifest
  BY <1>1, CatalogsAssumption
<1>3. CatalogScore(m) \in Int
  BY <1>2, ScoreRange DEF CatalogScore
<1> QED
  BY <1>1, <1>2, <1>3 DEF Candidate, Scored, Source

\* What a registry lists loses at most 4.0.
LEMMA OffersScored ==
    ASSUME NEW a \in Adapter, NEW offers \in Offers[a], NEW x \in ListedBy(a, offers)
    PROVE  x \in Candidate /\ Scored(x)
<1>1. PICK o \in offers :
        x = [manifest |-> o.manifest, source |-> a,
             score |-> ScoreManifest(o.manifest) - Penalty(a, o)]
  BY DEF ListedBy
<1>2. o \in Offer /\ o.manifest \in Manifest /\ o.shell \in BOOLEAN
  BY OffersAssumption DEF Offer
<1>3. Penalty(a, o) \in 0..16
  BY <1>2 DEF Penalty, Adapter
<1>4. ScoreManifest(o.manifest) \in Int
  BY <1>2, ScoreRange
<1>5. a # "catalog" /\ a \in Source
  BY DEF Adapter, Source
<1> QED
  BY <1>1, <1>2, <1>3, <1>4, <1>5 DEF Candidate, Scored

\* The invariant holds in every reachable state.
THEOREM Invariance == Spec => []Inv
<1>1. Init => Inv
  BY RegistriesAssumption DEF Init, Inv, AllScored, ChosenIsBest, Filtered, NoneYet, InOrder
<1>2. Inv /\ [Next]_vars => Inv'
  <2> SUFFICES ASSUME Inv, [Next]_vars PROVE Inv'
    OBVIOUS
  <2> USE DEF Inv, AllScored, ChosenIsBest, Filtered, NoneYet, InOrder
  <2>1. CASE Resolve
    BY <2>1 DEF Resolve
  <2>2. CASE ReadCatalog
    BY <2>2, CatalogScored DEF ReadCatalog
  <2>3. CASE AskRegistry
    <3>1. Registries[asked + 1] \in Adapter
      BY <2>3, RegistriesAssumption DEF AskRegistry
    <3>2. asked + 1 \in 0..Len(Registries)
      BY <2>3, RegistriesAssumption DEF AskRegistry
    <3> QED
      BY <2>3, <3>1, <3>2, OffersScored DEF AskRegistry
  <2>4. CASE ApplyConstraints
    BY <2>4 DEF ApplyConstraints, Admitted
  <2>5. CASE Choose
    BY <2>5 DEF Choose, Admitted, Eligible, SortedBefore, Position
  <2>6. CASE ChooseNone
    BY <2>6 DEF ChooseNone, Admitted
  <2>7. CASE Answer
    BY <2>7, RegistriesAssumption DEF Answer
  <2>8. CASE UNCHANGED vars
    BY <2>8 DEF vars, Admitted, Eligible, SortedBefore, Position
  <2> QED
    BY <2>1, <2>2, <2>3, <2>4, <2>5, <2>6, <2>7, <2>8 DEF Next
<1> QED
  BY <1>1, <1>2, PTL DEF Spec

\* What it takes to be chosen over a candidate that could have been.
LEMMA ChosenScore ==
    ASSUME Inv, NEW c \in chosen, NEW d \in found, Eligible(d)
    PROVE  c \in Candidate /\ Scored(c) /\ d \in Candidate /\ Scored(d) /\ c.score >= d.score
<1>1. SortedBefore(c, d) /\ c \in found
  BY DEF Inv, ChosenIsBest
<1>2. c \in Candidate /\ d \in Candidate
  BY <1>1 DEF Inv, AllScored
<1>3. c.score \in Int /\ d.score \in Int
  BY <1>2 DEF Candidate
<1> QED
  BY <1>1, <1>2, <1>3 DEF Inv, AllScored, SortedBefore

\* A catalog entry that matches the intent is resolved to before anything the
\* registries list (resolver.py, search: the catalog's bonus).
THEOREM CatalogFirst == Spec => []CatalogMatchWins
<1>1. Inv => CatalogMatchWins
  <2> SUFFICES ASSUME Inv, NEW d \in found, d.source = "catalog", Relevant(d),
                      NEW c \in chosen
               PROVE  c.source = "catalog" /\ Relevant(c)
    BY DEF CatalogMatchWins
  <2>1. Eligible(d)
    BY DEF Inv, ChosenIsBest, Filtered, Eligible
  <2>2. c \in Candidate /\ Scored(c) /\ d \in Candidate /\ Scored(d) /\ c.score >= d.score
    BY <2>1, ChosenScore
  <2>3. c.manifest \in Manifest /\ d.manifest \in Manifest /\ c.score \in Int /\ d.score \in Int
    BY <2>2 DEF Candidate
  <2>4. d.score >= 45
    <3>1. ScoreManifest(d.manifest) >= 5 /\ ScoreManifest(d.manifest) \in Int
      BY <2>3, ScoreRange DEF Relevant
    <3> QED
      BY <2>2, <3>1 DEF Scored, CatalogScore
  <2>5. c.score >= 45
    BY <2>2, <2>3, <2>4
  <2>6. ScoreManifest(c.manifest) \in Int /\ ScoreManifest(c.manifest) <= 28
    BY <2>3, ScoreRange
  <2>7. c.source = "catalog"
    BY <2>2, <2>3, <2>5, <2>6 DEF Scored
  <2>8. ScoreManifest(c.manifest) > 0
    BY <2>2, <2>5, <2>6, <2>7 DEF Scored, CatalogScore
  <2>9. Relevant(c)
    BY <2>3, <2>6, <2>8, ScoreRange DEF Relevant, Manifest
  <2> QED
    BY <2>7, <2>9
<1> QED
  BY <1>1, Invariance, PTL

\* No penalty makes up for the identifier: a candidate whose identifier contains
\* the intent is not passed over for one that matches nothing (discovery.py).
THEOREM IdentifierCounts == Spec => []IdentifierMatchCounts
<1>1. Inv => IdentifierMatchCounts
  <2> SUFFICES ASSUME Inv, NEW d \in found, Eligible(d), d.manifest.inId, NEW c \in chosen
               PROVE  Relevant(c)
    BY DEF IdentifierMatchCounts
  <2>1. c \in Candidate /\ Scored(c) /\ d \in Candidate /\ Scored(d) /\ c.score >= d.score
    BY ChosenScore
  <2>2. c.manifest \in Manifest /\ d.manifest \in Manifest /\ c.score \in Int /\ d.score \in Int
    BY <2>1 DEF Candidate
  <2>3. ScoreManifest(d.manifest) >= 17 /\ ScoreManifest(d.manifest) \in Int
    BY <2>2, ScoreRange
  <2>4. d.score >= 1
    BY <2>1, <2>2, <2>3 DEF Scored, CatalogScore
  <2>5. c.score >= 1
    BY <2>1, <2>2, <2>4
  <2>6. ScoreManifest(c.manifest) \in Int
    BY <2>2, ScoreRange
  <2>7. ScoreManifest(c.manifest) > 0
    BY <2>1, <2>2, <2>5, <2>6 DEF Scored, CatalogScore
  <2> QED
    BY <2>2, <2>6, <2>7, ScoreRange DEF Relevant, Manifest
<1> QED
  BY <1>1, Invariance, PTL

\* The state of a call keeps its type, and there is a candidate to answer exactly
\* when the call has found one.
THEOREM TypeCorrect == Spec => []TypeOK
<1>1. Init => TypeOK
  BY RegistriesAssumption DEF Init, TypeOK
<1>2. TypeOK /\ Inv /\ Inv' /\ [Next]_vars => TypeOK'
  <2> SUFFICES ASSUME TypeOK, Inv, Inv', [Next]_vars PROVE TypeOK'
    OBVIOUS
  <2>1. asked' \in 0..Len(Registries) /\ found' \in SUBSET Candidate /\ chosen' \in SUBSET Candidate
    BY DEF Inv, AllScored, ChosenIsBest, InOrder
  <2>2. /\ pc' \in {"idle", "catalog", "registries", "choose", "found", "not_found"}
        /\ constraint' \in Constraints
    BY DEF TypeOK, Next, Resolve, ReadCatalog, AskRegistry, ApplyConstraints, Choose,
           ChooseNone, Answer, vars
  <2>3. pc' = "found" => chosen' # {}
    BY DEF TypeOK, Next, Resolve, ReadCatalog, AskRegistry, ApplyConstraints, Choose,
           ChooseNone, Answer, vars
  <2>4. chosen' # {} => pc' = "found"
    BY DEF Inv, ChosenIsBest
  <2> QED
    BY <2>1, <2>2, <2>3, <2>4 DEF TypeOK
<1> QED
  BY <1>1, <1>2, Invariance, PTL DEF Spec
=============================================================================
