SPECIFICATION FairSpec
CONSTANTS
    Catalogs <- MCCatalogs
    Offers <- MCOffers
    Registries <- MCRegistries
    TrustAllow = {"local", "verified", "untrusted"}
    Constraints = {{}, {"community", "untrusted"}}
INVARIANTS
    TypeOK
    CatalogMatchWins
    IdentifierMatchCounts
PROPERTIES
    ResolveReturns
