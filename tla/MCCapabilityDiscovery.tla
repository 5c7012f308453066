------------------------ MODULE MCCapabilityDiscovery ------------------------
(* Up to two catalog entries and one offer from each kind of registry, over   *)
(* every way an entry can match and every trust level.                        *)
EXTENDS CapabilityDiscovery

AtMost(n, S) == {s \in SUBSET S : Cardinality(s) <= n}
Single(S) == {{}} \cup {{x} : x \in S}

\* The trust levels at the two ends of the scale.
CatalogManifests == {m \in Manifest : m.trust \in {"verified", "untrusted"}}
MCCatalogs == AtMost(2, CatalogManifests)
MCOffers ==
    [a \in Adapter |->
        CASE a = "static_catalog" ->
                Single([manifest : {m \in Manifest : m.trust \in {"verified", "untrusted"}}, shell : {FALSE}])
          [] a = "http_catalog" ->
                Single([manifest : {m \in Manifest : m.trust \in {"community", "untrusted"}}, shell : BOOLEAN])
          [] a = "mcp_registry" ->
                Single([manifest : {m \in Manifest : m.trust = "untrusted"}, shell : {FALSE}])]
MCRegistries == <<"static_catalog", "http_catalog", "mcp_registry">>
=============================================================================
