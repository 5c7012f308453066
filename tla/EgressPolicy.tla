---------------------------- MODULE EgressPolicy ----------------------------
(***************************************************************************)
(* The decisions of src/src/egress.py on a URL: the service's own policy    *)
(* (EgressController.check_url) and a manifest's network permission         *)
(* (enforce_manifest_network).                                              *)
(*                                                                         *)
(* A host is the sequence of its labels, an IP address one label.  The text *)
(* of a URL is its scheme, labels and path segments in order, so a rule     *)
(* that is a URL prefix may end between two labels of a host, as it may in  *)
(* the code.  Upper case is taken to be folded; ports are left out.         *)
(***************************************************************************)
EXTENDS SequencesExt, Naturals

CONSTANTS
    Labels,              \* schemes, labels of hosts, segments of paths
    PrivateHosts,        \* hosts that are private, link-local or loopback addresses
    Allowlist, Denylist, \* EgressConfig's rules
    AllowPrivateNetworks

Url == [scheme : Labels, host : Seq(Labels), path : Seq(Labels)]

\* A rule is a URL prefix (it contains "://"), a host, or a host under "*.".
Rule == [kind : {"prefix", "host", "wildcard"}, text : Seq(Labels)]

LoopbackNames == {<<"127.0.0.1">>, <<"::1">>, <<"localhost">>}

ASSUME PrivateAssumption == PrivateHosts \subseteq Seq(Labels)
ASSUME RulesAssumption == Allowlist \subseteq Rule /\ Denylist \subseteq Rule
ASSUME FlagAssumption == AllowPrivateNetworks \in BOOLEAN

Text(url) == <<url.scheme>> \o url.host \o url.path

Matches(rule, url) ==
    CASE rule.kind = "prefix" -> IsPrefix(rule.text, Text(url))
      [] rule.kind = "host" -> rule.text # <<>> /\ url.host # <<>> /\ IsSuffix(rule.text, url.host)
      [] rule.kind = "wildcard" -> url.host # <<>> /\ IsStrictSuffix(rule.text, url.host)
Listed(rules, url) == \E rule \in rules : Matches(rule, url)

\* Mutant of CheckUrl: with private networks allowed, they need no allow rule.
CheckUrl_PrivateReturns(url) ==
    /\ url.scheme \in {"http", "https"}
    /\ url.host # <<>>
    /\ \/ url.host \in LoopbackNames
       \/ url.host \in PrivateHosts /\ AllowPrivateNetworks
       \/ ~Listed(Denylist, url) /\ Listed(Allowlist, url)

\* check_url: loopback returns before any rule is looked at; then private
\* networks, the deny rules and the allow rules, in this order.
CheckUrl(url) ==
    /\ url.scheme \in {"http", "https"}
    /\ url.host # <<>>
    /\ \/ url.host \in LoopbackNames
       \/ /\ url.host \in PrivateHosts => AllowPrivateNetworks
          /\ ~Listed(Denylist, url)
          /\ Listed(Allowlist, url)

\* enforce_manifest_network: the rules of a manifest that asks for a network at
\* all; an empty list, as an absent one, matches nothing.
ManifestAllows(manifest, url) ==
    manifest.network = "allowlist" /\ Listed(manifest.networkAllowlist, url)
=============================================================================
