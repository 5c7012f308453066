------------------------ MODULE MCCapabilityExecution ------------------------
(* Tools of each kind, with and without permission, two registries (a sidecar *)
(* and a remote one), and servers the rules allow, deny, or do not mention.   *)
EXTENDS CapabilityExecution

MCLabels == STRING

At(host, path) == [scheme |-> "https", host |-> host, path |-> path]
Host(text) == [kind |-> "host", text |-> text]

Sidecar  == At(<<"localhost">>, <<"/mcp">>)
Loopback2 == At(<<"127.0.0.2">>, <<>>)
Private  == At(<<"10.0.0.5">>, <<>>)
Registry == At(<<"mcp", "example", "com">>, <<"/list">>)
Public   == At(<<"a", "example", "com">>, <<>>)
Apex     == At(<<"example", "com">>, <<>>)
Admin    == At(<<"a", "example", "com">>, <<"/admin">>)
Foreign  == At(<<"a", "example", "com", "net">>, <<>>)
NotHttp  == [Public EXCEPT !.scheme = "ftp"]
NoHost   == At(<<>>, <<"/list">>)

MCPrivateHosts == {<<"127.0.0.1">>, <<"127.0.0.2">>, <<"localhost">>, <<"10.0.0.5">>}
MCAllowlist ==
    {[kind |-> "wildcard", text |-> <<"example", "com">>],
     [kind |-> "prefix", text |-> <<"https", "127.0.0.2">>]}
MCDenylist ==
    {[kind |-> "prefix", text |-> <<"https", "a", "example", "com", "/admin">>],
     Host(<<"localhost">>)}

Local ==
    [enabled |-> "unset", oauth |-> FALSE, bound |-> FALSE, channel |-> Absent,
     kind |-> "command", complete |-> TRUE, target |-> Sidecar, server |-> Absent,
     tool |-> "t", network |-> "deny", networkAllowlist |-> {}]
\* Every rule of the configuration, and some hosts it does not allow.
Wide == MCAllowlist \cup
    {Host(<<"localhost">>), Host(<<"10.0.0.5">>), Host(<<"com">>), Host(<<"net">>)}
Narrow == {Host(<<"mcp", "example", "com">>), Host(<<"localhost">>),
           [kind |-> "prefix", text |-> <<"https", "a", "example", "com">>]}

LocalTools ==
    {[Local EXCEPT !.kind = k, !.complete = c, !.enabled = e] :
        k \in {"command", "python", "none"}, c \in BOOLEAN, e \in {"true", "false"}}
    \cup {[Local EXCEPT !.oauth = TRUE, !.bound = b] : b \in BOOLEAN}
    \cup {[Local EXCEPT !.channel = "vdi_vpn"]}
RemoteTools ==
    {[Local EXCEPT !.kind = k, !.target = t, !.server = s, !.network = n,
                   !.networkAllowlist = rules, !.complete = c] :
        k \in {"mcp_tool", "a2a_rpc"}, s \in {Absent, "s1"}, c \in BOOLEAN,
        t \in {Sidecar, Registry, Private, Admin, NotHttp, NoHost},
        n \in {"deny", "allowlist"}, rules \in {{}, Narrow, Wide}}
MCTools == LocalTools \cup RemoteTools

Servers ==
    {[id |-> i, base |-> b, tools |-> ts] :
        i \in ServerIds, ts \in {{"t"}, {"u"}},
        b \in {Absent, Sidecar, Loopback2, Private, Public, Apex, Admin, Foreign}}
MCListings == {<<>>} \cup {<<s>> : s \in Servers} \cup {<<s, [s EXCEPT !.base = b, !.id = i]>> :
    s \in Servers, b \in {Sidecar, Private, Foreign}, i \in ServerIds}
=============================================================================
