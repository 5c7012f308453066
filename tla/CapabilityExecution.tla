------------------------ MODULE CapabilityExecution ------------------------
(***************************************************************************)
(* One run of a capability, from the manifest that CapabilityResolver.run   *)
(* (src/src/resolver.py) has read under the lock to the answer: the gates,  *)
(* then ExecutionEngine.run (src/src/execution.py) by kind of               *)
(* implementation.  Commands and python callables run here; an A2A request  *)
(* is one POST; an MCP tool is first looked up in a registry, then called   *)
(* at whichever server the registry names.  Registries and servers answer   *)
(* what they like, or fail, or time out.                                    *)
(*                                                                         *)
(* `contacted' and `effects' are history variables: the URLs a request was  *)
(* sent to in this run, and how many executions of the capability were      *)
(* begun (a local one, or a POST whose outcome only the other side knows).  *)
(***************************************************************************)
EXTENDS EgressPolicy

CONSTANTS
    Tools,       \* the manifests the catalog may yield
    Channels,    \* execution channels
    ServerIds,   \* identifiers of MCP servers
    Listings,    \* the answers a registry may give: sequences of servers
    AllowLegacy, \* UNISON_CAPABILITY_ALLOW_LEGACY
    Absent

Kind == {"command", "python", "mcp_tool", "a2a_rpc", "none"}

\* What a run looks at of a manifest.  `complete': the implementation has the
\* fields its kind needs; `target': registry_url or endpoint; `server': server_id.
Manifest ==
    [enabled : {"true", "false", "unset"}, oauth : BOOLEAN, bound : BOOLEAN,
     channel : Channels \cup {Absent}, kind : Kind, complete : BOOLEAN,
     target : Url, server : ServerIds \cup {Absent}, tool : Labels,
     network : {"deny", "allowlist"}, networkAllowlist : SUBSET Rule]

Server == [id : ServerIds, base : Url \cup {Absent}, tools : SUBSET Labels]

ASSUME ToolsAssumption == Tools \subseteq Manifest
ASSUME ListingsAssumption == Listings \subseteq Seq(Server)
ASSUME LabelsAssumption == "/tools" \in Labels
ASSUME LegacyAssumption == AllowLegacy \in BOOLEAN
ASSUME AbsentAssumption == Absent \notin Url

VARIABLES
    pc,        \* "idle", "gate", "execute", "discovering", "scan", "call",
               \* "calling"; "idle" with an answer is the end of a run
    manifest,  \* the manifest in hand
    requested, \* the execution channel the caller asked for
    listing,   \* the servers the registry listed
    url,       \* where the tool is to be called
    answer,    \* "none", "ok", "denied" (400) or "failed" (500)
    contacted, effects

vars == <<pc, manifest, requested, listing, url, answer, contacted, effects>>

TypeOK ==
    /\ pc \in {"idle", "gate", "execute", "discovering", "scan", "call", "calling"}
    /\ manifest \in Tools
    /\ requested \in Channels \cup {Absent}
    /\ listing \in Seq(Server)
    /\ url \in Url
    /\ answer \in {"none", "ok", "denied", "failed"}
    /\ contacted \subseteq Url
    /\ effects \in Nat

Init ==
    /\ pc = "idle"
    /\ manifest \in Tools
    /\ requested = Absent
    /\ listing = <<>>
    /\ url = manifest.target
    /\ answer = "none"
    /\ contacted = {}
    /\ effects = 0

-----------------------------------------------------------------------------

Answer(a) ==
    /\ pc' = "idle" /\ answer' = a
    /\ UNCHANGED <<manifest, requested, listing, url>>

\* A run that has passed the catalog lookup.
Run(m, ch) ==
    /\ pc = "idle"
    /\ pc' = "gate"
    /\ manifest' = m
    /\ requested' = ch
    /\ listing' = <<>>
    /\ url' = m.target
    /\ answer' = "none"
    /\ contacted' = {}
    /\ effects' = 0

\* enforce_run, and authorize_execution for the manifest without governance that
\* every catalog entry is (the schema admits no other).
GateOpen(m) ==
    /\ m.enabled # "false"
    /\ m.oauth => m.bound
    /\ m.channel # Absent => requested \in {Absent, m.channel}
    /\ AllowLegacy

Gate ==
    /\ pc = "gate"
    /\ \/ GateOpen(manifest) /\ pc' = "execute"
          /\ UNCHANGED <<manifest, requested, listing, url, answer>>
       \/ ~GateOpen(manifest) /\ Answer("denied")
    /\ UNCHANGED <<contacted, effects>>

\* Execution refused before it begins: no such kind, an incomplete
\* implementation, argv_extra that is no list of strings, a callable that does
\* not import or takes neither one nor two arguments.
Refuse ==
    /\ pc = "execute"
    /\ \/ manifest.kind \in {"command", "python", "none"}
       \/ ~manifest.complete
    /\ Answer("failed")
    /\ UNCHANGED <<contacted, effects>>

\* Mutant of RunLocal: an exception of the tool is swallowed, and nothing answered.
RunLocal_Swallows ==
    /\ pc = "execute"
    /\ manifest.kind \in {"command", "python"} /\ manifest.complete
    /\ effects' = effects + 1
    /\ Answer("ok") \/ Answer("null")
    /\ UNCHANGED contacted

\* A command (whatever its exit status) or a callable; a command is killed when
\* its time is up, and any exception is a CapabilityRunError.
RunLocal ==
    /\ pc = "execute"
    /\ manifest.kind \in {"command", "python"} /\ manifest.complete
    /\ effects' = effects + 1
    /\ Answer("ok") \/ Answer("failed")
    /\ UNCHANGED contacted

\* A manifest's own network rules are looked at outside the try block, so this
\* refusal is a policy error; the service's rules are looked at inside.
FirstHop(sends) ==
    /\ pc = "execute" /\ manifest.complete
    /\ \/ ~ManifestAllows(manifest, manifest.target) /\ Answer("denied")
          /\ UNCHANGED <<contacted, effects>>
       \/ /\ ManifestAllows(manifest, manifest.target) /\ ~CheckUrl(manifest.target)
          /\ Answer("failed") /\ UNCHANGED <<contacted, effects>>
       \/ /\ ManifestAllows(manifest, manifest.target) /\ CheckUrl(manifest.target)
          /\ sends
          /\ contacted' = contacted \cup {manifest.target}
          /\ UNCHANGED <<manifest, requested, listing, url, answer>>

\* _run_mcp_tool asks the registry (GET, 5 s).
Discover ==
    /\ manifest.kind = "mcp_tool"
    /\ FirstHop(pc' = "discovering" /\ UNCHANGED effects)

\* _run_a2a (POST, 15 s).
CallPeer ==
    /\ manifest.kind = "a2a_rpc"
    /\ FirstHop(pc' = "calling" /\ effects' = effects + 1)

RegistryAnswers ==
    /\ pc = "discovering"
    /\ \/ \E l \in Listings : listing' = l /\ pc' = "scan"
             /\ UNCHANGED <<manifest, requested, url, answer>>
       \/ Answer("failed")
    /\ UNCHANGED <<contacted, effects>>

\* Mutant of Offers: the server_id of the manifest is not looked at.
Offers_AnyServer(server) == server.base # Absent /\ manifest.tool \in server.tools

\* The servers the scan does not `continue' past.
Offers(server) ==
    /\ manifest.server \in {Absent, server.id}
    /\ server.base # Absent
    /\ manifest.tool \in server.tools

CallUrl(server) == [server.base EXCEPT !.path = @ \o <<"/tools", manifest.tool>>]

\* Mutant of Scan: a listing without the tool is waited out.
Scan_NeverGivesUp ==
    /\ pc = "scan"
    /\ \E n \in DOMAIN listing :
          /\ Offers(listing[n])
          /\ \A k \in 1..(n - 1) : ~Offers(listing[k])
          /\ url' = CallUrl(listing[n])
    /\ pc' = "call"
    /\ UNCHANGED <<manifest, requested, listing, answer, contacted, effects>>

\* The first server that offers the tool.
Scan ==
    /\ pc = "scan"
    /\ \/ /\ \E n \in DOMAIN listing :
                /\ Offers(listing[n])
                /\ \A k \in 1..(n - 1) : ~Offers(listing[k])
                /\ url' = CallUrl(listing[n])
          /\ pc' = "call"
          /\ UNCHANGED <<manifest, requested, listing, answer>>
       \/ (\A n \in DOMAIN listing : ~Offers(listing[n])) /\ Answer("failed")
    /\ UNCHANGED <<contacted, effects>>

\* Mutant of Call: the second hop is not put to the manifest's rules.
Call_TrustsRegistry ==
    /\ pc = "call"
    /\ \/ /\ CheckUrl(url)
          /\ pc' = "calling"
          /\ contacted' = contacted \cup {url}
          /\ effects' = effects + 1
          /\ UNCHANGED <<manifest, requested, listing, url, answer>>
       \/ ~CheckUrl(url) /\ Answer("failed") /\ UNCHANGED <<contacted, effects>>

\* POST to the server the registry named (10 s).  Both refusals are inside the
\* try block here: they end the run, no other server is tried.
Call ==
    /\ pc = "call"
    /\ \/ /\ ManifestAllows(manifest, url) /\ CheckUrl(url)
          /\ pc' = "calling"
          /\ contacted' = contacted \cup {url}
          /\ effects' = effects + 1
          /\ UNCHANGED <<manifest, requested, listing, url, answer>>
       \/ /\ ~(ManifestAllows(manifest, url) /\ CheckUrl(url))
          /\ Answer("failed") /\ UNCHANGED <<contacted, effects>>

\* Mutant of CallAnswers: after a failed call the scan goes on.
CallAnswers_TriesNext ==
    /\ pc = "calling"
    /\ \/ Answer("ok")
       \/ /\ listing # <<>>
          /\ listing' = Tail(listing) /\ pc' = "scan"
          /\ UNCHANGED <<manifest, requested, url, answer>>
       \/ listing = <<>> /\ Answer("failed")
    /\ UNCHANGED <<contacted, effects>>

\* An answer, an error status, a body that is no JSON, or a timeout; the other
\* side may have executed the call in every case.
CallAnswers ==
    /\ pc = "calling"
    /\ Answer("ok") \/ Answer("failed")
    /\ UNCHANGED <<contacted, effects>>

Continue ==
    \/ Gate \/ Refuse \/ RunLocal \/ Discover \/ CallPeer
    \/ RegistryAnswers \/ Scan \/ Call \/ CallAnswers

Next ==
    \/ \E m \in Tools, ch \in Channels \cup {Absent} : Run(m, ch)
    \/ Continue

Spec == Init /\ [][Next]_vars

\* A run goes on: requests and commands time out (execution.py); a python
\* callable is taken to return.
FairSpec == Spec /\ WF_vars(Continue)

-----------------------------------------------------------------------------

\* Whatever a registry answers, no run reaches a destination that is not loopback
\* unless the service's configuration lists it and denies it nowhere, private
\* ones only when they are allowed as well (config.example.yaml, egress).
EgressKept ==
    \A u \in contacted :
        \/ u.host \in LoopbackNames
        \/ /\ Listed(Allowlist, u) /\ ~Listed(Denylist, u)
           /\ u.host \notin PrivateHosts \/ AllowPrivateNetworks

\* Nor one that its own manifest does not list: the second hop, whose address is
\* the registry's, included.
ManifestKept == \A u \in contacted : ManifestAllows(manifest, u)

\* A run begins at most one execution: nothing in it is tried twice, since a call
\* that failed may have had its effect.  Its answer is true to that: a policy error
\* has contacted and executed nothing, so that a caller may change the policy and
\* repeat it; a success has executed once.
AnswerIsTrue ==
    /\ effects <= 1
    /\ answer = "denied" => contacted = {} /\ effects = 0
    /\ answer = "ok" => effects = 1

\* An MCP tool is called at a server the registry listed in this run, with the
\* tool in its list, and at no other than the one the manifest pins.
CalledAsListed ==
    pc = "calling" /\ manifest.kind = "mcp_tool" =>
        \E n \in DOMAIN listing :
            /\ manifest.server \in {Absent, listing[n].id}
            /\ manifest.tool \in listing[n].tools
            /\ listing[n].base # Absent /\ url = CallUrl(listing[n])

\* Every run is answered.
RunEnds == pc = "gate" ~> answer # "none"

\* An enabled local tool of the shipped catalog runs (README.md, "What it does:
\* Execution (local command tools; MCP tool calls)").
LocalToolsRun ==
    answer = "denied" =>
        \/ manifest.kind \notin {"command", "python"} \/ ~manifest.complete
        \/ manifest.enabled = "false" \/ (manifest.oauth /\ ~manifest.bound)
        \/ manifest.channel # Absent
=============================================================================
