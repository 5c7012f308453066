-------------------------- MODULE MCServiceControls --------------------------
EXTENDS ServiceControls, TLC

(* ServiceAccess: every mode and flag in file and environment, a list that is  *)
(* left out, empty or names a guest; sessions that end, gain and lose a role.  *)

WithList(list) == [t \in {"admin_install", "admin_remove"} |-> list]
Defaults == [l \in {"read", "run", "admin"} |-> Absent]

\* The default mode with each list, and the flags with each mode of the file.
MCFiles ==
    {[mode |-> Absent, token |-> FALSE, noAuth |-> FALSE, nonlocal |-> FALSE,
      roles |-> [Defaults EXCEPT !["admin"] = r], services |-> WithList(l)] :
        r \in {Absent, {"operator"}}, l \in {Absent, {}, {"guest"}}}
    \cup
    {[mode |-> m, token |-> t, noAuth |-> a, nonlocal |-> n,
      roles |-> Defaults, services |-> WithList(Absent)] :
        m \in {Absent, "disabled"}, t \in {FALSE}, a \in BOOLEAN, n \in BOOLEAN}
    \cup
    {[mode |-> "static_bearer", token |-> t, noAuth |-> FALSE, nonlocal |-> n,
      roles |-> Defaults, services |-> WithList(Absent)] : t \in BOOLEAN, n \in BOOLEAN}

MCEnvs ==
    {e \in [mode : {"unison_jwt", "static_bearer", "disabled", "unknown", Absent}, token : {FALSE}, noAuth : {"true", "false", Absent},
            nonlocal : {"true", "false", Absent}, production : BOOLEAN] :
        /\ e.production => e.mode = "static_bearer"
        /\ e.noAuth # Absent => e.mode \in {"disabled", Absent}}

MCRequests ==
    {r \in [client : {"loopback", "socket", "remote"}, tier : {"open", "run", "admin_install"},
            bearer : BOOLEAN, right : BOOLEAN, principal : {"guest", "service-orchestrator"},
            roles : {{"operator"}}] :
        /\ r.right => r.bearer
        /\ r.tier = "open" => ~r.bearer
        /\ r.tier # "admin_install" => r.principal = "guest"
        /\ r.client = "socket" => r.tier = "run"}
MCSessions ==
    {[active |-> TRUE, roles |-> {"service"}], [active |-> TRUE, roles |-> {"operator"}],
     [active |-> FALSE, roles |-> {}]}

-----------------------------------------------------------------------------
(* ExecutionAuthority: a manifest that is governed and two that are not.       *)

Sound == [versioned |-> TRUE, complete |-> TRUE, location |-> "device", risk |-> "low",
          timeout |-> 300, broad |-> FALSE, signed |-> TRUE, actions |-> {"draft"},
          revocation |-> "r1"]
MCManifests ==
    {Sound, [Sound EXCEPT !.versioned = FALSE], [Sound EXCEPT !.timeout = 301]}

Allowed == [complete |-> TRUE, outcome |-> "allow", action |-> "draft", expires |-> 1,
            nonce |-> "n1"]
\* A decision of each nonce; another under the first nonce that does not allow it.
MCDecisions ==
    {Allowed, [Allowed EXCEPT !.outcome = "deny"],
     [Allowed EXCEPT !.nonce = "n2", !.expires = 2]}

-----------------------------------------------------------------------------
(* CapabilityEcosystem: manifests with up to three permissions of two fields,  *)
(* signed by their publisher, by a stranger in its name, or altered since.     *)

Send == <<"actions", "x">>
Mail == <<"egress", "x">>
Card == <<"devices", "x">>
MCTrusted == [p \in Publishers |-> IF p = "org" THEN "k1" ELSE Absent]

Plain == [core |-> "original", min |-> 1, max |-> 1, permissions |-> {}, risk |-> "low",
          confirmation |-> "always", publisher |-> "org", revocation |-> "r1"]
Good == {[Plain EXCEPT !.permissions = s, !.risk = r, !.confirmation = c] :
            s \in SUBSET {Send, Mail, Card}, r \in PackageRisks, c \in Confirmations}
        \cup {[Plain EXCEPT !.revocation = Absent], [Plain EXCEPT !.permissions = {Card}, !.revocation = "r2"]}
Unfit == {[Plain EXCEPT !.min = 2, !.max = 2], [Plain EXCEPT !.min = 0, !.max = 0]}
Strange == {[Plain EXCEPT !.publisher = "lab"]}
Altered == {[Plain EXCEPT !.core = "altered"], [Plain EXCEPT !.permissions = {Mail}, !.revocation = "r2"]}

MCSignings ==
    {[manifest |-> m, key |-> "k1"] : m \in Good \cup Unfit}
    \cup {[manifest |-> m, key |-> "k2"] : m \in Strange \cup Altered}
MCPackages == Good \cup Unfit \cup Strange \cup Altered

-----------------------------------------------------------------------------

Symmetry ==
    Permutations(Capabilities) \cup Permutations(Persons) \cup
    Permutations(Versions) \cup Permutations(Secrets)
=============================================================================
