------------------------- MODULE ExecutionAuthority -------------------------
(***************************************************************************)
(* The governance library (src/src/governance.py) as CapabilityResolver.run *)
(* uses it (src/src/resolver.py): a call presents a manifest and a trust    *)
(* decision; authorize_execution checks both against the clock, the replay  *)
(* guard consumes the decision's nonce, and only then the capability        *)
(* executes.  Calls run on any threads; a restart ends them and empties the *)
(* guard, which is a set in memory.                                         *)
(*                                                                         *)
(* The schema of catalog entries admits no governance, so the service's own *)
(* catalog yields only manifests that validation refuses; the properties    *)
(* here are those of the library for manifests of any shape.                *)
(***************************************************************************)
EXTENDS Naturals

CONSTANTS
    Threads, Nonces, Actions, RevocationIds,
    Manifests,   \* what may be presented for execution
    Decisions,   \* the trust decisions clients hold, and may present repeatedly
    MaxTime,     \* bound on the clock
    MaxRestarts, \* bound on restarts of the process
    MaxCalls     \* bound on calls

Risks == {"low", "medium", "high", "critical"}

\* `versioned': governance_version names the only one known; `complete': every
\* required field is there; `broad': it asks for one of the forbidden patterns.
Manifest ==
    [versioned : BOOLEAN, complete : BOOLEAN, location : {"device", "sandboxed-container", "host"},
     risk : Risks \cup {"none"}, timeout : Nat, broad : BOOLEAN, signed : BOOLEAN,
     actions : SUBSET Actions, revocation : RevocationIds]

\* `complete': no field of the decision is missing or empty.
TrustDecision ==
    [complete : BOOLEAN, outcome : {"allow", "deny"}, action : Actions,
     expires : Nat, nonce : Nonces]

ASSUME ManifestsAssumption == Manifests \subseteq Manifest /\ Manifests # {}
ASSUME DecisionsAssumption == Decisions \subseteq TrustDecision /\ Decisions # {}
ASSUME BoundsAssumption == MaxTime \in Nat /\ MaxRestarts \in Nat /\ MaxCalls \in Nat

VARIABLES
    now,      \* the wall clock
    pc,       \* per thread: "idle", "authorize", "consume", "execute"
    manifest, \* per thread: the manifest presented
    decision, \* per thread: the decision presented
    seen,     \* ReplayGuard._seen
    calls, restarts,
    \* history
    checked,  \* per thread: the clock when its decision was found valid
    passed,   \* nonces of decisions found valid by this process
    uses      \* executions begun under each nonce

vars == <<now, pc, manifest, decision, seen, calls, restarts, checked, passed, uses>>

TypeOK ==
    /\ now \in 0..MaxTime
    /\ pc \in [Threads -> {"idle", "authorize", "consume", "execute"}]
    /\ manifest \in [Threads -> Manifests]
    /\ decision \in [Threads -> Decisions]
    /\ seen \subseteq Nonces
    /\ calls \in 0..MaxCalls
    /\ restarts \in 0..MaxRestarts
    /\ checked \in [Threads -> 0..MaxTime]
    /\ passed \subseteq Nonces
    /\ uses \in [Nonces -> Nat]

Init ==
    /\ now = 0
    /\ pc = [t \in Threads |-> "idle"]
    /\ manifest = [t \in Threads |-> CHOOSE m \in Manifests : TRUE]
    /\ decision = [t \in Threads |-> CHOOSE d \in Decisions : TRUE]
    /\ seen = {}
    /\ calls = 0
    /\ restarts = 0
    /\ checked = [t \in Threads |-> 0]
    /\ passed = {}
    /\ uses = [n \in Nonces |-> 0]

-----------------------------------------------------------------------------

\* validate_governance_manifest.
Governed(m) ==
    /\ m.versioned /\ m.complete
    /\ m.location \in {"device", "sandboxed-container"}
    /\ m.risk \in Risks
    /\ 0 < m.timeout /\ m.timeout <= 300
    /\ ~m.broad /\ m.signed

\* Mutant of Valid: a decision is valid in the instant it expires.
Valid_AtExpiry(m, d, revoked) ==
    /\ d.complete /\ d.outcome = "allow" /\ d.action \in m.actions
    /\ now <= d.expires
    /\ m.revocation \notin revoked

\* authorize_execution on a governed manifest.
Valid(m, d, revoked) ==
    /\ d.complete /\ d.outcome = "allow" /\ d.action \in m.actions
    /\ now < d.expires
    /\ m.revocation \notin revoked

Present(t) ==
    /\ pc[t] = "idle" /\ calls < MaxCalls
    /\ \E m \in Manifests, d \in Decisions :
          /\ manifest' = [manifest EXCEPT ![t] = m]
          /\ decision' = [decision EXCEPT ![t] = d]
    /\ pc' = [pc EXCEPT ![t] = "authorize"]
    /\ calls' = calls + 1
    /\ UNCHANGED <<now, seen, restarts, checked, passed, uses>>

\* run names no revoked identities.
AuthorizeExecution(t) ==
    /\ pc[t] = "authorize"
    /\ Governed(manifest[t]) /\ Valid(manifest[t], decision[t], {})
    /\ pc' = [pc EXCEPT ![t] = "consume"]
    /\ checked' = [checked EXCEPT ![t] = now]
    /\ passed' = passed \cup {decision[t].nonce}
    /\ UNCHANGED <<now, manifest, decision, seen, calls, restarts, uses>>

Refuse(t) ==
    /\ pc[t] = "authorize"
    /\ ~(Governed(manifest[t]) /\ Valid(manifest[t], decision[t], {}))
    /\ pc' = [pc EXCEPT ![t] = "idle"]
    /\ UNCHANGED <<now, manifest, decision, seen, calls, restarts, checked, passed, uses>>

\* Mutant of Consume: the nonce is only looked up here.
Consume_OnlyChecks(t) ==
    /\ pc[t] = "consume"
    /\ decision[t].nonce \notin seen
    /\ pc' = [pc EXCEPT ![t] = "execute"]
    /\ UNCHANGED <<now, manifest, decision, seen, calls, restarts, checked, passed, uses>>

\* ReplayGuard.consume.  The lookup and the insertion of a string are one step:
\* the interpreter lock changes hands only at calls and backward jumps, and there
\* is none between them (CPython 3.12, Dockerfile).
Consume(t) ==
    /\ pc[t] = "consume"
    /\ decision[t].nonce \notin seen
    /\ seen' = seen \cup {decision[t].nonce}
    /\ pc' = [pc EXCEPT ![t] = "execute"]
    /\ UNCHANGED <<now, manifest, decision, calls, restarts, checked, passed, uses>>

Replayed(t) ==
    /\ pc[t] = "consume"
    /\ decision[t].nonce \in seen
    /\ pc' = [pc EXCEPT ![t] = "idle"]
    /\ UNCHANGED <<now, manifest, decision, seen, calls, restarts, checked, passed, uses>>

\* The execution, whether it succeeds or not: its nonce stays spent.
Execute(t) ==
    /\ pc[t] = "execute"
    /\ uses' = [uses EXCEPT ![decision[t].nonce] = @ + 1]
    /\ pc' = [pc EXCEPT ![t] = "idle"]
    /\ UNCHANGED <<now, manifest, decision, seen, calls, restarts, checked, passed>>

\* datetime.now is the wall clock: it goes on, and it may be set, back as well.
SetClock ==
    /\ \E c \in 0..MaxTime \ {now} : now' = c
    /\ UNCHANGED <<pc, manifest, decision, seen, calls, restarts, checked, passed, uses>>

\* The process dies and is started again: every call ends, the guard is empty.
Restart ==
    /\ restarts < MaxRestarts
    /\ restarts' = restarts + 1
    /\ pc' = [t \in Threads |-> "idle"]
    /\ seen' = {}
    /\ passed' = {}
    /\ UNCHANGED <<now, manifest, decision, calls, checked, uses>>

Next ==
    \/ \E t \in Threads :
          Present(t) \/ AuthorizeExecution(t) \/ Refuse(t) \/ Consume(t) \/ Replayed(t) \/ Execute(t)
    \/ SetClock \/ Restart

Spec == Init /\ [][Next]_vars

-----------------------------------------------------------------------------

\* However often a decision is presented, and on however many threads at once,
\* one process executes under it once; each restart allows it once more.
UsesBounded == \A n \in Nonces : uses[n] <= 1 + restarts

\* What executes was governed and allowed, its timeout within the bound, and its
\* decision had not run out when it was checked, however late it starts.
ExecutesGoverned ==
    \A t \in Threads : pc[t] \in {"consume", "execute"} =>
        /\ manifest[t].risk \in Risks /\ ~manifest[t].broad
        /\ manifest[t].timeout \in 1..300
        /\ decision[t].outcome = "allow" /\ decision[t].action \in manifest[t].actions
        /\ checked[t] < decision[t].expires

\* A refused call leaves its nonce unspent: only a decision found valid by this
\* process is ever told that it is replayed.
RefusalSpendsNothing == seen \subseteq passed

\* So a nonce is good for one execution in a process, and for none less because
\* somebody presented it and was refused.
NonceSpentOnce == UsesBounded /\ RefusalSpendsNothing

InFlight(n) == \E t \in Threads : pc[t] \in {"consume", "execute"} /\ decision[t].nonce = n
Lapsed(n) == \A d \in Decisions : d.nonce = n => d.expires <= now

\* Once the decisions under a nonce have run out and the calls they were valid for
\* have ended, nothing executes under it, in this process or in one that a restart
\* made forget the nonce, until the clock is set back: expiry is final as far as
\* the wall clock is (governance.py, authorize_execution).  Of a clock set back in
\* one process NonceSpentOnce still says what may be executed.
ExpiredIsSpent ==
    [][\A n \in Nonces : Lapsed(n) /\ ~InFlight(n) =>
            /\ uses'[n] = uses[n]
            /\ ~InFlight(n)'
            /\ Lapsed(n)' \/ now' < now]_vars
=============================================================================
