--------------------------- MODULE SemanticTargets ---------------------------
(***************************************************************************)
(* SemanticTargetAuthority (src/src/semantic_targets.py) between those who  *)
(* use it: somebody observes a target and has it bound to a person, a       *)
(* capability, its state and a short lifetime; later a caller reads the     *)
(* target's state again and has a binding authorized before it acts.  The   *)
(* binding travels outside in between, and what comes back may differ from  *)
(* what was issued in any field.                                            *)
(*                                                                         *)
(* A signature is what was signed with the secret it was signed with.  The  *)
(* clock is time.time, which may be set forward or back: a reading is whole *)
(* seconds and a part of one, and int() drops the part.                     *)
(***************************************************************************)
EXTENDS Integers, FiniteSets

CONSTANTS
    Capabilities, Persons, Targets, Versions,
    Secrets,    \* secrets of the authorities that issue bindings, here or elsewhere
    Lifetimes,  \* the values of ttl_seconds
    MaxSeconds, \* bound on the clock
    Parts,      \* a second is this many parts
    MaxBindings \* bound on bindings

ASSUME LifetimesAssumption == Lifetimes \subseteq Int
ASSUME ClockAssumption == MaxSeconds \in Nat /\ Parts \in Nat \ {0} /\ MaxBindings \in Nat

Reading == [sec : 0..MaxSeconds, part : 0..(Parts - 1)]
Expiries == {second + ttl : second \in 0..MaxSeconds, ttl \in Lifetimes}
Payload == [capability : Capabilities, target : Targets, person : Persons,
            version : Versions, expires : Expiries]

VARIABLES
    clock,
    version, \* the state version of each target
    issued,  \* the bindings issued, by which secret, when, with which lifetime
    last     \* the call of authorize: what it was asked, when, its answer

targetVars == <<clock, version, issued, last>>

Issue == [payload : Payload, secret : Secrets, at : Reading, ttl : Lifetimes]
Call ==
    [payload : Payload, secret : Secrets, capability : Capabilities, person : Persons,
     version : Versions, at : Reading,
     answer : {"ok", "invalid", "expired", "mismatch", "changed"}]
NoCall == [answer |-> "none"]

TargetTypeOK ==
    /\ clock \in Reading
    /\ version \in [Targets -> Versions]
    /\ issued \subseteq Issue
    /\ last \in Call \cup {NoCall}

TargetInit ==
    /\ clock \in Reading
    /\ version \in [Targets -> Versions]
    /\ issued = {}
    /\ last = NoCall

-----------------------------------------------------------------------------

\* Mutant of Signed: the payload is signed without its lifetime.
Signed_NoExpiry(p) == [p EXCEPT !.expires = 0]

\* What _signature covers: every field, in a canonical order.
Signed(p) == p

ExpiresAt(ttl) == clock.sec + ttl

\* Mutant of Expired: a binding is good for all of its last second.
Expired_AfterLast(p) == p.expires < clock.sec

Expired(p) == p.expires <= clock.sec

\* bind, by an authority with the secret s.
Bind(s, t, c, person, ttl) ==
    LET p == [capability |-> c, target |-> t, person |-> person,
              version |-> version[t], expires |-> ExpiresAt(ttl)] IN
    /\ Cardinality(issued) < MaxBindings
    /\ issued' = issued \cup {[payload |-> p, secret |-> s, at |-> clock, ttl |-> ttl]}
    /\ UNCHANGED <<clock, version, last>>

Meant(p, c, person) == p.person = person /\ p.capability = c

\* Mutant of Decision: any failure is one and the same.
Decision_NoReason(genuine, p, c, person, v) ==
    IF genuine /\ ~Expired(p) /\ Meant(p, c, person) /\ p.version = v THEN "ok" ELSE "refused"

\* authorize: the checks in their order; the first that fails is the answer.
Decision(genuine, p, c, person, v) ==
    IF ~genuine THEN "invalid"
    ELSE IF Expired(p) THEN "expired"
    ELSE IF ~Meant(p, c, person) THEN "mismatch"
    ELSE IF p.version # v THEN "changed"
    ELSE "ok"

\* A caller that has read the state of the target presents the payload p with the
\* token of the binding i to the authority with the secret s.
Authorize(i, p, s, c, person) ==
    LET genuine == i.secret = s /\ Signed(i.payload) = Signed(p) IN
    /\ last = NoCall
    /\ last' = [payload |-> p, secret |-> s, capability |-> c, person |-> person,
                version |-> version[p.target], at |-> clock,
                answer |-> Decision(genuine, p, c, person, version[p.target])]
    /\ UNCHANGED <<clock, version, issued>>

\* The caller takes the answer.
Return ==
    /\ last' = NoCall
    /\ UNCHANGED <<clock, version, issued>>

\* The target changes.
Change(t, v) ==
    /\ version[t] # v
    /\ version' = [version EXCEPT ![t] = v]
    /\ UNCHANGED <<clock, issued, last>>

\* Time passes, or the clock is set.
Advance(r) ==
    /\ clock' = r
    /\ UNCHANGED <<version, issued, last>>

TargetNext ==
    \/ \E s \in Secrets, t \in Targets, c \in Capabilities, person \in Persons, ttl \in Lifetimes :
          Bind(s, t, c, person, ttl)
    \/ \E i \in issued, p \in Payload, s \in Secrets, c \in Capabilities, person \in Persons :
          Authorize(i, p, s, c, person)
    \/ Return
    \/ \E t \in Targets, v \in Versions : Change(t, v)
    \/ \E r \in Reading : Advance(r)

TargetSpec == TargetInit /\ [][TargetNext]_targetVars

-----------------------------------------------------------------------------

\* Time from the reading a to the reading b: less than, and more than, n seconds.
Within(a, b, n) == b.sec < a.sec + n \/ (b.sec = a.sec + n /\ b.part < a.part)
Beyond(a, b, n) == b.sec > a.sec + n \/ (b.sec = a.sec + n /\ b.part > a.part)

\* The bindings issued with what the last call presented, by the same authority.
Origins == {i \in issued : i.payload = last.payload /\ i.secret = last.secret}

\* What is authorized was bound in every field by an authority with the same
\* secret, for this capability and person, and in the state the caller found the
\* target in.
AuthorizedWasBound ==
    last.answer = "ok" =>
        \E i \in Origins :
            /\ i.payload.capability = last.capability
            /\ i.payload.person = last.person
            /\ i.payload.version = last.version

\* Dropping the fraction of a second on both sides never lengthens a lifetime, nor
\* does it cost more than one second of it: what is authorized was bound less than
\* ttl_seconds ago by the clock, what is expired more than ttl_seconds - 1.
LifetimesKept ==
    /\ last.answer = "ok" => \A i \in Origins : Within(i.at, last.at, i.ttl)
    /\ last.answer = "expired" => \A i \in Origins : Beyond(i.at, last.at, i.ttl - 1)
=============================================================================
