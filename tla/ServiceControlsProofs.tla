------------------------- MODULE ServiceControlsProofs -------------------------
(***************************************************************************)
(* The properties of the controls for any configuration, requests, threads, *)
(* bindings and packages: first of the authority and the targets on their   *)
(* own, then of the access control and the supply chain, and last of the    *)
(* four side by side, where a step of one is a stutter of the others.       *)
(***************************************************************************)
EXTENDS ServiceControls, TLAPS

-----------------------------------------------------------------------------
(* The authority of an execution. *)

Executing(t, n) == pc[t] = "execute" /\ decision[t].nonce = n

\* A nonce is spent before its one execution: until that has been counted, only
\* earlier processes have.
Spent ==
    \A n \in Nonces :
        /\ uses[n] <= restarts + 1
        /\ n \notin seen => uses[n] <= restarts
        /\ \A t \in Threads : Executing(t, n) =>
              /\ n \in seen
              /\ uses[n] <= restarts
              /\ \A u \in Threads : Executing(u, n) => u = t

\* A thread past its check presented a decision that this process found valid.
CheckedPassed ==
    \A t \in Threads : pc[t] \in {"consume", "execute"} => decision[t].nonce \in passed

AuthorityInv == TypeOK /\ Spent /\ ExecutesGoverned /\ CheckedPassed /\ RefusalSpendsNothing

LEMMA NonceType == ASSUME TypeOK, NEW t \in Threads PROVE decision[t].nonce \in Nonces
    BY DecisionsAssumption DEF TypeOK, TrustDecision

LEMMA AuthorityInitInv == Init => AuthorityInv
<1> SUFFICES ASSUME Init PROVE AuthorityInv
    OBVIOUS
<1>1. TypeOK
    <2>1. (CHOOSE m \in Manifests : TRUE) \in Manifests /\ (CHOOSE d \in Decisions : TRUE) \in Decisions
        BY ManifestsAssumption, DecisionsAssumption
    <2> QED
        BY <2>1, BoundsAssumption DEF Init, TypeOK
<1>2. Spent
    BY DEF Init, Spent, Executing
<1>3. ExecutesGoverned /\ CheckedPassed /\ RefusalSpendsNothing
    BY DEF Init, ExecutesGoverned, CheckedPassed, RefusalSpendsNothing
<1> QED
    BY <1>1, <1>2, <1>3 DEF AuthorityInv

LEMMA NextTypeOK == TypeOK /\ [Next]_vars => TypeOK'
<1> SUFFICES ASSUME TypeOK, [Next]_vars PROVE TypeOK'
    OBVIOUS
<1> USE BoundsAssumption DEF TypeOK
<1>1. ASSUME NEW t \in Threads, Present(t) PROVE TypeOK'
    BY <1>1 DEF Present
<1>2. ASSUME NEW t \in Threads, AuthorizeExecution(t) PROVE TypeOK'
    BY <1>2, NonceType DEF AuthorizeExecution
<1>3. ASSUME NEW t \in Threads, Refuse(t) PROVE TypeOK'
    BY <1>3 DEF Refuse
<1>4. ASSUME NEW t \in Threads, Consume(t) PROVE TypeOK'
    BY <1>4, NonceType DEF Consume
<1>5. ASSUME NEW t \in Threads, Replayed(t) PROVE TypeOK'
    BY <1>5 DEF Replayed
<1>6. ASSUME NEW t \in Threads, Execute(t) PROVE TypeOK'
    BY <1>6, NonceType DEF Execute
<1>7. CASE SetClock
    BY <1>7 DEF SetClock
<1>8. CASE Restart
    BY <1>8 DEF Restart
<1>9. CASE UNCHANGED vars
    BY <1>9 DEF vars
<1> QED
    BY <1>1, <1>2, <1>3, <1>4, <1>5, <1>6, <1>7, <1>8, <1>9 DEF Next

\* The counting argument, by the three steps that touch nonces or executions.
LEMMA NextSpent == TypeOK /\ TypeOK' /\ Spent /\ [Next]_vars => Spent'
<1> SUFFICES ASSUME TypeOK, TypeOK', Spent, [Next]_vars PROVE Spent'
    OBVIOUS
<1>1. ASSUME NEW t \in Threads,
             Present(t) \/ AuthorizeExecution(t) \/ Refuse(t) \/ Replayed(t)
      PROVE  Spent'
    <2>1. UNCHANGED <<seen, restarts, uses>>
        BY <1>1 DEF Present, AuthorizeExecution, Refuse, Replayed
    <2>2. \A u \in Threads, n \in Nonces : Executing(u, n)' => Executing(u, n)
        BY <1>1 DEF Present, AuthorizeExecution, Refuse, Replayed, Executing, TypeOK
    <2> QED
        BY <2>1, <2>2 DEF Spent
<1>2. ASSUME NEW t \in Threads, Consume(t) PROVE Spent'
    <2> DEFINE n == decision[t].nonce
    <2>1. /\ n \in Nonces /\ n \notin seen /\ seen' = seen \cup {n}
          /\ UNCHANGED <<restarts, uses, decision>>
        BY <1>2, NonceType DEF Consume
    <2>2. \A u \in Threads, k \in Nonces : Executing(u, k)' <=> Executing(u, k) \/ (u = t /\ k = n)
        BY <1>2 DEF Consume, Executing, TypeOK
    <2>3. uses[n] <= restarts /\ \A u \in Threads : ~Executing(u, n)
        BY <2>1 DEF Spent
    <2> QED
        BY <2>1, <2>2, <2>3 DEF Spent
<1>3. ASSUME NEW t \in Threads, Execute(t) PROVE Spent'
    <2> DEFINE n == decision[t].nonce
    <2>1. /\ n \in Nonces /\ uses' = [uses EXCEPT ![n] = @ + 1]
          /\ UNCHANGED <<restarts, seen, decision>>
        BY <1>3, NonceType DEF Execute
    <2>2. Executing(t, n)
        BY <1>3 DEF Execute, Executing
    <2>3. \A u \in Threads, k \in Nonces : Executing(u, k)' => Executing(u, k) /\ u # t
        BY <1>3 DEF Execute, Executing, TypeOK
    <2>4. n \in seen /\ uses[n] <= restarts /\ \A u \in Threads : Executing(u, n) => u = t
        BY <2>1, <2>2 DEF Spent
    <2>5. \A k \in Nonces : k # n => uses'[k] = uses[k]
        BY <2>1 DEF TypeOK
    <2>6. uses'[n] = uses[n] + 1 /\ uses[n] \in Nat /\ restarts \in Nat
        BY <2>1, BoundsAssumption DEF TypeOK
    <2>7. uses'[n] <= restarts' + 1
        BY <2>1, <2>4, <2>6
    <2> QED
        BY <2>1, <2>3, <2>4, <2>5, <2>7 DEF Spent
<1>4. CASE SetClock \/ UNCHANGED vars
    BY <1>4 DEF SetClock, vars, Spent, Executing
<1>5. CASE Restart
    <2>1. restarts' = restarts + 1 /\ uses' = uses /\ restarts \in Nat /\ uses \in [Nonces -> Nat]
        BY <1>5, BoundsAssumption DEF Restart, TypeOK
    <2>2. \A u \in Threads, k \in Nonces : ~Executing(u, k)'
        BY <1>5 DEF Restart, Executing
    <2> QED
        BY <2>1, <2>2 DEF Spent
<1> QED
    BY <1>1, <1>2, <1>3, <1>4, <1>5 DEF Next

LEMMA GovernedTimeout == ASSUME NEW m \in Manifest, Governed(m) PROVE m.timeout \in 1..300
    BY DEF Governed, Manifest

LEMMA NextGoverned == TypeOK /\ ExecutesGoverned /\ [Next]_vars => ExecutesGoverned'
<1> SUFFICES ASSUME TypeOK, ExecutesGoverned, [Next]_vars PROVE ExecutesGoverned'
    OBVIOUS
<1> USE DEF ExecutesGoverned, TypeOK
<1>1. ASSUME NEW t \in Threads, Present(t) PROVE ExecutesGoverned'
    BY <1>1 DEF Present
<1>2. ASSUME NEW t \in Threads, AuthorizeExecution(t) PROVE ExecutesGoverned'
    <2>1. manifest[t] \in Manifest
        BY ManifestsAssumption
    <2>2. manifest[t].timeout \in 1..300
        BY <1>2, <2>1, GovernedTimeout DEF AuthorizeExecution
    <2> QED
        BY <1>2, <2>2 DEF AuthorizeExecution, Governed, Valid
<1>3. ASSUME NEW t \in Threads, Refuse(t) \/ Consume(t) \/ Replayed(t) \/ Execute(t)
      PROVE  ExecutesGoverned'
    BY <1>3 DEF Refuse, Consume, Replayed, Execute
<1>4. CASE SetClock \/ Restart \/ UNCHANGED vars
    BY <1>4 DEF SetClock, Restart, vars
<1> QED
    BY <1>1, <1>2, <1>3, <1>4 DEF Next

LEMMA NextPassed ==
    TypeOK /\ CheckedPassed /\ RefusalSpendsNothing /\ [Next]_vars =>
        CheckedPassed' /\ RefusalSpendsNothing'
<1> SUFFICES ASSUME TypeOK, CheckedPassed, RefusalSpendsNothing, [Next]_vars
             PROVE  CheckedPassed' /\ RefusalSpendsNothing'
    OBVIOUS
<1> USE DEF CheckedPassed, RefusalSpendsNothing, TypeOK
<1>1. ASSUME NEW t \in Threads, Present(t) \/ AuthorizeExecution(t) \/ Refuse(t)
      PROVE  CheckedPassed' /\ RefusalSpendsNothing'
    BY <1>1 DEF Present, AuthorizeExecution, Refuse
<1>2. ASSUME NEW t \in Threads, Consume(t) \/ Replayed(t) \/ Execute(t)
      PROVE  CheckedPassed' /\ RefusalSpendsNothing'
    BY <1>2 DEF Consume, Replayed, Execute
<1>3. CASE SetClock \/ Restart \/ UNCHANGED vars
    BY <1>3 DEF SetClock, Restart, vars
<1> QED
    BY <1>1, <1>2, <1>3 DEF Next

\* AuthorityInv holds in every state.
THEOREM AuthorityInvariance == Spec => []AuthorityInv
<1>1. AuthorityInv /\ [Next]_vars => AuthorityInv'
    BY NextTypeOK, NextSpent, NextGoverned, NextPassed DEF AuthorityInv
<1> QED
    BY AuthorityInitInv, <1>1, PTL DEF Spec

\* The state of guard, calls and clock keeps its type.
THEOREM AuthorityTypeCorrect == Spec => []TypeOK
<1>1. AuthorityInv => TypeOK
    BY DEF AuthorityInv
<1> QED
    BY <1>1, AuthorityInvariance, PTL

\* Only governed manifests execute, under decisions valid when they were checked.
THEOREM OnlyGovernedExecutes == Spec => []ExecutesGoverned
<1>1. AuthorityInv => ExecutesGoverned
    BY DEF AuthorityInv
<1> QED
    BY <1>1, AuthorityInvariance, PTL

\* One execution under a nonce, and one more for each restart; a refused decision
\* can be presented again.
THEOREM NoncesAreSingleUse == Spec => []NonceSpentOnce
<1>1. AuthorityInv => UsesBounded
    BY BoundsAssumption DEF AuthorityInv, Spent, UsesBounded, TypeOK
<1>2. AuthorityInv => NonceSpentOnce
    BY <1>1 DEF AuthorityInv, NonceSpentOnce
<1> QED
    BY <1>2, AuthorityInvariance, PTL

\* Nothing executes under decisions that have run out, across restarts that forget
\* their nonce, for as long as nobody sets the wall clock back (governance.py).
THEOREM ExpiryIsFinal == Spec => ExpiredIsSpent
<1> DEFINE Step == \A n \in Nonces : Lapsed(n) /\ ~InFlight(n) =>
                       /\ uses'[n] = uses[n]
                       /\ ~InFlight(n)'
                       /\ Lapsed(n)' \/ now' < now
<1>1. TypeOK /\ [Next]_vars => [Step]_vars
    <2> SUFFICES ASSUME TypeOK, Next, NEW n \in Nonces, Lapsed(n), ~InFlight(n)
                 PROVE  uses'[n] = uses[n] /\ ~InFlight(n)' /\ (Lapsed(n)' \/ now' < now)
        OBVIOUS
    <2> USE DEF InFlight, TypeOK
    <2>1. ASSUME NEW t \in Threads, Present(t) \/ Refuse(t) \/ Replayed(t)
          PROVE  uses'[n] = uses[n] /\ ~InFlight(n)' /\ now' = now
        BY <2>1 DEF Present, Refuse, Replayed
    <2>2. ASSUME NEW t \in Threads, AuthorizeExecution(t)
          PROVE  uses'[n] = uses[n] /\ ~InFlight(n)' /\ now' = now
        <3>1. decision[t].nonce # n
            BY <2>2, DecisionsAssumption DEF AuthorizeExecution, Valid, Lapsed, TrustDecision
        <3> QED
            BY <2>2, <3>1 DEF AuthorizeExecution
    <2>3. ASSUME NEW t \in Threads, Consume(t) \/ Execute(t)
          PROVE  uses'[n] = uses[n] /\ ~InFlight(n)' /\ now' = now
        BY <2>3 DEF Consume, Execute
    <2>4. CASE Restart
        BY <2>4 DEF Restart, Lapsed
    <2>5. CASE SetClock
        <3>1. uses'[n] = uses[n] /\ ~InFlight(n)' /\ now \in Nat /\ now' \in Nat
            BY <2>5, BoundsAssumption DEF SetClock
        <3>2. \A d \in Decisions : d.expires \in Nat
            BY DecisionsAssumption DEF TrustDecision
        <3>3. now <= now' => Lapsed(n)'
            BY <3>1, <3>2 DEF Lapsed
        <3> QED
            BY <3>1, <3>3
    <2>6. now' = now => Lapsed(n)'
        BY DEF Lapsed
    <2> QED
        BY <2>1, <2>2, <2>3, <2>4, <2>5, <2>6 DEF Next
<1> QED
    BY <1>1, AuthorityTypeCorrect, PTL DEF Spec, ExpiredIsSpent

-----------------------------------------------------------------------------
(* The targets of a confirmed action. *)

\* A binding carries the end of its lifetime, in whole seconds.
Dated == \A i \in issued : i.payload.expires = i.at.sec + i.ttl

\* The clock at the call stood before the end of what was authorized, and not
\* before the end of what had expired.
Timed ==
    /\ last.answer = "ok" => last.at.sec < last.payload.expires
    /\ last.answer = "expired" => last.payload.expires <= last.at.sec

TargetInv == TargetTypeOK /\ Dated /\ Timed /\ AuthorizedWasBound

\* The comparison of whole seconds decides about the exact time passed.
LEMMA WholeSeconds ==
    ASSUME NEW a \in Reading, NEW b \in Reading, NEW n \in Int
    PROVE  /\ b.sec < a.sec + n => Within(a, b, n)
           /\ a.sec + n <= b.sec => Beyond(a, b, n - 1)
<1>1. a.sec \in Int /\ b.sec \in Int
    BY ClockAssumption DEF Reading
<1> QED
    BY <1>1 DEF Within, Beyond

LEMMA TargetInitInv == TargetInit => TargetInv
    BY DEF TargetInit, TargetInv, TargetTypeOK, NoCall, Dated, Timed, AuthorizedWasBound

LEMMA TargetNextInv == TargetInv /\ [TargetNext]_targetVars => TargetInv'
<1> SUFFICES ASSUME TargetInv, [TargetNext]_targetVars PROVE TargetInv'
    OBVIOUS
<1> USE DEF TargetInv
<1>1. ASSUME NEW s \in Secrets, NEW t \in Targets, NEW c \in Capabilities,
             NEW person \in Persons, NEW ttl \in Lifetimes, Bind(s, t, c, person, ttl)
      PROVE  TargetInv'
    <2> DEFINE p == [capability |-> c, target |-> t, person |-> person,
                     version |-> version[t], expires |-> ExpiresAt(ttl)]
               new == [payload |-> p, secret |-> s, at |-> clock, ttl |-> ttl]
    <2>1. issued' = issued \cup {new} /\ UNCHANGED <<clock, version, last>>
        BY <1>1 DEF Bind
    <2>2. clock.sec \in 0..MaxSeconds
        BY DEF TargetTypeOK, Reading
    <2>3. p \in Payload
        BY <2>2 DEF Payload, Expiries, ExpiresAt, TargetTypeOK
    <2>4. new \in Issue
        BY <2>3 DEF Issue, TargetTypeOK
    <2>5. TargetTypeOK'
        BY <2>1, <2>4 DEF TargetTypeOK
    <2>6. Dated'
        BY <2>1 DEF Dated, ExpiresAt
    <2>7. AuthorizedWasBound' /\ Timed'
        BY <2>1 DEF AuthorizedWasBound, Timed, Origins
    <2> QED
        BY <2>5, <2>6, <2>7
<1>2. ASSUME NEW i \in issued, NEW p \in Payload, NEW s \in Secrets, NEW c \in Capabilities,
             NEW person \in Persons, Authorize(i, p, s, c, person)
      PROVE  TargetInv'
    <2> DEFINE v == version[p.target]
               genuine == i.secret = s /\ Signed(i.payload) = Signed(p)
    <2>1. /\ last' = [payload |-> p, secret |-> s, capability |-> c, person |-> person,
                      version |-> v, at |-> clock,
                      answer |-> Decision(genuine, p, c, person, v)]
          /\ UNCHANGED <<clock, version, issued>>
        BY <1>2 DEF Authorize
    <2>2. v \in Versions
        BY DEF Payload, TargetTypeOK
    <2>3. Decision(genuine, p, c, person, v) \in {"ok", "invalid", "expired", "mismatch", "changed"}
        BY DEF Decision
    <2>4. TargetTypeOK'
        BY <2>1, <2>2, <2>3 DEF TargetTypeOK, Call
    <2>5. p.expires \in Int /\ clock.sec \in Int
        BY LifetimesAssumption, ClockAssumption DEF Payload, Expiries, TargetTypeOK, Reading
    <2>6. Timed'
        BY <2>1, <2>5 DEF Timed, Decision, Expired
    <2>7. AuthorizedWasBound'
        <3> SUFFICES ASSUME last'.answer = "ok"
                     PROVE  /\ i \in Origins'
                            /\ i.payload.capability = c /\ i.payload.person = person
                            /\ i.payload.version = v
            BY <2>1 DEF AuthorizedWasBound
        <3>1. genuine /\ Meant(p, c, person) /\ p.version = v
            BY <2>1 DEF Decision
        <3> QED
            BY <2>1, <3>1 DEF Origins, Signed, Meant
    <2> QED
        BY <2>1, <2>4, <2>6, <2>7 DEF Dated
<1>3. CASE Return
    BY <1>3 DEF Return, NoCall, TargetTypeOK, Dated, Timed, AuthorizedWasBound
<1>4. ASSUME NEW t \in Targets, NEW v \in Versions, Change(t, v) PROVE TargetInv'
    BY <1>4 DEF Change, TargetTypeOK, Dated, Timed, AuthorizedWasBound, Origins
<1>5. ASSUME NEW r \in Reading, Advance(r) PROVE TargetInv'
    BY <1>5 DEF Advance, TargetTypeOK, Dated, Timed, AuthorizedWasBound, Origins
<1>6. CASE UNCHANGED targetVars
    BY <1>6 DEF targetVars, TargetTypeOK, Dated, Timed, AuthorizedWasBound, Origins
<1> QED
    BY <1>1, <1>2, <1>3, <1>4, <1>5, <1>6 DEF TargetNext

\* TargetInv holds in every state.
THEOREM TargetInvariance == TargetSpec => []TargetInv
<1> QED
    BY TargetInitInv, TargetNextInv, PTL DEF TargetSpec

\* Nothing is authorized that was not bound, field by field.
THEOREM NothingUnbound == TargetSpec => []AuthorizedWasBound
<1>1. TargetInv => AuthorizedWasBound
    BY DEF TargetInv
<1> QED
    BY <1>1, TargetInvariance, PTL

\* No lifetime is exceeded, and none is cut by more than a second.
THEOREM WholeSecondsSuffice == TargetSpec => []LifetimesKept
<1>1. TargetInv => LifetimesKept
    <2> SUFFICES ASSUME TargetInv, last.answer \in {"ok", "expired"}, NEW i \in Origins
                 PROVE  /\ last.answer = "ok" => Within(i.at, last.at, i.ttl)
                        /\ last.answer = "expired" => Beyond(i.at, last.at, i.ttl - 1)
        BY DEF LifetimesKept
    <2>1. last \in Call
        BY DEF TargetInv, TargetTypeOK, NoCall
    <2>2. i \in issued /\ i.payload = last.payload
        BY DEF Origins
    <2>3. i.at \in Reading /\ last.at \in Reading /\ i.ttl \in Int
        BY <2>1, <2>2, LifetimesAssumption DEF TargetInv, TargetTypeOK, Issue, Call
    <2>4. last.payload.expires = i.at.sec + i.ttl
        BY <2>2 DEF TargetInv, Dated
    <2> QED
        BY <2>3, <2>4, WholeSeconds DEF TargetInv, Timed
<1> QED
    BY <1>1, TargetInvariance, PTL


-----------------------------------------------------------------------------
(* The way of a request to its handler. *)

UnderWay == at \notin {"stopped", "idle"}

\* The credential that goes with the request is the one it takes.
Credential == request.bearer /\ request.right

\* Who the request goes by, from the step of authentication on: nobody in
\* particular where authentication is off, else the holder of a credential, and
\* with the auth service somebody whose session was active on the way.
KnownBy ==
    \/ user.from = "config" /\ Access!Mode = "disabled" /\ Access!UnsafeNoAuth
    \/ user.from = "config" /\ Credential
    \/ /\ user.from \in {"session", "token"} /\ Credential
       /\ user.name = request.principal
       /\ \E s \in had : s.active /\ (user.from = "session" => user.roles = s.roles)

\* What the steps behind a request have established.
AccessInv ==
    /\ Access!TypeOK
    /\ UnderWay => request \in Requests /\ session \in had
    /\ UnderWay /\ at # "local" => Access!UnsafeNonlocal \/ request.client # "remote"
    /\ at = "active" => Credential
    /\ at = "authz" \/ Access!Protected => KnownBy
    /\ Access!Protected => Access!Permits(request.tier, user.name, user.roles)

LEMMA AccessInitInv == Access!Init => AccessInv
    BY DEF Access!Init, Access!TypeOK, Access!Nobody, Access!Protected, AccessInv, UnderWay

\* A request that is turned away or answered leaves nothing behind.
LEMMA AccessFinish ==
    ASSUME AccessInv, NEW from, Access!Finish(from)
    PROVE  AccessInv'
    BY DEF Access!Finish, AccessInv, Access!TypeOK, Access!Nobody, Access!Protected, UnderWay

\* A step forward of the request changes nothing that is known of it but who it
\* goes by.
LEMMA AccessForward ==
    ASSUME AccessInv, NEW from, NEW to, Access!Step(from, to), UnderWay,
           to \in {"authn", "active", "authz", "handler"},
           user'.roles \subseteq Roles, user'.from \in {"none", "config", "token", "session"},
           Access!UnsafeNonlocal \/ request.client # "remote",
           to = "active" => Credential,
           (to = "authz" \/ Access!Protected') => KnownBy',
           Access!Protected' => Access!Permits(request.tier, user'.name, user'.roles)
    PROVE  AccessInv'
<1>1. UNCHANGED <<file, env, session, request, had>> /\ at' = to
    BY DEF Access!Step
<1>2. Access!TypeOK'
    BY <1>1 DEF AccessInv, Access!TypeOK
<1>3. (Access!UnsafeNonlocal)' = Access!UnsafeNonlocal /\ Credential' = Credential
    BY <1>1 DEF Access!UnsafeNonlocal, Credential
<1>4. Access!Permits(request.tier, user'.name, user'.roles)
          = Access!Permits(request.tier, user.name, user.roles)'
    BY <1>1 DEF Access!Permits, Access!RolesFor, Access!ServicesFor, Access!Given
<1> QED
    BY <1>1, <1>2, <1>3, <1>4 DEF AccessInv, UnderWay

LEMMA AccessNextInv == AccessInv /\ [Access!Next]_accessVars => AccessInv'
<1> SUFFICES ASSUME AccessInv, [Access!Next]_accessVars PROVE AccessInv'
    OBVIOUS
<1>1. CASE Access!Start
    BY <1>1 DEF Access!Start, AccessInv, Access!TypeOK, Access!Protected, UnderWay
<1>2. ASSUME NEW r \in Requests, NEW s \in Sessions, Access!Arrive(r, s) PROVE AccessInv'
    BY <1>2 DEF Access!Arrive, AccessInv, Access!TypeOK, Access!Protected, UnderWay
<1>3. CASE Access!LocalOnly
    <2>1. CASE Access!Finish("local")
        BY <2>1, AccessFinish
    <2>2. CASE ~Access!Finish("local")
        <3>1. /\ at = "local" /\ (Access!UnsafeNonlocal \/ request.client # "remote")
              /\ Access!Step("local", IF request.tier = "open" THEN "handler" ELSE "authn")
              /\ UNCHANGED user
            BY <1>3, <2>2 DEF Access!LocalOnly, Access!OnlyIf
        <3>2. ~Access!Protected'
            BY <3>1 DEF Access!Protected, Access!Step
        <3> QED
            BY <3>1, <3>2, AccessForward DEF UnderWay, AccessInv, Access!TypeOK
    <2> QED
        BY <2>1, <2>2
<1>4. CASE Access!Disabled
    <2>1. CASE Access!Finish("authn")
        BY <2>1, AccessFinish
    <2>2. CASE ~Access!Finish("authn")
        <3>1. /\ at = "authn" /\ Access!Mode = "disabled" /\ Access!UnsafeNoAuth
              /\ Access!Step("authn", "authz")
              /\ user' = [name |-> "unauthenticated", roles |-> {"service"}, from |-> "config"]
            BY <1>4, <2>2 DEF Access!Disabled, Access!OnlyIf, Access!GoesBy
        <3>2. KnownBy' /\ ~Access!Protected'
            BY <3>1 DEF KnownBy, Access!Step, Access!Mode, Access!UnsafeNoAuth, Access!Protected
        <3> QED
            BY <3>1, <3>2, AccessForward, RolesAssumption DEF UnderWay, AccessInv
    <2> QED
        BY <2>1, <2>2
<1>5. CASE Access!StaticBearer
    <2>1. CASE Access!Finish("authn")
        BY <2>1, AccessFinish
    <2>2. CASE ~Access!Finish("authn")
        <3>1. /\ at = "authn" /\ Credential
              /\ Access!Step("authn", "authz")
              /\ user' = [name |-> "static-bearer", roles |-> {"service"}, from |-> "config"]
            BY <1>5, <2>2 DEF Access!StaticBearer, Access!OnlyIf, Access!GoesBy, Credential
        <3>2. KnownBy' /\ ~Access!Protected'
            BY <3>1 DEF KnownBy, Credential, Access!Step, Access!Protected
        <3> QED
            BY <3>1, <3>2, AccessForward, RolesAssumption DEF UnderWay, AccessInv
    <2> QED
        BY <2>1, <2>2
<1>6. CASE Access!VerifyToken
    <2>1. CASE Access!Finish("authn")
        BY <2>1, AccessFinish
    <2>2. CASE ~Access!Finish("authn")
        <3>1. /\ at = "authn" /\ Credential
              /\ Access!Step("authn", "active") /\ UNCHANGED user
            BY <1>6, <2>2 DEF Access!VerifyToken, Access!OnlyIf, Credential
        <3>2. ~Access!Protected'
            BY <3>1 DEF Access!Step, Access!Protected
        <3> QED
            BY <3>1, <3>2, AccessForward DEF UnderWay, AccessInv, Access!TypeOK
    <2> QED
        BY <2>1, <2>2
<1>7. CASE Access!UnknownMode
    BY <1>7, AccessFinish DEF Access!UnknownMode
<1>8. CASE Access!AskAuthService
    <2>1. CASE Access!Finish("active")
        BY <2>1, AccessFinish
    <2>2. ASSUME NEW roles, NEW source \in {"session", "token"}, session.active, at = "active",
                 Access!GoesBy("active", "authz", request.principal, roles, source),
                 roles \subseteq Roles, source = "session" => roles = session.roles
          PROVE  AccessInv'
        <3>1. /\ Access!Step("active", "authz")
              /\ user' = [name |-> request.principal, roles |-> roles, from |-> source]
            BY <2>2 DEF Access!GoesBy
        <3>2. Credential /\ session \in had
            BY <2>2 DEF AccessInv, UnderWay
        <3>3. KnownBy' /\ ~Access!Protected'
            BY <2>2, <3>1, <3>2 DEF KnownBy, Credential, Access!Step, Access!Protected
        <3> QED
            BY <2>2, <3>1, <3>3, AccessForward DEF UnderWay, AccessInv
    <2>3. request \in Access!Request /\ session \in Access!Session
        BY <1>8, RequestsAssumption
        DEF Access!AskAuthService, AccessInv, UnderWay, Access!TypeOK
    <2>4. request.roles \subseteq Roles /\ session.roles \subseteq Roles
        BY <2>3 DEF Access!Request, Access!Session
    <2> QED
        BY <1>8, <2>1, <2>2, <2>4 DEF Access!AskAuthService
<1>9. CASE Access!Authorize
    <2>1. CASE Access!Finish("authz")
        BY <2>1, AccessFinish
    <2>2. CASE ~Access!Finish("authz")
        <3>1. /\ at = "authz" /\ Access!Permits(request.tier, user.name, user.roles)
              /\ Access!Step("authz", "handler") /\ UNCHANGED user
            BY <1>9, <2>2 DEF Access!Authorize, Access!OnlyIf
        <3>2. KnownBy'
            BY <3>1 DEF AccessInv, KnownBy, Credential, Access!Step, Access!Mode,
                        Access!UnsafeNoAuth
        <3> QED
            BY <3>1, <3>2, AccessForward DEF UnderWay, AccessInv, Access!TypeOK
    <2> QED
        BY <2>1, <2>2
<1>10. CASE Access!Serve
    BY <1>10, AccessFinish DEF Access!Serve
<1>11. ASSUME NEW s \in Sessions, Access!ChangeSession(s) PROVE AccessInv'
    <2>1. /\ session' = s /\ had' = had \cup {s}
          /\ UNCHANGED <<file, env, at, request, user>>
        BY <1>11 DEF Access!ChangeSession
    <2>2. KnownBy => KnownBy'
        BY <2>1 DEF KnownBy, Credential, Access!Mode, Access!UnsafeNoAuth
    <2>3. Access!Permits(request.tier, user.name, user.roles)'
              = Access!Permits(request.tier, user.name, user.roles)
        BY <2>1 DEF Access!Permits, Access!RolesFor, Access!ServicesFor, Access!Given
    <2> QED
        BY <2>1, <2>2, <2>3
        DEF AccessInv, Access!TypeOK, Access!Protected, Access!UnsafeNonlocal, Credential,
            UnderWay
<1>12. CASE UNCHANGED accessVars
    BY <1>12
    DEF accessVars, AccessInv, Access!TypeOK, Access!Protected, Access!UnsafeNonlocal,
        Credential, UnderWay, KnownBy, Access!Mode, Access!UnsafeNoAuth, Access!Permits,
        Access!RolesFor, Access!ServicesFor, Access!Given
<1> QED
    BY <1>1, <1>2, <1>3, <1>4, <1>5, <1>6, <1>7, <1>8, <1>9, <1>10, <1>11, <1>12 DEF Access!Next


\* What the steps behind a request establish is what the properties ask for.
LEMMA AccessHolds == AccessInv => Access!OpenOnlyOnRequest /\ Access!ServedWithRights
<1> SUFFICES ASSUME AccessInv
             PROVE  Access!OpenOnlyOnRequest /\ Access!ServedWithRights
    OBVIOUS
<1>1. ASSUME Access!Protected, ~Credential
      PROVE  "disabled" \in {file.mode, env.mode} /\ (file.noAuth \/ env.noAuth = "true")
    BY <1>1 DEF AccessInv, KnownBy, Access!Mode, Access!UnsafeNoAuth
<1>2. at = "handler" /\ request.client = "remote" =>
          env.nonlocal = "true" \/ (env.nonlocal = Absent /\ file.nonlocal)
    BY DEF AccessInv, UnderWay, Access!UnsafeNonlocal
<1>3. Access!ServedWithCurrentRights
    BY DEF Access!ServedWithCurrentRights, AccessInv, KnownBy
<1>4. Access!LifecyclePrivileged
    <2> SUFFICES ASSUME Access!Protected, request.tier \in Access!Lifecycle, user.roles = {"service"},
                        NEW list, list = file.services[request.tier]
                 PROVE  \/ file.roles["admin"] # Absent /\ "service" \in file.roles["admin"]
                        \/ list = Absent /\ user.name = "service-orchestrator"
                        \/ list # Absent /\ (list = {} \/ user.name \in list)
        BY DEF Access!LifecyclePrivileged
    <2>1. \/ "service" \in Access!Given(file.roles["admin"], {"operator", "admin"})
          \/ user.name \in Access!Given(list, {"service-orchestrator"})
        BY DEF AccessInv, Access!Permits, Access!RolesFor, Access!ServicesFor
    <2> QED
        BY <2>1 DEF Access!Given
<1> QED
    BY <1>1, <1>2, <1>3, <1>4
    DEF Access!OpenOnlyOnRequest, Access!ServedWithRights, Credential

-----------------------------------------------------------------------------
(* The packages an action may come from. *)

\* The registry is of no account for what is installed already; for the rest the
\* properties carry themselves, as far as the last review is known.
PackageInv == Ecosystem!TypeOK /\ Ecosystem!Vetted

LEMMA PackageInitInv == Ecosystem!Init => PackageInv
    BY DEF Ecosystem!Init, PackageInv, Ecosystem!TypeOK, Ecosystem!Vetted,
           Ecosystem!OnlyAccepted, Ecosystem!GrantsReviewed, Ecosystem!NoCreep,
           Ecosystem!PermissionsOf

\* A package is no absence of one.
LEMMA PackagePresent ==
    ASSUME NEW m \in Packages
    PROVE  m \in Ecosystem!Manifest /\ m # Absent /\ Ecosystem!PermissionsOf(m) = m.permissions
           /\ m.permissions \subseteq Ecosystem!Permission
    BY PackagesAssumption, AbsentAssumption DEF Ecosystem!PermissionsOf, Ecosystem!Manifest

\* A signature that verifies is one of this manifest, with the key configured for
\* the publisher it names.
LEMMA AcceptedPackage ==
    ASSUME NEW m \in Packages, Ecosystem!Acceptable(m)
    PROVE  /\ [manifest |-> m, key |-> Trusted[m.publisher]] \in Signings
           /\ m.min <= HostApi /\ HostApi <= m.max
<1>1. PICK s \in Signings : s.key = Trusted[m.publisher] /\ s.manifest = m
    BY DEF Ecosystem!Acceptable, Ecosystem!Verified, Ecosystem!Canonical
<1>2. s = [manifest |-> m, key |-> Trusted[m.publisher]]
    BY <1>1, PackagesAssumption
<1> QED
    BY <1>1, <1>2 DEF Ecosystem!Acceptable, Ecosystem!Compatible

LEMMA PackageNextInv == PackageInv /\ [Ecosystem!Next]_packageVars => PackageInv'
<1> SUFFICES ASSUME PackageInv, [Ecosystem!Next]_packageVars PROVE PackageInv'
    OBVIOUS
<1> USE DEF PackageInv, Ecosystem!TypeOK, Ecosystem!Vetted
<1>1. ASSUME NEW m \in Packages, Ecosystem!Update(m) PROVE PackageInv'
    <2>1. /\ installed' = m /\ granted' = granted \cap Ecosystem!PermissionsOf(m)
          /\ UNCHANGED <<revoked, baseline>>
          /\ installed # Absent /\ Ecosystem!Added(installed, m) = {}
          /\ installed.risk = m.risk /\ installed.confirmation = m.confirmation
        BY <1>1 DEF Ecosystem!Update, Ecosystem!Expands
    <2>2. m.permissions \subseteq Ecosystem!PermissionsOf(installed)
        BY <2>1, PackagePresent DEF Ecosystem!Added
    <2>3. Ecosystem!OnlyAccepted'
        BY <1>1, <2>1, AcceptedPackage DEF Ecosystem!OnlyAccepted, Ecosystem!Update
    <2>4. Ecosystem!PermissionsOf(installed)' = m.permissions
        BY <2>1, PackagePresent DEF Ecosystem!PermissionsOf
    <2>5. Ecosystem!GrantsReviewed'
        BY <2>1, <2>2, <2>4, PackagePresent DEF Ecosystem!GrantsReviewed
    <2>6. Ecosystem!PermissionsOf(baseline)' = Ecosystem!PermissionsOf(baseline)
        BY <2>1 DEF Ecosystem!PermissionsOf
    <2>7. Ecosystem!NoCreep'
        BY <2>1, <2>2, <2>6 DEF Ecosystem!NoCreep, Ecosystem!PermissionsOf
    <2> QED
        BY <2>1, <2>3, <2>5, <2>7, PackagePresent
<1>2. ASSUME NEW m \in Packages, Ecosystem!ApprovedUpdate(m) PROVE PackageInv'
    <2>1. /\ installed' = m /\ baseline' = m /\ UNCHANGED revoked
          /\ granted' = (granted \cap m.permissions) \cup Ecosystem!Added(installed, m)
        BY <1>2, PackagePresent DEF Ecosystem!ApprovedUpdate
    <2>2. /\ Ecosystem!Added(installed, m) = m.permissions \ Ecosystem!PermissionsOf(installed)
          /\ Ecosystem!PermissionsOf(installed)' = m.permissions
          /\ Ecosystem!PermissionsOf(baseline)' = m.permissions
        BY <2>1, PackagePresent DEF Ecosystem!Added, Ecosystem!PermissionsOf
    <2>3. Ecosystem!OnlyAccepted'
        BY <1>2, <2>1, AcceptedPackage DEF Ecosystem!OnlyAccepted, Ecosystem!ApprovedUpdate
    <2>4. Ecosystem!GrantsReviewed'
        BY <2>1, <2>2 DEF Ecosystem!GrantsReviewed
    <2>5. Ecosystem!NoCreep'
        BY <2>1, <2>2 DEF Ecosystem!NoCreep
    <2> QED
        BY <2>1, <2>2, <2>3, <2>4, <2>5, PackagePresent
<1>3. ASSUME UNCHANGED <<installed, granted, baseline>>, revoked' \subseteq RevocationIds
      PROVE  PackageInv'
    BY <1>3 DEF Ecosystem!OnlyAccepted, Ecosystem!GrantsReviewed, Ecosystem!NoCreep,
                Ecosystem!PermissionsOf
<1>4. ASSUME NEW id \in RevocationIds, Ecosystem!Revoke(id) \/ Ecosystem!Restore(id) PROVE PackageInv'
    BY <1>3, <1>4 DEF Ecosystem!Revoke, Ecosystem!Restore
<1>5. CASE UNCHANGED packageVars
    BY <1>3, <1>5 DEF packageVars
<1> QED
    BY <1>1, <1>2, <1>4, <1>5 DEF Ecosystem!Next

-----------------------------------------------------------------------------
(* The four side by side. *)

\* A step of the composition is a step of the control that is followed, and
\* leaves the state of every other one alone.
LEMMA StepOfOne ==
    [ControlsNext]_controlsVars =>
        /\ [Next]_vars /\ [TargetNext]_targetVars
        /\ [Access!Next]_accessVars /\ [Ecosystem!Next]_packageVars
    BY DEF ControlsNext, controlsVars

\* The composition behaves like the authority, and like the targets, as they are
\* specified on their own.
LEMMA ImplementsEach == ControlsSpec => Spec /\ TargetSpec /\ Access!Spec /\ Ecosystem!Spec
<1>1. ControlsInit => Init /\ TargetInit /\ Access!Init /\ Ecosystem!Init
    BY DEF ControlsInit
<1>2. [ControlsNext]_controlsVars =>
          /\ [Next]_vars /\ [TargetNext]_targetVars
          /\ [Access!Next]_(Access!vars) /\ [Ecosystem!Next]_(Ecosystem!vars)
    BY StepOfOne DEF Access!vars, accessVars, Ecosystem!vars, packageVars
<1> QED
    BY <1>1, <1>2, PTL DEF ControlsSpec, Spec, TargetSpec, Access!Spec, Ecosystem!Spec

THEOREM AccessInvariance == ControlsSpec => []AccessInv
<1>1. ControlsInit => AccessInv
    BY AccessInitInv DEF ControlsInit
<1>2. AccessInv /\ [ControlsNext]_controlsVars => AccessInv'
    BY StepOfOne, AccessNextInv
<1> QED
    BY <1>1, <1>2, PTL DEF ControlsSpec

THEOREM PackageInvariance == ControlsSpec => []PackageInv
<1>1. ControlsInit => PackageInv
    BY PackageInitInv DEF ControlsInit
<1>2. PackageInv /\ [ControlsNext]_controlsVars => PackageInv'
    BY StepOfOne, PackageNextInv
<1> QED
    BY <1>1, <1>2, PTL DEF ControlsSpec

\* The state of all four keeps its type.
THEOREM ControlsTypeCorrect == ControlsSpec => []TypesOK
<1>1. AuthorityInv /\ TargetInv /\ AccessInv /\ PackageInv => TypesOK
    BY DEF AuthorityInv, TargetInv, AccessInv, PackageInv, TypesOK
<1> QED
    BY <1>1, ImplementsEach, AuthorityInvariance, TargetInvariance, AccessInvariance,
       PackageInvariance, PTL

\* No configuration that does not say so lets a request without a credential, or
\* one from another host, to a handler.
THEOREM OpensOnlyOnRequest == ControlsSpec => []OpenOnlyOnRequest
<1>1. AccessInv => OpenOnlyOnRequest
    BY AccessHolds DEF OpenOnlyOnRequest
<1> QED
    BY <1>1, AccessInvariance, PTL

\* Who is served had the rights while the request was under way, whatever the
\* auth service did to the session meanwhile.
THEOREM ServesWithRights == ControlsSpec => []ServedWithRights
<1>1. AccessInv => ServedWithRights
    BY AccessHolds DEF ServedWithRights
<1> QED
    BY <1>1, AccessInvariance, PTL

\* No chain of updates, revocations and restorations puts a package in use that
\* was not signed as it is and reviewed for all it may do.
THEOREM PackagesAreVetted == ControlsSpec => []Vetted
<1>1. PackageInv => Vetted
    BY DEF PackageInv, Vetted
<1> QED
    BY <1>1, PackageInvariance, PTL

\* What is proved of the authority and the targets holds where the four are side
\* by side.
THEOREM ControlsKeepPromises ==
    ControlsSpec => /\ []NonceSpentOnce /\ []ExecutesGoverned /\ ExpiredIsSpent
                    /\ []AuthorizedWasBound /\ []LifetimesKept
<1> QED
    BY ImplementsEach, NoncesAreSingleUse, OnlyGovernedExecutes, ExpiryIsFinal,
       NothingUnbound, WholeSecondsSuffice, PTL
=============================================================================
