------------------------ MODULE CapabilityRefinement ------------------------
(* The locked, crash-prone, step by step handlers of CapabilityService        *)
(* implement the atomic operations of CapabilityCatalog.                      *)
EXTENDS CapabilityServiceProofs

USE DEF storeVars, lockVars, faultVars, workerVars, vars

Outcomes == [w \in Worker |-> Outcome(w)]

\* A step of one worker changes what that worker is answered and nothing else.
LEMMA OutcomeAfter ==
  ASSUME Inv, NEW w \in Worker, Serve(w)
  PROVE  /\ Outcomes' = [Outcomes EXCEPT ![w] = Outcome(w)']
         /\ req'[w] = req[w] => req' = req
  <1>1. \A v \in Worker \ {w} : Outcome(v)' = Outcome(v) /\ req'[v] = req[v]
    BY Frame DEF Inv, Outcome
  <1>2. Outcomes' = [v \in Worker |-> Outcome(v)']
    BY DEF Outcomes
  <1>3. req \in [Worker -> Requests \cup {NoRequest}] /\ req' \in [Worker -> Requests \cup {NoRequest}]
    BY TypeOKStep, EquippedByInv DEF Inv, TypeOK
  <1>4. Outcomes' = [Outcomes EXCEPT ![w] = Outcome(w)']
    <2> DEFINE o(v) == Outcome(v)
               n(v) == Outcome(v)'
    <2>1. \A v \in Worker \ {w} : n(v) = o(v)
      BY <1>1
    <2> HIDE DEF o, n
    <2>2. [v \in Worker |-> n(v)] = [[v \in Worker |-> o(v)] EXCEPT ![w] = n(w)]
      BY <2>1
    <2> QED BY <1>2, <2>2 DEF Outcomes, o, n
  <1>5. ASSUME req'[w] = req[w] PROVE req' = req
    BY <1>1, <1>3, <1>5
  <1> QED BY <1>4, <1>5

\* Before its answer is settled a worker's call is pending, and nothing is known
\* of its outcome.
LEMMA PendingBefore ==
  ASSUME Inv, NEW w \in Worker, pc[w] \in Unsettled
  PROVE  Outcome(w) = Atomic!NoResult /\ answer[w] = "none"
  BY DEF Inv, SettledOnce, Outcome, Atomic!NoResult

\* The service starts as the empty catalog of overrides, with nobody waiting.
LEMMA CatalogInitially == Init => Atomic!Init
  BY DEF Init, StoreInit, Atomic!Init, Atomic!NoResult, Atomic!NoRequest, Atomic!EmptyCatalog,
         EmptyCatalog, NoRequest, Outcome

\* A step that touches neither the local catalog nor what the worker is answered
\* is invisible.
LEMMA Invisible ==
  ASSUME Inv, NEW w \in Worker, Serve(w),
         local' = local, req'[w] = req[w], Outcome(w)' = Outcome(w)
  PROVE  UNCHANGED Atomic!vars
  <1>1. Outcomes' = Outcomes /\ req' = req
    BY OutcomeAfter DEF Outcomes
  <1> QED BY <1>1 DEF Atomic!vars, Outcomes

\* A step that settles an answer is the operation's; these are its guard and effect.
LEMMA Settles ==
  ASSUME Inv, NEW w \in Worker, Serve(w), req'[w] = req[w], pc[w] \in Unsettled,
         NEW k, NEW m, Outcome(w)' = [kind |-> k, manifest |-> m]
  PROVE  /\ Atomic!Answer(w, k, m)
         /\ req' = req
         /\ Outcomes[w] = Atomic!NoResult
  BY OutcomeAfter, PendingBefore DEF Atomic!Answer, Outcomes

\* The steps that settle nothing are invisible.
LEMMA QuietSteps ==
  ASSUME Inv, NEW w \in Worker,
         \/ LockExclusive(w) \/ LockShared(w) \/ LoadLocal(w) \/ InstallExists(w)
         \/ InstallClean(w) \/ InstallPayload(w) \/ RemoveDrop(w) \/ RemoveMeta(w)
         \/ RemoveManifest(w) \/ RemovePayload(w) \/ RunNest(w) \/ RunExec(w)
         \/ ResetManifests(w) \/ ResetPayloads(w) \/ ResetTmp(w)
  PROVE  UNCHANGED Atomic!vars
  <1>1. local' = local /\ req' = req /\ man' = man /\ answer' = answer
    BY DEF LockExclusive, LockShared, LoadLocal, InstallExists, InstallClean, InstallPayload,
           RemoveDrop, RemoveMeta, RemoveManifest, RemovePayload, RunNest, RunExec,
           ResetManifests, ResetPayloads, ResetTmp
  <1>2. Outcome(w)' = Outcome(w) /\ Serve(w)
    BY <1>1 DEF Outcome, Serve
  <1> QED BY <1>1, <1>2, Invisible

\* An update that raises is refused, and until then nothing of it is visible.
LEMMA RefusedSteps ==
  ASSUME Inv, NEW w \in Worker,
         \/ InstallCheck(w) \/ InstallFetch(w) \/ InstallStage(w) \/ InstallPromote(w)
         \/ RemoveDisable(w)
  PROVE  Atomic!Refuse(w) \/ UNCHANGED Atomic!vars
  <1> USE DEF Step, Goto, Fail, Settle
  <1>1. /\ pc[w] \in {"check", "fetch", "stage", "promote", "disable"}
        /\ local' = local /\ req' = req /\ Serve(w)
        /\ answer' = answer \/ answer' = [answer EXCEPT ![w] = "error"]
    BY DEF InstallCheck, InstallFetch, InstallStage, InstallPromote, RemoveDisable, Serve
  <1>2. req[w].op \in {"install", "remove"} /\ pc[w] \in Unsettled
    BY <1>1 DEF Inv, Dispatched, InstallSteps, RemoveSteps, Unsettled
  <1>3. CASE answer' = answer
    <2>1. Outcome(w)' = Outcome(w)
      BY <1>1, <1>2, <1>3 DEF Outcome
    <2> QED BY <1>1, <2>1, Invisible
  <1>4. CASE answer' = [answer EXCEPT ![w] = "error"]
    <2>1. Outcome(w)' = [kind |-> "error", manifest |-> Absent]
      BY <1>1, <1>2, <1>4 DEF Outcome, Inv, TypeOK
    <2> QED BY <1>1, <1>2, <2>1, Settles DEF Atomic!Refuse, Atomic!Pending, Outcomes
  <1> QED BY <1>1, <1>3, <1>4

\* The write of the local catalog is where an install or a removal takes effect
\* (store.py, upsert_local and delete_local).
LEMMA WriteStep ==
  ASSUME Inv, NEW w \in Worker, WriteLocal(w)
  PROVE  Atomic!Install(w) \/ Atomic!Remove(w) \/ Atomic!Refuse(w)
  <1>1. /\ pc[w] = "write" /\ pc[w] \in Unsettled /\ req' = req /\ Serve(w)
        /\ req[w].op \in {"install", "remove"} /\ snap[w] = local
    BY DEF WriteLocal, Serve, Unsettled, Inv, Dispatched, WriteIsFresh
  <1>2. CASE answer' = [answer EXCEPT ![w] = "error"] /\ local' = local
    <2>1. Outcome(w)' = [kind |-> "error", manifest |-> Absent]
      BY <1>1, <1>2 DEF Outcome, Inv, TypeOK
    <2> QED BY <1>1, <1>2, <2>1, Settles DEF Atomic!Refuse, Atomic!Pending, Outcomes
  <1>3. ASSUME NEW k \in {"ok", "error"}, answer' = [answer EXCEPT ![w] = k],
               local' = IF man[w] # Absent THEN Put(local, man[w])
                                          ELSE Drop(local, req[w].id)
        PROVE  Atomic!Install(w) \/ Atomic!Remove(w)
    <2>1. Outcome(w)' = [kind |-> k, manifest |-> Absent]
      BY <1>1, <1>3 DEF Outcome, Inv, TypeOK
    <2>2. Atomic!Answer(w, k, Absent) /\ k \in Atomic!Updated /\ Outcomes[w] = Atomic!NoResult
      BY <1>1, <1>3, <2>1, Settles DEF Atomic!Updated
    <2>3. CASE req[w].op = "install"
      <3>1. man[w] = Chosen(req[w].cand) /\ req[w].cand.manifest.trusted /\ man[w] # Absent
        BY <1>1, <2>3, InHandTyping, EquippedByInv, AbsentAssumption DEF Inv, InHand, InHandOf
      <3> QED BY <1>1, <1>3, <2>2, <2>3, <3>1
          DEF Atomic!Install, Atomic!Pending, Outcomes, Put, Chosen, Atomic!Put, Atomic!Chosen
    <2>4. CASE req[w].op = "remove"
      <3>1. \/ man[w] = Absent /\ local[req[w].id] # Absent
            \/ /\ man[w] = Disabled(Base[req[w].id])
               /\ local[req[w].id] = Absent /\ Base[req[w].id] # Absent
        BY <1>1, <2>4 DEF Inv, InHand, InHandOf
      <3>2. man[w] \in Manifest \cup {Absent} /\ req[w].id \in Ids
        BY <1>1, <2>4, InHandTyping, EquippedByInv DEF Inv, TypeOK
      <3>3. CASE man[w] = Absent /\ local[req[w].id] # Absent
        BY <1>1, <1>3, <2>2, <2>4, <3>3
           DEF Atomic!Remove, Atomic!Pending, Outcomes, Drop, Atomic!Drop
      <3>4. CASE /\ man[w] = Disabled(Base[req[w].id])
                 /\ local[req[w].id] = Absent /\ Base[req[w].id] # Absent
        <4>1. man[w] # Absent
          <5>1. Base[req[w].id] \in Manifest
            BY <3>2, <3>4, BaseAssumption DEF Catalog
          <5>2. Disabled(Base[req[w].id]) \in Manifest
            BY <5>1 DEF Disabled, Manifest
          <5> QED BY <3>4, <5>2, AbsentAssumption
        <4>2. local' = Put(local, Disabled(Base[req[w].id]))
          BY <1>3, <3>4, <4>1
        <4> QED BY <1>1, <2>2, <2>4, <3>4, <4>2
            DEF Atomic!Remove, Atomic!Pending, Outcomes, Put, Disabled, Atomic!Put,
                Atomic!Disabled
      <3> QED BY <3>1, <3>3, <3>4
    <2> QED BY <1>1, <2>3, <2>4
  <1> QED BY <1>1, <1>2, <1>3 DEF WriteLocal, Fail, Settle

\* A removal that finds nothing, and a reset, take effect as they say so.
LEMMA FindAndReset ==
  ASSUME Inv, NEW w \in Worker
  PROVE  /\ RemoveFind(w) => Atomic!RemoveNothing(w) \/ UNCHANGED Atomic!vars
         /\ ResetUnlink(w) => Atomic!Reset(w) \/ Atomic!Refuse(w)
  <1> USE DEF Settle, Step, Goto
  <1>1. ASSUME RemoveFind(w)
        PROVE  Atomic!RemoveNothing(w) \/ UNCHANGED Atomic!vars
    <2>1. /\ pc[w] \in Unsettled /\ req[w].op = "remove" /\ req' = req /\ local' = local
          /\ man' = man /\ Serve(w)
      BY <1>1 DEF RemoveFind, Unsettled, Inv, Dispatched, RemoveSteps, Serve
    <2>2. CASE answer' = answer
      BY <2>1, <2>2, Invisible DEF Outcome
    <2>3. CASE /\ answer' = [answer EXCEPT ![w] = "absent"]
               /\ Merged(local)[req[w].id] = Absent
      <3>1. Outcome(w)' = [kind |-> "absent", manifest |-> Absent]
        BY <2>1, <2>3 DEF Outcome, Inv, TypeOK
      <3> QED BY <2>1, <2>3, <3>1, Settles
          DEF Atomic!RemoveNothing, Atomic!Pending, Outcomes, Merged, Atomic!Merged
    <2> QED BY <1>1, <2>2, <2>3 DEF RemoveFind
  <1>2. ASSUME ResetUnlink(w)
        PROVE  Atomic!Reset(w) \/ Atomic!Refuse(w)
    <2>1. pc[w] \in Unsettled /\ req[w].op = "reset" /\ req' = req /\ Serve(w)
      BY <1>2 DEF ResetUnlink, Unsettled, Inv, Dispatched, ResetSteps, Serve
    <2>2. CASE local' = EmptyCatalog /\ answer' = [answer EXCEPT ![w] = "ok"]
      <3>1. Outcome(w)' = [kind |-> "ok", manifest |-> Absent]
        BY <2>1, <2>2 DEF Outcome, Inv, TypeOK
      <3> QED BY <2>1, <2>2, <3>1, Settles
          DEF Atomic!Reset, Atomic!Pending, Outcomes, EmptyCatalog, Atomic!EmptyCatalog
    <2>3. CASE local' = local /\ answer' = [answer EXCEPT ![w] = "error"]
      <3>1. Outcome(w)' = [kind |-> "error", manifest |-> Absent]
        BY <2>1, <2>3 DEF Outcome, Inv, TypeOK
      <3> QED BY <2>1, <2>3, <3>1, Settles DEF Atomic!Refuse, Atomic!Pending, Outcomes
    <2> QED BY <1>2, <2>2, <2>3 DEF ResetUnlink, Fail
  <1> QED BY <1>1, <1>2

\* A get or a run reads the catalog at one instant (resolver.py, get).
LEMMA ReadStep ==
  ASSUME Inv, NEW w \in Worker, Read(w)
  PROVE  Atomic!Read(w)
  <1> DEFINE m == Merged(local)[req[w].id]
  <1>1. /\ pc[w] = "read" /\ pc[w] \in Unsettled /\ req[w].op \in {"get", "run"}
        /\ req' = req /\ local' = local /\ Serve(w)
    BY DEF Read, Unsettled, Inv, Dispatched, Serve
  <1>2. CASE /\ Readable(req[w], m)
             /\ man' = [man EXCEPT ![w] = m] /\ answer' = [answer EXCEPT ![w] = "ok"]
    <2>1. Outcome(w)' = [kind |-> "ok", manifest |-> m]
      BY <1>1, <1>2 DEF Outcome, Inv, TypeOK
    <2> QED BY <1>1, <1>2, <2>1, Settles
        DEF Atomic!Read, Atomic!Pending, Outcomes, Merged, Readable, Matches, RunAllowed,
            Atomic!Merged, Atomic!Readable, Atomic!Matches, Atomic!RunAllowed
  <1>3. CASE ~Readable(req[w], m) /\ answer' = [answer EXCEPT ![w] = "error"]
    <2>1. Outcome(w)' = [kind |-> "error", manifest |-> Absent]
      BY <1>1, <1>3 DEF Outcome, Inv, TypeOK
    <2> QED BY <1>1, <1>3, <2>1, Settles
        DEF Atomic!Read, Atomic!Pending, Outcomes, Merged, Readable, Matches, RunAllowed,
            Atomic!Merged, Atomic!Readable, Atomic!Matches, Atomic!RunAllowed
  <1> QED BY <1>2, <1>3 DEF Read, Fail, Settle

\* A handler answers once its answer is settled.
LEMMA ReturnStep ==
  ASSUME Inv, NEW w \in Worker, Return(w)
  PROVE  Atomic!Respond(w)
  <1>1. pc[w] = "unlock" /\ answer[w] # "none" /\ Serve(w) /\ local' = local
    BY DEF Return, Step, Inv, SettledOnce, Unsettled, Serve
  <1>2. Outcome(w)' = Atomic!NoResult /\ req' = [req EXCEPT ![w] = NoRequest]
    BY DEF Return, Outcome, Atomic!NoResult, NoRequest, Inv, TypeOK
  <1>3. Outcomes[w] # Atomic!NoResult
    BY <1>1 DEF Outcomes, Outcome, Atomic!NoResult
  <1> QED BY <1>1, <1>2, <1>3, OutcomeAfter DEF Atomic!Respond, Outcomes, NoRequest,
             Atomic!NoRequest

\* Every step of the service is one of the atomic catalog, or invisible.
LEMMA CatalogStep ==
  ASSUME Inv, Next
  PROVE  Atomic!Next \/ UNCHANGED Atomic!vars
  <1>1. CASE Crash
    <2>1. Atomic!Crash
      BY <1>1 DEF Crash, Atomic!Crash, Outcome, Atomic!NoResult, NoRequest, Atomic!NoRequest
    <2> QED BY <2>1 DEF Atomic!Next
  <1>2. ASSUME NEW w \in Worker, Call(w)
        PROVE  Atomic!Ask(w)
    <2>1. req[w] = NoRequest
      BY <1>2 DEF Call, Step, Inv, Dispatched
    <2>2. PICK r \in Requests : req' = [req EXCEPT ![w] = r]
      BY <1>2 DEF Call
    <2>3. answer[w] = "none" /\ answer' = answer /\ man' = man /\ local' = local
      BY <1>2 DEF Call, Step, Inv, SettledOnce, Unsettled
    <2>4. \A v \in Worker : Outcome(v)' = Outcome(v)
      BY <2>2, <2>3 DEF Outcome, Inv, TypeOK
    <2> QED BY <2>1, <2>2, <2>3, <2>4 DEF Atomic!Ask, NoRequest, Atomic!NoRequest
  <1>3. ASSUME NEW w \in Worker, Serve(w)
        PROVE  Atomic!Next \/ UNCHANGED Atomic!vars
    BY <1>3, QuietSteps, RefusedSteps, WriteStep, FindAndReset, ReadStep, ReturnStep
       DEF Serve, Atomic!Next
  <1> QED BY <1>1, <1>2, <1>3 DEF Next, Atomic!Next

\* For any number of threads, capabilities and requests, what clients see of the
\* service is what they would see of a catalog on which every operation takes
\* effect at once, crashes included (locks.py, resolver.py, store.py).
THEOREM HandlersAreAtomic == Spec => ImplementsAtomicCatalog
  <1>1. Inv /\ [Next]_vars => [Atomic!Next]_(Atomic!vars)
    <2>1. ASSUME Inv, UNCHANGED vars PROVE UNCHANGED Atomic!vars
      BY <2>1 DEF Atomic!vars, Outcome
    <2> QED BY <2>1, CatalogStep
  <1> QED BY <1>1, CatalogInitially, Invariance, PTL DEF Spec, ImplementsAtomicCatalog,
             Atomic!Spec
=============================================================================
