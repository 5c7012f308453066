----------------------- MODULE CapabilityServiceProofs -----------------------
EXTENDS CapabilityService, FiniteSetTheorems, TLAPS

USE DEF storeVars, lockVars, faultVars, workerVars, vars

\* The fields of a request have the types its handler relies on.
LEMMA RequestTyping ==
  ASSUME NEW r \in Requests \cup {NoRequest}
  PROVE  /\ r.op = "install" => /\ r.cand \in Candidate
                                /\ Chosen(r.cand) \in Manifest
         /\ r.op = "remove" => r.id \in Ids /\ r.version \in Versions
         /\ r.op \in {"get", "run"} => r.id \in Ids
         /\ r.op \in {"none", "install", "remove", "get", "run", "reset"}
         /\ r.op = "none" <=> r = NoRequest
BY RequestsAssumption, CandidatesAssumption
   DEF Request, InstallRequest, RemoveRequest, ReadRequest, ResetRequest, NoRequest,
       Candidate, Chosen

\* upsert_local turns a catalog into a catalog and changes one entry.
LEMMA PutTyping ==
  ASSUME NEW c \in Catalog, NEW m \in Manifest
  PROVE  Put(c, m) \in Catalog
BY AbsentAssumption DEF Put, Catalog, Manifest

\* delete_local turns a catalog into a catalog and changes one entry.
LEMMA DropTyping ==
  ASSUME NEW c \in Catalog, NEW i \in Ids
  PROVE  Drop(c, i) \in Catalog
BY DEF Drop, Catalog

\* merged_catalog yields a catalog, and its entries are where they are filed.
LEMMA MergedTyping ==
  ASSUME NEW c \in Catalog, NEW i \in Ids, Merged(c)[i] # Absent
  PROVE  /\ Merged(c)[i] \in Manifest
         /\ Merged(c)[i].id = i
         /\ Disabled(Merged(c)[i]) \in Manifest
  <1>1. Merged(c)[i] \in Manifest /\ Merged(c)[i].id = i
    BY BaseAssumption DEF Merged, Catalog
  <1>2. \A m \in Manifest : Disabled(m) \in Manifest
    BY DEF Disabled, Manifest
  <1> QED BY <1>1, <1>2

\* What a handler has in hand for its next steps as long as its own steps are the
\* only ones that give it anything: the part of the invariant that holds even if
\* somebody without the lock writes the local catalog (CapabilitySystem).
CarriedOf(w) ==
    /\ req[w].op = "install" /\ pc[w] \notin {"lock", "check", "unlock"} =>
          req[w].cand.manifest.trusted
    /\ req[w].op = "install" /\ pc[w] \notin {"lock", "check", "fetch", "unlock"} =>
          man[w] = Chosen(req[w].cand)
    /\ pc[w] = "fetch" => req[w].cand.pinned # Absent
    /\ pc[w] = "promote" => stage[w] = man[w]
    /\ pc[w] \in {"idle", "lock", "check", "find", "drop", "disable"} => man[w] = Absent
    /\ pc[w] = "write" => snap[w] \in Catalog
Carried == \A w \in Worker : CarriedOf(w)

Equipped == TypeOK /\ Dispatched /\ Carried

LEMMA EquippedByInv == Inv => Equipped
  BY DEF Inv, InHand, InHandOf, Equipped, Carried, CarriedOf, WriteIsFresh, TypeOK, StoreTypeOK

\* The service starts, on an empty store, in a state of the invariant.
LEMMA InitInv == Init => Inv
  <1> SUFFICES ASSUME Init PROVE Inv
    OBVIOUS
  <1> USE DEF Init, StoreInit
  <1>1. TypeOK
    <2>1. StoreTypeOK
      BY DEF StoreTypeOK, Catalog, EmptyCatalog, Artifact, NoArtifact, PayloadState
    <2>2. calls \in 0..MaxCalls /\ crashes \in 0..MaxCrashes /\ diskErrors \in 0..MaxDiskErrors
      BY BoundsAssumption
    <2>3. pc \in [Worker -> PC] /\ answer \in [Worker -> Answer]
      BY DEF PC, Answer
    <2>4. /\ req \in [Worker -> Requests \cup {NoRequest}]
          /\ man \in [Worker -> Manifest \cup {Absent}]
          /\ snap \in [Worker -> Catalog \cup {Absent}]
          /\ stage \in [Worker -> Manifest \cup {Absent}]
          /\ found \in [Worker -> Manifest \cup {Absent}]
      OBVIOUS
    <2>5. /\ shared \in [Worker -> 0..2]
          /\ exclusive \in SUBSET Worker
          /\ orphans \in Nat /\ resetsCut \in Nat
      OBVIOUS
    <2> QED BY <2>1, <2>2, <2>3, <2>4, <2>5 DEF TypeOK
  <1>2. LockExclusion /\ WriteIsFresh /\ RunIsStable /\ CatalogBacked
    BY DEF LockExclusion, WriteIsFresh, RunIsStable, CatalogBacked, EmptyCatalog
  <1>3. Dispatched /\ SettledOnce
    BY DEF Dispatched, SettledOnce, Unsettled, InstallSteps, RemoveSteps, ResetSteps, NoRequest
  <1>4. InHand /\ DirectoriesWhole
    BY DEF InHand, InHandOf, DirectoriesWhole, NoDebris, WholeFor, NoRequest, NoArtifact,
           Removing
  <1> QED BY <1>1, <1>2, <1>3, <1>4 DEF Inv

\* A step of one worker leaves what the others hold alone.
LEMMA Frame ==
  ASSUME TypeOK, NEW w \in Worker, Serve(w), NEW v \in Worker, v # w
  PROVE  /\ pc'[v] = pc[v] /\ req'[v] = req[v] /\ man'[v] = man[v]
         /\ snap'[v] = snap[v] /\ answer'[v] = answer[v] /\ stage'[v] = stage[v]
         /\ shared'[v] = shared[v] /\ found'[v] = found[v]
         /\ v \in exclusive' <=> v \in exclusive
  <1> USE DEF TypeOK, Goto, Step, Settle, Fail
  <1>1. CASE LockExclusive(w) \/ LockShared(w) \/ Return(w)
    BY <1>1 DEF LockExclusive, LockShared, Return
  <1>2. CASE LoadLocal(w) \/ WriteLocal(w)
    BY <1>2 DEF LoadLocal, WriteLocal
  <1>3. CASE \/ InstallCheck(w) \/ InstallFetch(w) \/ InstallExists(w) \/ InstallStage(w)
             \/ InstallPromote(w) \/ InstallClean(w) \/ InstallPayload(w)
    BY <1>3 DEF InstallCheck, InstallFetch, InstallExists, InstallStage,
                InstallPromote, InstallClean, InstallPayload
  <1>4. CASE \/ RemoveFind(w) \/ RemoveDrop(w) \/ RemoveDisable(w)
             \/ RemoveMeta(w) \/ RemoveManifest(w) \/ RemovePayload(w)
    BY <1>4 DEF RemoveFind, RemoveDrop, RemoveDisable, RemoveMeta, RemoveManifest, RemovePayload
  <1>5. CASE RunNest(w) \/ Read(w) \/ RunExec(w)
    BY <1>5 DEF RunNest, Read, RunExec
  <1>6. CASE ResetUnlink(w) \/ ResetManifests(w) \/ ResetPayloads(w) \/ ResetTmp(w)
    BY <1>6 DEF ResetUnlink, ResetManifests, ResetPayloads, ResetTmp
  <1> QED BY <1>1, <1>2, <1>3, <1>4, <1>5, <1>6 DEF Serve

\* The steps that write the store are taken with LOCK_EX held.
LEMMA WritersHoldLock ==
  ASSUME Inv, NEW w \in Worker, Serve(w)
  PROVE  storeVars' = storeVars \/ w \in exclusive
  <1> USE DEF Inv, Dispatched, Goto, Step, Settle, Fail, InstallSteps, RemoveSteps,
              ResetSteps, Writes
  <1>1. CASE LockExclusive(w) \/ LockShared(w) \/ Return(w)
    BY <1>1 DEF LockExclusive, LockShared, Return
  <1>2. CASE LoadLocal(w) \/ WriteLocal(w)
    BY <1>2 DEF LoadLocal, WriteLocal
  <1>3. CASE \/ InstallCheck(w) \/ InstallFetch(w) \/ InstallExists(w) \/ InstallStage(w)
             \/ InstallPromote(w) \/ InstallClean(w) \/ InstallPayload(w)
    BY <1>3 DEF InstallCheck, InstallFetch, InstallExists, InstallStage,
                InstallPromote, InstallClean, InstallPayload
  <1>4. CASE \/ RemoveFind(w) \/ RemoveDrop(w) \/ RemoveDisable(w)
             \/ RemoveMeta(w) \/ RemoveManifest(w) \/ RemovePayload(w)
    BY <1>4 DEF RemoveFind, RemoveDrop, RemoveDisable, RemoveMeta, RemoveManifest, RemovePayload
  <1>5. CASE RunNest(w) \/ Read(w) \/ RunExec(w)
    BY <1>5 DEF RunNest, Read, RunExec
  <1>6. CASE ResetUnlink(w) \/ ResetManifests(w) \/ ResetPayloads(w) \/ ResetTmp(w)
    BY <1>6 DEF ResetUnlink, ResetManifests, ResetPayloads, ResetTmp
  <1> QED BY <1>1, <1>2, <1>3, <1>4, <1>5, <1>6 DEF Serve

\* The reader/writer lock (locks.py) stays exclusive through every step.
LEMMA LockExclusionStep ==
  ASSUME Inv, NEW w \in Worker, Serve(w)
  PROVE  LockExclusion'
  <1> USE DEF Inv, TypeOK, LockExclusion, Goto, Step, Settle, Fail, CanShare, CanExclude
  <1>1. CASE LockExclusive(w) \/ LockShared(w) \/ Return(w)
    BY <1>1 DEF LockExclusive, LockShared, Return
  <1>2. CASE LoadLocal(w) \/ WriteLocal(w)
    BY <1>2 DEF LoadLocal, WriteLocal
  <1>3. CASE \/ InstallCheck(w) \/ InstallFetch(w) \/ InstallExists(w) \/ InstallStage(w)
             \/ InstallPromote(w) \/ InstallClean(w) \/ InstallPayload(w)
    BY <1>3 DEF InstallCheck, InstallFetch, InstallExists, InstallStage,
                InstallPromote, InstallClean, InstallPayload
  <1>4. CASE \/ RemoveFind(w) \/ RemoveDrop(w) \/ RemoveDisable(w)
             \/ RemoveMeta(w) \/ RemoveManifest(w) \/ RemovePayload(w)
    BY <1>4 DEF RemoveFind, RemoveDrop, RemoveDisable, RemoveMeta, RemoveManifest, RemovePayload
  <1>5. CASE RunNest(w) \/ Read(w) \/ RunExec(w)
    BY <1>5 DEF RunNest, Read, RunExec, Dispatched, Writes
  <1>6. CASE ResetUnlink(w) \/ ResetManifests(w) \/ ResetPayloads(w) \/ ResetTmp(w)
    BY <1>6 DEF ResetUnlink, ResetManifests, ResetPayloads, ResetTmp
  <1> QED BY <1>1, <1>2, <1>3, <1>4, <1>5, <1>6 DEF Serve

\* The lock is granted into the handler of the request, and nothing is settled yet.
LEMMA FirstSteps ==
  ASSUME Equipped, NEW w \in Worker, LockExclusive(w) \/ LockShared(w)
  PROVE  \/ req[w].op = "install" /\ pc' = [pc EXCEPT ![w] = "check"] /\ LockExclusive(w)
         \/ req[w].op = "remove" /\ pc' = [pc EXCEPT ![w] = "find"] /\ LockExclusive(w)
         \/ req[w].op = "reset" /\ pc' = [pc EXCEPT ![w] = "unlink"] /\ LockExclusive(w)
         \/ req[w].op = "get" /\ pc' = [pc EXCEPT ![w] = "read"] /\ LockShared(w)
         \/ req[w].op = "run" /\ pc' = [pc EXCEPT ![w] = "nest"] /\ LockShared(w)
  <1>1. req[w] \in Requests \cup {NoRequest} /\ (req[w] = NoRequest <=> pc[w] = "idle")
    BY DEF Equipped, TypeOK, Dispatched
  <1>2. pc[w] = "lock"
    BY DEF LockExclusive, LockShared, Step
  <1>3. req[w].op \in {"install", "remove", "get", "run", "reset"}
    BY <1>1, <1>2, RequestTyping
  <1>4. CASE LockExclusive(w)
    <2>1. req[w].op \in {"install", "remove", "reset"}
      BY <1>4 DEF LockExclusive, Writes
    <2> QED BY <1>4, <2>1 DEF LockExclusive, FirstStep, Step, Goto
  <1>5. CASE LockShared(w)
    <2>1. req[w].op \in {"get", "run"}
      BY <1>3, <1>5 DEF LockShared, Writes
    <2> QED BY <1>5, <2>1 DEF LockShared, FirstStep, Step, Goto
  <1> QED BY <1>4, <1>5

\* A worker stays in the handler of its request, its lock held (server.py).
LEMMA DispatchedStep ==
  ASSUME Equipped, NEW w \in Worker, Serve(w)
  PROVE  Dispatched'
  <1> USE DEF Equipped, TypeOK, Dispatched, Goto, Step, Settle, Fail, InstallSteps,
              RemoveSteps, ResetSteps, Writes, NoRequest
  <1>1. CASE LockExclusive(w) \/ LockShared(w)
    BY <1>1, FirstSteps DEF LockExclusive, LockShared
  <1>7. CASE Return(w)
    BY <1>7 DEF Return
  <1>2. CASE LoadLocal(w) \/ WriteLocal(w)
    BY <1>2 DEF LoadLocal, WriteLocal
  <1>3. CASE \/ InstallCheck(w) \/ InstallFetch(w) \/ InstallExists(w) \/ InstallStage(w)
             \/ InstallPromote(w) \/ InstallClean(w) \/ InstallPayload(w)
    BY <1>3 DEF InstallCheck, InstallFetch, InstallExists, InstallStage,
                InstallPromote, InstallClean, InstallPayload
  <1>4. CASE \/ RemoveFind(w) \/ RemoveDrop(w) \/ RemoveDisable(w)
             \/ RemoveMeta(w) \/ RemoveManifest(w) \/ RemovePayload(w)
    BY <1>4 DEF RemoveFind, RemoveDrop, RemoveDisable, RemoveMeta, RemoveManifest, RemovePayload
  <1>5. CASE RunNest(w) \/ Read(w) \/ RunExec(w)
    BY <1>5 DEF RunNest, Read, RunExec
  <1>6. CASE ResetUnlink(w) \/ ResetManifests(w) \/ ResetPayloads(w) \/ ResetTmp(w)
    BY <1>6 DEF ResetUnlink, ResetManifests, ResetPayloads, ResetTmp
  <1> QED BY <1>1, <1>2, <1>3, <1>4, <1>5, <1>6, <1>7 DEF Serve

\* A handler settles its answer once.
LEMMA SettledOnceStep ==
  ASSUME Inv, NEW w \in Worker, Serve(w)
  PROVE  SettledOnce'
  <1> USE DEF Inv, Goto, Step, Settle, Fail, TypeOK, SettledOnce, Unsettled
  <1>1. CASE LockExclusive(w) \/ LockShared(w)
    BY <1>1, FirstSteps, EquippedByInv DEF LockExclusive, LockShared
  <1>2. CASE LoadLocal(w) \/ WriteLocal(w)
    BY <1>2 DEF LoadLocal, WriteLocal
  <1>3. CASE \/ InstallCheck(w) \/ InstallFetch(w) \/ InstallExists(w) \/ InstallStage(w)
             \/ InstallPromote(w) \/ InstallClean(w) \/ InstallPayload(w)
    BY <1>3 DEF InstallCheck, InstallFetch, InstallExists, InstallStage,
                InstallPromote, InstallClean, InstallPayload
  <1>4. CASE \/ RemoveFind(w) \/ RemoveDrop(w) \/ RemoveDisable(w)
             \/ RemoveMeta(w) \/ RemoveManifest(w) \/ RemovePayload(w)
    BY <1>4 DEF RemoveFind, RemoveDrop, RemoveDisable, RemoveMeta, RemoveManifest, RemovePayload
  <1>5. CASE RunNest(w) \/ Read(w) \/ RunExec(w)
    BY <1>5 DEF RunNest, Read, RunExec
  <1>6. CASE ResetUnlink(w) \/ ResetManifests(w) \/ ResetPayloads(w) \/ ResetTmp(w)
    BY <1>6 DEF ResetUnlink, ResetManifests, ResetPayloads, ResetTmp
  <1>7. CASE Return(w)
    BY <1>7 DEF Return
  <1> QED BY <1>1, <1>2, <1>3, <1>4, <1>5, <1>6, <1>7 DEF Serve

\* No step makes the snapshot of a catalog write stale (store.py, upsert_local).
LEMMA WriteIsFreshStep ==
  ASSUME Inv, NEW w \in Worker, Serve(w)
  PROVE  WriteIsFresh'
  <1> USE DEF Inv, Goto, Step, Settle, Fail, TypeOK, LockExclusion, Dispatched, WriteIsFresh,
              InstallSteps, RemoveSteps, ResetSteps, Writes
  <1>1. CASE LockExclusive(w) \/ LockShared(w)
    BY <1>1, FirstSteps, EquippedByInv DEF LockExclusive, LockShared
  <1>2. CASE LoadLocal(w) \/ WriteLocal(w)
    BY <1>2 DEF LoadLocal, WriteLocal
  <1>3. CASE \/ InstallCheck(w) \/ InstallFetch(w) \/ InstallExists(w) \/ InstallStage(w)
             \/ InstallPromote(w) \/ InstallClean(w) \/ InstallPayload(w)
    BY <1>3 DEF InstallCheck, InstallFetch, InstallExists, InstallStage,
                InstallPromote, InstallClean, InstallPayload
  <1>4. CASE \/ RemoveFind(w) \/ RemoveDrop(w) \/ RemoveDisable(w)
             \/ RemoveMeta(w) \/ RemoveManifest(w) \/ RemovePayload(w)
    BY <1>4 DEF RemoveFind, RemoveDrop, RemoveDisable, RemoveMeta, RemoveManifest, RemovePayload
  <1>5. CASE RunNest(w) \/ Read(w) \/ RunExec(w)
    BY <1>5 DEF RunNest, Read, RunExec
  <1>6. CASE ResetUnlink(w) \/ ResetManifests(w) \/ ResetPayloads(w) \/ ResetTmp(w)
    BY <1>6 DEF ResetUnlink, ResetManifests, ResetPayloads, ResetTmp
  <1>7. CASE Return(w)
    BY <1>7 DEF Return
  <1> QED BY <1>1, <1>2, <1>3, <1>4, <1>5, <1>6, <1>7 DEF Serve

\* No step changes the entry of a capability that executes (resolver.py, run).
LEMMA RunIsStableStep ==
  ASSUME Inv, NEW w \in Worker, Serve(w)
  PROVE  RunIsStable'
  <1> USE DEF Inv, Goto, Step, Settle, Fail, TypeOK, LockExclusion, Dispatched, RunIsStable,
              InstallSteps, RemoveSteps, ResetSteps, Writes
  <1>1. CASE LockExclusive(w) \/ LockShared(w)
    BY <1>1, FirstSteps, EquippedByInv DEF LockExclusive, LockShared
  <1>2. CASE LoadLocal(w) \/ WriteLocal(w)
    BY <1>2 DEF LoadLocal, WriteLocal
  <1>3. CASE \/ InstallCheck(w) \/ InstallFetch(w) \/ InstallExists(w) \/ InstallStage(w)
             \/ InstallPromote(w) \/ InstallClean(w) \/ InstallPayload(w)
    BY <1>3 DEF InstallCheck, InstallFetch, InstallExists, InstallStage,
                InstallPromote, InstallClean, InstallPayload
  <1>4. CASE \/ RemoveFind(w) \/ RemoveDrop(w) \/ RemoveDisable(w)
             \/ RemoveMeta(w) \/ RemoveManifest(w) \/ RemovePayload(w)
    BY <1>4 DEF RemoveFind, RemoveDrop, RemoveDisable, RemoveMeta, RemoveManifest, RemovePayload
  <1>5. CASE RunNest(w) \/ Read(w) \/ RunExec(w)
    BY <1>5 DEF RunNest, Read, RunExec, Readable
  <1>6. CASE ResetUnlink(w) \/ ResetManifests(w) \/ ResetPayloads(w) \/ ResetTmp(w)
    BY <1>6 DEF ResetUnlink, ResetManifests, ResetPayloads, ResetTmp
  <1>7. CASE Return(w)
    BY <1>7 DEF Return
  <1> QED BY <1>1, <1>2, <1>3, <1>4, <1>5, <1>6, <1>7 DEF Serve

\* A manifest has an install directory (store.py, CapabilityRef).
LEMMA RefTyping ==
  ASSUME NEW m \in Manifest
  PROVE  RefOf(m) \in Ref
BY DEF RefOf, Ref, Manifest

\* A directory that holds what an install leaves in it is an installed one.
LEMMA LeftIsListed ==
  ASSUME TypeOK, NEW w \in Worker, man[w] \in Manifest, Left(w)
  PROVE  Listed(RefOf(man[w]))
BY AbsentAssumption DEF TypeOK, Left, Listed

\* Promotion and the unlinking of a file keep install directories well typed.
LEMMA ArtifactTyping ==
  ASSUME NEW a \in [Ref -> Artifact], NEW r \in Ref, NEW m \in Manifest
  PROVE  /\ Promoted(a, r, m) \in [Ref -> Artifact]
         /\ NoMeta(a, r) \in [Ref -> Artifact]
         /\ NoManifest(a, r) \in [Ref -> Artifact]
  <1>1. Promoted(a, r, m) \in [Ref -> Artifact]
    BY DEF Promoted, Artifact
  <1>2. NoMeta(a, r) \in [Ref -> Artifact]
    BY DEF NoMeta, Artifact
  <1>3. NoManifest(a, r) \in [Ref -> Artifact]
    BY DEF NoManifest, Artifact
  <1> QED BY <1>1, <1>2, <1>3

\* Every step leaves a well-typed local catalog (store.py).
LEMMA LocalTypeStep ==
  ASSUME Equipped, NEW w \in Worker, Serve(w)
  PROVE  local' \in Catalog
  <1> USE DEF Equipped, TypeOK, StoreTypeOK
  <1>1. CASE WriteLocal(w)
    <2>1. pc[w] = "write" /\ snap[w] \in Catalog
      BY <1>1 DEF WriteLocal, Carried, CarriedOf
    <2>2. req[w].op \in {"install", "remove"} /\ req[w] \in Requests \cup {NoRequest}
      BY <2>1 DEF Dispatched
    <2>3. CASE man[w] # Absent
      BY <1>1, <2>1, <2>3, PutTyping DEF WriteLocal
    <2>4. CASE man[w] = Absent
      <3>1. req[w].op # "install"
        BY <2>1, <2>2, <2>4, RequestTyping, AbsentAssumption DEF Carried, CarriedOf
      <3> QED BY <1>1, <2>1, <2>2, <2>4, <3>1, DropTyping, RequestTyping DEF WriteLocal
    <2> QED BY <2>3, <2>4
  <1>2. CASE ResetUnlink(w)
    BY <1>2 DEF ResetUnlink, EmptyCatalog, Catalog
  <1>3. CASE UNCHANGED local
    BY <1>3
  <1> QED BY <1>1, <1>2, <1>3
          DEF Serve, LockExclusive, LockShared, Return, LoadLocal, InstallCheck, InstallFetch,
              InstallExists, InstallStage, InstallPromote, InstallClean, InstallPayload,
              RemoveFind, RemoveDrop, RemoveDisable, RemoveMeta, RemoveManifest, RemovePayload,
              RunNest, Read, RunExec, ResetManifests, ResetPayloads, ResetTmp

\* Only these steps touch the install directories.
LEMMA ArtifactChanges ==
  ASSUME NEW w \in Worker, Serve(w)
  PROVE  \/ InstallPromote(w) \/ RemoveMeta(w) \/ RemoveManifest(w) \/ ResetManifests(w)
         \/ UNCHANGED artifact
BY DEF Serve, LockExclusive, LockShared, Return, LoadLocal, WriteLocal, InstallCheck,
       InstallFetch, InstallExists, InstallStage, InstallClean, InstallPayload,
       RemoveFind, RemoveDrop, RemoveDisable, RemovePayload, RunNest, Read, RunExec,
       ResetUnlink, ResetPayloads, ResetTmp

\* An unlink of a removal takes its file, or fails and ends the removal (store.py).
LEMMA UnlinkEffects ==
  ASSUME TypeOK, NEW w \in Worker
  PROVE  /\ RemoveMeta(w) =>
               /\ pc[w] = "unmeta" /\ UNCHANGED <<local, req>>
               /\ \/ artifact' = NoMeta(artifact, <<req[w].id, req[w].version>>)
                  \/ UNCHANGED artifact /\ pc'[w] = "unlock"
         /\ RemoveManifest(w) =>
               /\ pc[w] = "unmanifest" /\ UNCHANGED <<local, req>>
               /\ pc'[w] \in {"unpayload", "unlock"}
               /\ \/ artifact' = NoManifest(artifact, <<req[w].id, req[w].version>>)
                  \/ UNCHANGED artifact
  <1>1. ASSUME RemoveMeta(w)
        PROVE  /\ pc[w] = "unmeta" /\ UNCHANGED <<local, req>>
               /\ \/ artifact' = NoMeta(artifact, <<req[w].id, req[w].version>>)
                  \/ UNCHANGED artifact /\ pc'[w] = "unlock"
    BY <1>1 DEF RemoveMeta, Goto, TypeOK
  <1>2. ASSUME RemoveManifest(w)
        PROVE  /\ pc[w] = "unmanifest" /\ UNCHANGED <<local, req>>
               /\ pc'[w] \in {"unpayload", "unlock"}
               /\ \/ artifact' = NoManifest(artifact, <<req[w].id, req[w].version>>)
                  \/ UNCHANGED artifact
    BY <1>2 DEF RemoveManifest, Goto, TypeOK
  <1> QED BY <1>1, <1>2

\* What a factory reset does to the install directories (store.py).
LEMMA ResetEffect ==
  ASSUME NEW w \in Worker, ResetManifests(w)
  PROVE  /\ pc[w] = "rmmanifests"
         /\ \/ UNCHANGED artifact
            \/ \E r \in Ref : artifact' = NoMeta(artifact, r) \/ artifact' = NoManifest(artifact, r)
         /\ \/ pc' = pc
            \/ \A r \in Ref : ~Occupied(r)
            \/ resetsCut' = resetsCut + 1
  <1>1. \/ \E r \in Ref : artifact' = NoMeta(artifact, r) \/ artifact' = NoManifest(artifact, r)
        \/ UNCHANGED artifact
    BY DEF ResetManifests
  <1>2. \/ pc' = pc
        \/ \A r \in Ref : ~Occupied(r)
        \/ resetsCut' = resetsCut + 1
    BY DEF ResetManifests
  <1> QED BY <1>1, <1>2 DEF ResetManifests

\* What a worker that installs or removes has in hand is well typed.
LEMMA InHandTyping ==
  ASSUME Equipped, NEW w \in Worker
  PROVE  /\ pc[w] \in {"exists", "stage", "promote", "clean", "payload"} =>
               man[w] \in Manifest /\ RefOf(man[w]) \in Ref
         /\ req[w].op = "install" /\ pc[w] \in {"load", "write"} =>
               man[w] \in Manifest /\ RefOf(man[w]) \in Ref
         /\ pc[w] \in InstallSteps => req[w].cand \in Candidate /\ Chosen(req[w].cand) \in Manifest
         /\ pc[w] \in RemoveSteps => req[w].id \in Ids /\ <<req[w].id, req[w].version>> \in Ref
         /\ pc[w] \in {"load", "write"} /\ req[w].op = "remove" => req[w].id \in Ids
         /\ pc[w] \in {"nest", "read", "exec"} => req[w].id \in Ids
  <1> USE DEF Equipped, TypeOK, Dispatched, Carried, CarriedOf, InstallSteps, RemoveSteps
  <1>1. req[w] \in Requests \cup {NoRequest}
    OBVIOUS
  <1>2. /\ req[w].op = "install" => req[w].cand \in Candidate /\ Chosen(req[w].cand) \in Manifest
        /\ req[w].op = "remove" => req[w].id \in Ids /\ req[w].version \in Versions
        /\ req[w].op \in {"get", "run"} => req[w].id \in Ids
    BY <1>1, RequestTyping
  <1> QED BY <1>2, RefTyping DEF Ref

\* Every step leaves well-typed install directories (store.py, installer.py).
LEMMA ArtifactTypeStep ==
  ASSUME Equipped, NEW w \in Worker, Serve(w)
  PROVE  artifact' \in [Ref -> Artifact]
  <1>1. artifact \in [Ref -> Artifact]
    BY DEF Equipped, TypeOK, StoreTypeOK
  <1>2. CASE InstallPromote(w)
    <2>1. pc[w] = "promote"
      BY <1>2 DEF InstallPromote, Step
    <2>2. stage[w] \in Manifest /\ RefOf(man[w]) \in Ref
      BY <2>1, InHandTyping DEF Equipped, Carried, CarriedOf
    <2> QED BY <1>1, <1>2, <2>2, ArtifactTyping DEF InstallPromote
  <1>3. CASE RemoveMeta(w) \/ RemoveManifest(w)
    <2>1. <<req[w].id, req[w].version>> \in Ref
      BY <1>3, UnlinkEffects, InHandTyping DEF Equipped, RemoveSteps
    <2>2. \A r \in Ref : {NoMeta(artifact, r), NoManifest(artifact, r)} \subseteq [Ref -> Artifact]
      BY <1>1 DEF NoMeta, NoManifest, Artifact
    <2> QED BY <1>1, <1>3, <2>1, <2>2, UnlinkEffects DEF Equipped
  <1>4. CASE ResetManifests(w)
    <2>1. \A r \in Ref : {NoMeta(artifact, r), NoManifest(artifact, r)} \subseteq [Ref -> Artifact]
      BY <1>1 DEF NoMeta, NoManifest, Artifact
    <2> QED BY <1>1, <1>4, <2>1, ResetEffect
  <1> QED BY <1>1, <1>2, <1>3, <1>4, ArtifactChanges

\* Every step leaves well-typed payload directories (store.py).
LEMMA PayloadTypeStep ==
  ASSUME Equipped, NEW w \in Worker, Serve(w)
  PROVE  payload' \in [Ref -> PayloadState]
  <1> USE DEF TypeOK, StoreTypeOK, PayloadState
  <1>a. payload \in [Ref -> PayloadState]
    BY DEF Equipped
  <1>1. CASE LockExclusive(w) \/ LockShared(w)
    BY <1>a, <1>1, FirstSteps DEF LockExclusive, LockShared
  <1>2. CASE LoadLocal(w) \/ WriteLocal(w)
    BY <1>a, <1>2 DEF LoadLocal, WriteLocal
  <1>3. CASE \/ InstallCheck(w) \/ InstallFetch(w) \/ InstallExists(w) \/ InstallStage(w)
             \/ InstallPromote(w) \/ InstallClean(w) \/ InstallPayload(w)
    BY <1>a, <1>3 DEF InstallCheck, InstallFetch, InstallExists, InstallStage,
                InstallPromote, InstallClean, InstallPayload
  <1>4. CASE \/ RemoveFind(w) \/ RemoveDrop(w) \/ RemoveDisable(w)
             \/ RemoveMeta(w) \/ RemoveManifest(w) \/ RemovePayload(w)
    BY <1>a, <1>4 DEF RemoveFind, RemoveDrop, RemoveDisable, RemoveMeta, RemoveManifest,
                      RemovePayload
  <1>5. CASE RunNest(w) \/ Read(w) \/ RunExec(w)
    BY <1>a, <1>5 DEF RunNest, Read, RunExec
  <1>6. CASE ResetUnlink(w) \/ ResetManifests(w) \/ ResetPayloads(w) \/ ResetTmp(w)
    BY <1>a, <1>6 DEF ResetUnlink, ResetManifests, ResetPayloads, ResetTmp, Leftovers
  <1>7. CASE Return(w)
    BY <1>a, <1>7 DEF Return
  <1> QED BY <1>a, <1>1, <1>2, <1>3, <1>4, <1>5, <1>6, <1>7 DEF Serve

\* No step of a worker overcounts the disk's errors, or forgets an incomplete reset.
LEMMA FaultTypeStep ==
  ASSUME Equipped, NEW w \in Worker, Serve(w)
  PROVE  /\ orphans' \in Nat /\ resetsCut' \in Nat
         /\ diskErrors' \in 0..MaxDiskErrors
         /\ resetsCut' = 0 => resetsCut = 0
  <1>1. /\ orphans \in Nat /\ resetsCut \in Nat /\ diskErrors \in 0..MaxDiskErrors
        /\ MaxDiskErrors \in Nat
    BY BoundsAssumption DEF Equipped, TypeOK
  <1>2. diskErrors' = diskErrors \/ DiskError
    BY DEF Serve, LockExclusive, LockShared, Return, LoadLocal, WriteLocal, InstallCheck,
           InstallFetch, InstallExists, InstallStage, InstallPromote, InstallClean,
           InstallPayload, RemoveFind, RemoveDrop, RemoveDisable, RemoveMeta, RemoveManifest,
           RemovePayload, RunNest, Read, RunExec, ResetUnlink, ResetManifests, ResetPayloads,
           ResetTmp
  <1>3. resetsCut' = resetsCut \/ resetsCut' = resetsCut + 1
    BY DEF Serve, LockExclusive, LockShared, Return, LoadLocal, WriteLocal, InstallCheck,
           InstallFetch, InstallExists, InstallStage, InstallPromote, InstallClean,
           InstallPayload, RemoveFind, RemoveDrop, RemoveDisable, RemoveMeta, RemoveManifest,
           RemovePayload, RunNest, Read, RunExec, ResetUnlink, ResetManifests, ResetPayloads,
           ResetTmp
  <1>4. orphans' = orphans \/ orphans' = orphans + 1 \/ orphans' \in 0..orphans \/ orphans' = 0
    BY DEF Serve, LockExclusive, LockShared, Return, LoadLocal, WriteLocal, InstallCheck,
           InstallFetch, InstallExists, InstallStage, InstallPromote, InstallClean,
           InstallPayload, RemoveFind, RemoveDrop, RemoveDisable, RemoveMeta, RemoveManifest,
           RemovePayload, RunNest, Read, RunExec, ResetUnlink, ResetManifests, ResetPayloads,
           ResetTmp
  <1>5. diskErrors' \in 0..MaxDiskErrors
    BY <1>1, <1>2 DEF DiskError
  <1>6. resetsCut' \in Nat /\ (resetsCut' = 0 => resetsCut = 0)
    BY <1>1, <1>3
  <1>7. orphans' \in Nat
    BY <1>1, <1>4
  <1> QED BY <1>5, <1>6, <1>7

\* Every step of a worker keeps the types.
LEMMA TypeOKStep ==
  ASSUME Equipped, NEW w \in Worker, Serve(w)
  PROVE  TypeOK'
  <1> USE DEF TypeOK, Goto, Step, Settle, Fail, PC, Answer
  <1>a. TypeOK /\ Dispatched
    BY DEF Equipped
  <1>b. StoreTypeOK'
    BY LocalTypeStep, ArtifactTypeStep, PayloadTypeStep DEF StoreTypeOK
  <1>c. local \in Catalog
    BY DEF Equipped, TypeOK, StoreTypeOK
  <1>d. orphans' \in Nat /\ resetsCut' \in Nat /\ diskErrors' \in 0..MaxDiskErrors
    BY FaultTypeStep
  <1>1. CASE LockExclusive(w) \/ LockShared(w)
    BY <1>1, FirstSteps, <1>a, <1>b, <1>c, <1>d DEF LockExclusive, LockShared
  <1>2. CASE LoadLocal(w) \/ WriteLocal(w)
    BY <1>2, <1>a, <1>b, <1>c, <1>d DEF LoadLocal, WriteLocal
  <1>3. CASE \/ InstallCheck(w) \/ InstallFetch(w) \/ InstallStage(w)
             \/ InstallPromote(w) \/ InstallClean(w) \/ InstallPayload(w)
    BY <1>3, <1>a, <1>b, <1>c, <1>d, InHandTyping DEF InstallCheck, InstallFetch,
       InstallStage, InstallPromote, InstallClean, InstallPayload,
       InstallSteps, Candidate, Chosen
  <1>8. CASE InstallExists(w)
    <2>1. artifact[RefOf(man[w])].manifest \in Manifest \cup {Absent}
      BY <1>8, <1>a, InHandTyping DEF InstallExists, StoreTypeOK, Artifact
    <2> QED BY <1>8, <1>a, <1>b, <1>c, <1>d, <2>1 DEF InstallExists
  <1>4. CASE \/ RemoveFind(w) \/ RemoveDrop(w) \/ RemoveDisable(w)
             \/ RemoveMeta(w) \/ RemoveManifest(w) \/ RemovePayload(w)
    <2>1. CASE RemoveDisable(w)
      <3>1. req[w].id \in Ids
        BY <2>1, InHandTyping DEF RemoveDisable, RemoveSteps
      <3>2. Merged(local)[req[w].id] # Absent => Disabled(Merged(local)[req[w].id]) \in Manifest
        BY <1>c, <3>1, MergedTyping
      <3> QED BY <2>1, <3>2, <1>a, <1>b, <1>d DEF RemoveDisable
    <2>2. CASE \/ RemoveFind(w) \/ RemoveDrop(w)
               \/ RemoveMeta(w) \/ RemoveManifest(w) \/ RemovePayload(w)
      BY <2>2, <1>a, <1>b, <1>c, <1>d DEF RemoveFind, RemoveDrop, RemoveMeta, RemoveManifest,
         RemovePayload
    <2> QED BY <1>4, <2>1, <2>2
  <1>5. CASE RunNest(w) \/ Read(w) \/ RunExec(w)
    <2>1. CASE Read(w)
      <3>1. req[w].id \in Ids
        BY <2>1, InHandTyping DEF Read
      <3>2. Readable(req[w], Merged(local)[req[w].id]) => Merged(local)[req[w].id] \in Manifest
        BY <1>c, <3>1, MergedTyping DEF Readable, Matches
      <3> QED BY <2>1, <3>2, <1>a, <1>b, <1>d DEF Read
    <2>2. CASE RunNest(w) \/ RunExec(w)
      BY <2>2, <1>a, <1>b, <1>d DEF RunNest, RunExec
    <2> QED BY <1>5, <2>1, <2>2
  <1>6. CASE ResetUnlink(w) \/ ResetManifests(w) \/ ResetPayloads(w) \/ ResetTmp(w)
    BY <1>6, <1>a, <1>b, <1>c, <1>d DEF ResetUnlink, ResetManifests, ResetPayloads, ResetTmp
  <1>7. CASE Return(w)
    BY <1>7, <1>a, <1>b, <1>c, <1>d DEF Return
  <1> QED BY <1>1, <1>2, <1>3, <1>4, <1>5, <1>6, <1>7, <1>8 DEF Serve

\* A worker's own step leaves it with what its next step expects, and the others
\* with what they have.
LEMMA CarriedStep ==
  ASSUME Equipped, NEW w \in Worker, Serve(w)
  PROVE  Carried'
  <1>1. ASSUME NEW v \in Worker, v # w PROVE CarriedOf(v)'
    <2>1. /\ pc'[v] = pc[v] /\ req'[v] = req[v] /\ man'[v] = man[v]
          /\ snap'[v] = snap[v] /\ stage'[v] = stage[v]
      BY <1>1, Frame DEF Equipped
    <2> QED BY <2>1 DEF Equipped, Carried, CarriedOf
  <1>2. CarriedOf(w)'
    <2> USE DEF Equipped, TypeOK, StoreTypeOK, Dispatched, Carried, CarriedOf, Goto, Step,
                Settle, Fail, InstallSteps, RemoveSteps, ResetSteps
    <2>1. CASE LockExclusive(w) \/ LockShared(w)
      BY <2>1, FirstSteps DEF LockExclusive, LockShared
    <2>2. CASE LoadLocal(w) \/ WriteLocal(w)
      BY <2>2 DEF LoadLocal, WriteLocal
    <2>3. CASE InstallCheck(w) \/ InstallFetch(w)
      BY <2>3 DEF InstallCheck, InstallFetch, Chosen
    <2>4. CASE \/ InstallExists(w) \/ InstallStage(w) \/ InstallPromote(w)
               \/ InstallClean(w) \/ InstallPayload(w)
      BY <2>4 DEF InstallExists, InstallStage, InstallPromote, InstallClean, InstallPayload
    <2>5. CASE \/ RemoveFind(w) \/ RemoveDrop(w) \/ RemoveDisable(w)
               \/ RemoveMeta(w) \/ RemoveManifest(w) \/ RemovePayload(w)
      BY <2>5 DEF RemoveFind, RemoveDrop, RemoveDisable, RemoveMeta, RemoveManifest,
                  RemovePayload
    <2>6. CASE RunNest(w) \/ Read(w) \/ RunExec(w)
      BY <2>6 DEF RunNest, Read, RunExec
    <2>7. CASE ResetUnlink(w) \/ ResetManifests(w) \/ ResetPayloads(w) \/ ResetTmp(w)
      BY <2>7 DEF ResetUnlink, ResetManifests, ResetPayloads, ResetTmp
    <2>8. CASE Return(w)
      BY <2>8 DEF Return, NoRequest
    <2> QED BY <2>1, <2>2, <2>3, <2>4, <2>5, <2>6, <2>7, <2>8 DEF Serve
  <1> QED BY <1>1, <1>2 DEF Carried

\* A step of a handler is one for whatever the local catalog holds.
LEMMA EquippedStep ==
  ASSUME Equipped, NEW w \in Worker, Serve(w)
  PROVE  Equipped'
BY TypeOKStep, DispatchedStep, CarriedStep DEF Equipped

\* Taking a request and a crash leave every handler equipped as well.
LEMMA EquippedCall ==
  ASSUME Equipped, NEW w \in Worker, Call(w)
  PROVE  Equipped'
  <1> USE DEF Equipped, Call, Step, Goto
  <1>1. TypeOK'
    BY BoundsAssumption DEF TypeOK, StoreTypeOK, PC
  <1>2. Dispatched'
    <2>1. PICK r \in Requests : req' = [req EXCEPT ![w] = r]
      OBVIOUS
    <2>2. r # NoRequest
      BY RequestsAssumption DEF Request, InstallRequest, RemoveRequest, ReadRequest,
         ResetRequest, NoRequest
    <2>3. req'[w] = r /\ pc'[w] = "lock"
      BY <2>1 DEF TypeOK
    <2>4. \A v \in Worker \ {w} : req'[v] = req[v] /\ pc'[v] = pc[v]
      BY <2>1 DEF TypeOK
    <2> QED BY <2>2, <2>3, <2>4 DEF Dispatched, InstallSteps, RemoveSteps, ResetSteps
  <1>3. Carried'
    BY DEF Carried, CarriedOf, TypeOK
  <1> QED BY <1>1, <1>2, <1>3

LEMMA EquippedCrash ==
  ASSUME Equipped, Crash
  PROVE  Equipped'
  <1> DEFINE Cut == {w \in Worker : pc[w] = "rmmanifests"}
             Staging == {w \in Worker : stage[w] # Absent}
  <1>1. Cardinality(Cut) \in Nat /\ Cardinality(Staging) \in Nat
    BY WorkerAssumption, FS_Subset, FS_CardinalityType
  <1>2. orphans' = orphans + Cardinality(Staging) /\ resetsCut' = resetsCut + Cardinality(Cut)
    BY DEF Crash
  <1>3. TypeOK'
    <2>1. orphans' \in Nat /\ resetsCut' \in Nat
      BY <1>1, <1>2 DEF Equipped, TypeOK
    <2>2. crashes' \in 0..MaxCrashes
      BY BoundsAssumption DEF Crash, Equipped, TypeOK
    <2> QED BY <2>1, <2>2 DEF Crash, Equipped, TypeOK, StoreTypeOK, PC, Answer
  <1>4. Dispatched' /\ Carried'
    BY DEF Crash, Dispatched, Carried, CarriedOf, InstallSteps, RemoveSteps, ResetSteps,
           NoRequest
  <1> QED BY <1>3, <1>4 DEF Equipped

\* A worker in the middle of a writing handler sees no one else's steps.
LEMMA WriterAlone ==
  ASSUME Inv, NEW w \in Worker, Serve(w), NEW v \in Worker, v # w,
         pc[v] \notin {"idle", "lock"}, Writes(req[v])
  PROVE  UNCHANGED storeVars
BY WritersHoldLock DEF Inv, Dispatched, LockExclusion

\* A step of one worker changes nothing another has in hand.
LEMMA InHandOthers ==
  ASSUME Inv, NEW w \in Worker, Serve(w), NEW v \in Worker, v # w
  PROVE  InHandOf(v)'
  <1>1. /\ pc'[v] = pc[v] /\ req'[v] = req[v] /\ man'[v] = man[v] /\ stage'[v] = stage[v]
    BY Frame DEF Inv
  <1>2. InHandOf(v)
    BY DEF Inv, InHand
  <1>3. CASE pc[v] \notin {"idle", "lock"} /\ Writes(req[v])
    BY <1>1, <1>2, <1>3, WriterAlone DEF InHandOf, Merged
  <1>4. CASE ~(pc[v] \notin {"idle", "lock"} /\ Writes(req[v]))
    BY <1>1, <1>2, <1>4 DEF InHandOf, Inv, Dispatched, Writes, InstallSteps, RemoveSteps,
                            ResetSteps, NoRequest
  <1> QED BY <1>3, <1>4


\* A worker's own step leaves it with what its next step expects.
LEMMA InHandSelf ==
  ASSUME Inv, NEW w \in Worker, Serve(w)
  PROVE  InHandOf(w)'
  <1> USE DEF Inv, TypeOK, Dispatched, InHand, InHandOf, Goto, Step, Settle, Fail,
              InstallSteps, RemoveSteps, ResetSteps
  <1>1. CASE LockExclusive(w) \/ LockShared(w)
    BY <1>1, FirstSteps, EquippedByInv DEF LockExclusive, LockShared
  <1>2. CASE LoadLocal(w)
    BY <1>2 DEF LoadLocal
  <1>3. CASE WriteLocal(w)
    BY <1>3 DEF WriteLocal, WriteIsFresh, Put, Drop
  <1>4. CASE InstallCheck(w)
    BY <1>4 DEF InstallCheck, Chosen
  <1>5. CASE InstallFetch(w)
    BY <1>5 DEF InstallFetch, Chosen
  <1>6. CASE InstallExists(w)
    BY <1>6 DEF InstallExists
  <1>7. CASE InstallStage(w)
    BY <1>7 DEF InstallStage
  <1>8. CASE InstallPromote(w)
    BY <1>8 DEF InstallPromote
  <1>9. CASE InstallClean(w)
    BY <1>9 DEF InstallClean, SettledOnce
  <1>10. CASE InstallPayload(w)
    BY <1>10 DEF InstallPayload
  <1>11. CASE RemoveFind(w)
    BY <1>11 DEF RemoveFind
  <1>12. CASE RemoveDrop(w)
    <2>1. /\ pc[w] = "drop" /\ req[w].op = "remove" /\ req[w].id \in Ids
          /\ man[w] = Absent /\ Merged(local)[req[w].id] # Absent
      BY <1>12, InHandTyping, EquippedByInv DEF RemoveDrop
    <2>2. local[req[w].id] = Absent => Base[req[w].id] # Absent
      BY <2>1 DEF Merged
    <2>3. CASE local[req[w].id] # Absent /\ pc' = [pc EXCEPT ![w] = "write"]
      BY <1>12, <2>1, <2>3 DEF RemoveDrop
    <2>4. CASE local[req[w].id] = Absent /\ pc' = [pc EXCEPT ![w] = "disable"]
      BY <1>12, <2>1, <2>2, <2>4 DEF RemoveDrop
    <2> QED BY <1>12, <2>3, <2>4 DEF RemoveDrop
  <1>13. CASE RemoveDisable(w)
    <2>1. pc[w] = "disable" /\ req[w].id \in Ids
      BY <1>13, InHandTyping, EquippedByInv DEF RemoveDisable
    <2>2. Merged(local)[req[w].id] = Base[req[w].id]
      BY <2>1 DEF Merged
    <2> QED BY <1>13, <2>1, <2>2 DEF RemoveDisable
  <1>14. CASE RemoveMeta(w)
    BY <1>14 DEF RemoveMeta
  <1>15. CASE RemoveManifest(w)
    BY <1>15 DEF RemoveManifest
  <1>16. CASE RemovePayload(w)
    BY <1>16 DEF RemovePayload
  <1>17. CASE RunNest(w)
    BY <1>17 DEF RunNest
  <1>18. CASE Read(w)
    BY <1>18 DEF Read, Writes
  <1>19. CASE RunExec(w)
    BY <1>19 DEF RunExec
  <1>20. CASE ResetUnlink(w)
    BY <1>20 DEF ResetUnlink
  <1>21. CASE ResetManifests(w)
    BY <1>21 DEF ResetManifests
  <1>22. CASE ResetPayloads(w)
    BY <1>22 DEF ResetPayloads
  <1>23. CASE ResetTmp(w)
    BY <1>23 DEF ResetTmp
  <1>24. CASE Return(w)
    BY <1>24 DEF Return, NoRequest
  <1> QED BY <1>1, <1>2, <1>3, <1>4, <1>5, <1>6, <1>7, <1>8, <1>9, <1>10, <1>11, <1>12, <1>13,
             <1>14, <1>15, <1>16, <1>17, <1>18, <1>19, <1>20, <1>21, <1>22, <1>23,
             <1>24 DEF Serve

\* What handlers have in hand survives every step.
LEMMA InHandStep ==
  ASSUME Inv, NEW w \in Worker, Serve(w)
  PROVE  InHand'
BY InHandOthers, InHandSelf DEF InHand

\* Only a reset at work leaves a meta file without its manifest (store.py, installer.py).
LEMMA NoDebrisStep ==
  ASSUME Inv, NEW w \in Worker, Serve(w), resetsCut = 0, resetsCut' = 0
  PROVE  NoDebris'
  <1>1. NoDebris /\ WholeFor(w) /\ artifact \in [Ref -> Artifact] /\ TypeOK
    BY DEF Inv, DirectoriesWhole, TypeOK, StoreTypeOK
  <1> SUFFICES ASSUME NEW q \in Ref, artifact'[q].meta, artifact'[q].manifest = Absent
               PROVE  \E v \in Worker : pc'[v] = "rmmanifests"
    BY DEF NoDebris, Listed
  <1>2. CASE InstallPromote(w)
    <2>1. pc[w] = "promote" /\ stage[w] \in Manifest /\ RefOf(man[w]) \in Ref
      BY <1>2, InHandTyping, EquippedByInv DEF InstallPromote, Step, InHand, InHandOf, Inv
    <2>2. artifact[q].meta /\ artifact[q].manifest = Absent
      <3>1. artifact' = Promoted(artifact, RefOf(man[w]), stage[w]) \/ artifact' = artifact
        BY <1>2 DEF InstallPromote
      <3> QED BY <1>1, <2>1, <3>1, AbsentAssumption DEF Promoted
    <2>3. PICK v \in Worker : pc[v] = "rmmanifests"
      BY <1>1, <2>2 DEF NoDebris, Listed
    <2> QED BY <2>1, <1>1, <2>3, Frame
  <1>3. CASE RemoveMeta(w)
    <2>1. pc[w] = "unmeta" /\ <<req[w].id, req[w].version>> \in Ref
      BY <1>1, <1>3, UnlinkEffects, InHandTyping, EquippedByInv DEF RemoveSteps
    <2>2. artifact[q].meta /\ artifact[q].manifest = Absent
      <3>1. artifact' = NoMeta(artifact, <<req[w].id, req[w].version>>) \/ artifact' = artifact
        BY <1>1, <1>3, UnlinkEffects
      <3> QED BY <1>1, <2>1, <3>1 DEF NoMeta
    <2>3. PICK v \in Worker : pc[v] = "rmmanifests"
      BY <1>1, <2>2 DEF NoDebris, Listed
    <2> QED BY <2>1, <1>1, <2>3, Frame
  <1>4. CASE RemoveManifest(w)
    <2>1. pc[w] = "unmanifest" /\ <<req[w].id, req[w].version>> \in Ref
      BY <1>1, <1>4, UnlinkEffects, InHandTyping, EquippedByInv DEF RemoveSteps
    <2>2. artifact[q].meta /\ artifact[q].manifest = Absent
      <3>1. artifact' = NoManifest(artifact, <<req[w].id, req[w].version>>) \/ artifact' = artifact
        BY <1>1, <1>4, UnlinkEffects
      <3>2. ~artifact[<<req[w].id, req[w].version>>].meta
        BY <1>1, <2>1 DEF WholeFor
      <3> QED BY <1>1, <2>1, <3>1, <3>2 DEF NoManifest
    <2>3. PICK v \in Worker : pc[v] = "rmmanifests"
      BY <1>1, <2>2 DEF NoDebris, Listed
    <2> QED BY <2>1, <1>1, <2>3, Frame
  <1>5. CASE ResetManifests(w)
    <2>1. CASE pc' = pc
      BY <1>5, <2>1, ResetEffect
    <2>2. CASE \A r \in Ref : ~Occupied(r)
      BY <1>5, <2>2 DEF ResetManifests, Occupied, Listed
    <2> QED BY <1>5, <2>1, <2>2, ResetEffect
  <1>6. CASE UNCHANGED artifact
    <2>1. PICK v \in Worker : pc[v] = "rmmanifests"
      BY <1>1, <1>6 DEF NoDebris, Listed
    <2>2. CASE v # w
      BY <2>1, <2>2, <1>1, Frame
    <2>3. CASE v = w
      BY <2>1, <2>3, <1>5
         DEF Serve, LockExclusive, LockShared, Return, LoadLocal, WriteLocal, InstallCheck,
             InstallFetch, InstallExists, InstallStage, InstallPromote, InstallClean,
             InstallPayload, RemoveFind, RemoveDrop, RemoveDisable, RemoveMeta, RemoveManifest,
             RemovePayload, RunNest, Read, RunExec, ResetUnlink, ResetPayloads, ResetTmp, Step
    <2> QED BY <2>2, <2>3
  <1> QED BY <1>2, <1>3, <1>4, <1>5, <1>6, ArtifactChanges

\* Only these steps touch the local catalog.
LEMMA LocalChanges ==
  ASSUME NEW w \in Worker, Serve(w)
  PROVE  WriteLocal(w) \/ ResetUnlink(w) \/ UNCHANGED local
BY DEF Serve, LockExclusive, LockShared, Return, LoadLocal, InstallCheck, InstallFetch,
       InstallExists, InstallStage, InstallPromote, InstallClean, InstallPayload,
       RemoveFind, RemoveDrop, RemoveDisable, RemoveMeta, RemoveManifest, RemovePayload,
       RunNest, Read, RunExec, ResetManifests, ResetPayloads, ResetTmp

\* What _write_local_catalog puts in the file for an install and for a removal.
LEMMA WriteLocalEffect ==
  ASSUME Inv, NEW w \in Worker, WriteLocal(w)
  PROVE  /\ pc[w] = "write" /\ UNCHANGED artifact
         /\ \/ UNCHANGED local /\ pc'[w] = "unlock"
            \/ req[w].op = "install" /\ man[w] \in Manifest /\ local' = Put(local, man[w])
            \/ /\ req[w].op = "remove" /\ req[w].id \in Ids
               /\ man[w] = Absent /\ local[req[w].id] # Absent
               /\ local' = Drop(local, req[w].id)
            \/ /\ req[w].op = "remove" /\ req[w].id \in Ids
               /\ local[req[w].id] = Absent /\ Base[req[w].id] # Absent
               /\ man[w] = Disabled(Base[req[w].id]) /\ man[w] \in Manifest
               /\ local' = Put(local, man[w])
  <1>1. pc[w] = "write" /\ snap[w] = local /\ UNCHANGED artifact
    BY DEF WriteLocal, Inv, WriteIsFresh
  <1>2. /\ req[w].op \in {"install", "remove"}
        /\ req[w].op = "install" => man[w] \in Manifest
        /\ req[w].op = "remove" => req[w].id \in Ids
        /\ man[w] \in Manifest \cup {Absent}
    BY <1>1, InHandTyping, EquippedByInv DEF Inv, Dispatched, TypeOK
  <1>3. req[w].op = "remove" =>
           \/ man[w] = Absent /\ local[req[w].id] # Absent
           \/ /\ man[w] = Disabled(Base[req[w].id])
              /\ local[req[w].id] = Absent /\ Base[req[w].id] # Absent
    BY <1>1 DEF Inv, InHand, InHandOf
  <1>4. req[w].op = "remove" /\ man[w] # Absent => man[w] = Disabled(Base[req[w].id])
    BY <1>3
  <1>5. \/ UNCHANGED local /\ pc'[w] = "unlock"
        \/ local' = IF man[w] # Absent THEN Put(local, man[w]) ELSE Drop(local, req[w].id)
    BY <1>1 DEF WriteLocal, Fail, Goto, Inv, TypeOK
  <1>6. CASE req[w].op = "install"
    BY <1>1, <1>2, <1>5, <1>6, AbsentAssumption
  <1>7. CASE req[w].op = "remove" /\ man[w] = Absent
    BY <1>1, <1>2, <1>3, <1>5, <1>7, BaseAssumption, AbsentAssumption DEF Catalog, Disabled,
       Manifest
  <1>8. CASE req[w].op = "remove" /\ man[w] # Absent
    BY <1>1, <1>2, <1>3, <1>5, <1>8
  <1> QED BY <1>2, <1>6, <1>7, <1>8

\* A disabled copy of a shipped manifest is an override of it (store.py, set_local_enabled).
LEMMA BaseOverride ==
  ASSUME NEW i \in Ids, Base[i] # Absent
  PROVE  /\ Disabled(Base[i]) \in Manifest /\ Disabled(Base[i]).id = i
         /\ IsOverride(Disabled(Base[i]))
BY BaseAssumption DEF Catalog, Disabled, Manifest, IsOverride

\* Every step keeps the local entries backed by an override or an installed manifest.
LEMMA CatalogBackedStep ==
  ASSUME Inv, NEW w \in Worker, Serve(w), resetsCut = 0, NEW i \in Ids, local'[i] # Absent
  PROVE  IsOverride(local'[i]) \/ artifact'[RefOf(local'[i])].manifest # Absent
  <1>1. /\ local \in Catalog /\ artifact \in [Ref -> Artifact]
        /\ local[i] # Absent => IsOverride(local[i]) \/ Listed(RefOf(local[i]))
        /\ WholeFor(w)
    BY DEF Inv, TypeOK, StoreTypeOK, CatalogBacked, DirectoriesWhole
  <1>2. CASE WriteLocal(w)
    <2>1. pc[w] = "write" /\ UNCHANGED artifact
      BY <1>2, WriteLocalEffect
    <2>2. CASE UNCHANGED local
      BY <1>1, <2>1, <2>2 DEF Listed, RefOf
    <2>3. CASE req[w].op = "install" /\ man[w] \in Manifest /\ local' = Put(local, man[w])
      <3>1. answer[w] # "error"
        BY <2>1 DEF Inv, SettledOnce, Unsettled
      <3>2. Listed(RefOf(man[w]))
        BY <1>1, <2>1, <2>3, <3>1, LeftIsListed DEF WholeFor, Inv
      <3>3. local'[i] = man[w] \/ local'[i] = local[i]
        BY <1>1, <2>3 DEF Put, Catalog
      <3> QED BY <1>1, <2>1, <3>2, <3>3 DEF Listed, RefOf
    <2>4. CASE req[w].id \in Ids /\ local' = Drop(local, req[w].id)
      <3>1. local'[i] = local[i]
        BY <1>1, <2>4 DEF Drop, Catalog
      <3> QED BY <1>1, <2>1, <3>1 DEF Listed, RefOf
    <2>5. CASE /\ req[w].id \in Ids /\ Base[req[w].id] # Absent
               /\ man[w] = Disabled(Base[req[w].id]) /\ local' = Put(local, man[w])
      <3>1. local'[i] = man[w] \/ local'[i] = local[i]
        BY <1>1, <2>5 DEF Put, Catalog
      <3>2. IsOverride(man[w])
        BY <2>5, BaseOverride
      <3> QED BY <1>1, <2>1, <3>1, <3>2 DEF Listed, RefOf
    <2> QED BY <1>2, <2>2, <2>3, <2>4, <2>5, WriteLocalEffect
  <1>3. CASE ResetUnlink(w)
    <2>1. UNCHANGED artifact /\ (local' = EmptyCatalog \/ local' = local)
      BY <1>3 DEF ResetUnlink
    <2> QED BY <1>1, <2>1 DEF EmptyCatalog, Listed, RefOf
  <1>4. CASE InstallPromote(w)
    <2>1. pc[w] = "promote" /\ stage[w] \in Manifest /\ RefOf(man[w]) \in Ref /\ local' = local
      BY <1>4, InHandTyping, EquippedByInv DEF InstallPromote, Step, InHand, InHandOf, Inv
    <2>2. artifact' = Promoted(artifact, RefOf(man[w]), stage[w]) \/ artifact' = artifact
      BY <1>4 DEF InstallPromote
    <2>3. \A r \in Ref : Listed(r) => artifact'[r].manifest # Absent
      BY <1>1, <2>1, <2>2, AbsentAssumption DEF Promoted, Listed
    <2>4. RefOf(local[i]) \in Ref
      BY <1>1, <2>1, RefTyping DEF Catalog
    <2> QED BY <1>1, <2>1, <2>3, <2>4 DEF Listed
  <1>5. CASE RemoveMeta(w)
    <2>1. /\ artifact' = NoMeta(artifact, <<req[w].id, req[w].version>>) \/ artifact' = artifact
          /\ local' = local
      BY <1>5, UnlinkEffects DEF Inv
    <2>2. RefOf(local[i]) \in Ref
      BY <1>1, <2>1, RefTyping DEF Catalog
    <2>3. artifact'[RefOf(local[i])].manifest = artifact[RefOf(local[i])].manifest
      BY <1>1, <2>1, <2>2 DEF NoMeta
    <2> QED BY <1>1, <2>1, <2>3 DEF Listed
  <1>6. CASE RemoveManifest(w)
    <2>1. /\ pc[w] = "unmanifest" /\ local' = local
          /\ artifact' = NoManifest(artifact, <<req[w].id, req[w].version>>) \/ artifact' = artifact
      BY <1>6, UnlinkEffects DEF Inv
    <2>2. RefOf(local[i]) \in Ref /\ local[i].id = i
      BY <1>1, <2>1, RefTyping DEF Catalog
    <2>3. CASE i = req[w].id
      BY <1>1, <2>1, <2>3 DEF WholeFor, Removing
    <2>4. CASE i # req[w].id
      <3>1. RefOf(local[i]) # <<req[w].id, req[w].version>>
        BY <2>2, <2>4 DEF RefOf
      <3>2. artifact'[RefOf(local[i])] = artifact[RefOf(local[i])]
        BY <1>1, <2>1, <2>2, <3>1 DEF NoManifest
      <3> QED BY <1>1, <2>1, <3>2 DEF Listed
    <2> QED BY <2>3, <2>4
  <1>7. CASE ResetManifests(w)
    BY <1>7 DEF ResetManifests, Inv, InHand, InHandOf, EmptyCatalog
  <1>8. CASE UNCHANGED artifact /\ UNCHANGED local
    BY <1>1, <1>8 DEF Listed, RefOf
  <1> QED BY <1>2, <1>3, <1>4, <1>5, <1>6, <1>7, <1>8, ArtifactChanges, LocalChanges

\* A step of one worker takes no install directory from another at work on it.
LEMMA WholeForOthers ==
  ASSUME Inv, NEW w \in Worker, Serve(w), resetsCut = 0, NEW v \in Worker, v # w
  PROVE  WholeFor(v)'
  <1>1. /\ pc'[v] = pc[v] /\ req'[v] = req[v] /\ man'[v] = man[v] /\ answer'[v] = answer[v]
    BY Frame DEF Inv
  <1>a. found'[v] = found[v]
    BY Frame DEF Inv
  <1>2. WholeFor(v)
    BY DEF Inv, DirectoriesWhole
  <1>3. CASE pc[v] \notin {"idle", "lock"} /\ Writes(req[v])
    BY <1>1, <1>a, <1>2, <1>3, WriterAlone DEF WholeFor, Removing, Left, Listed, RefOf,
       IsOverride
  <1>4. CASE ~(pc[v] \notin {"idle", "lock"} /\ Writes(req[v]))
    BY <1>1, <1>a, <1>2, <1>4 DEF WholeFor, Removing, Inv, Dispatched, Writes, RemoveSteps,
       InstallSteps, NoRequest
  <1> QED BY <1>3, <1>4

\* install_manifest_atomic leaves the manifest in place when it does not raise.
LEMMA PromoteSelf ==
  ASSUME Inv, NEW w \in Worker, InstallPromote(w), resetsCut = 0
  PROVE  WholeFor(w)'
  <1>1. /\ artifact \in [Ref -> Artifact] /\ pc[w] = "promote" /\ pc'[w] = "clean"
        /\ req'[w] = req[w] /\ man'[w] = man[w] /\ found'[w] = found[w]
    BY DEF Inv, TypeOK, StoreTypeOK, InstallPromote, Step, Goto
  <1>2. stage[w] \in Manifest /\ RefOf(man[w]) \in Ref
    BY <1>1, InHandTyping, EquippedByInv DEF Inv, InHand, InHandOf
  <1>3. \A v \in Worker : pc[v] # "rmmanifests"
    <2>1. w \in exclusive
      BY <1>1 DEF Inv, Dispatched, InstallSteps, Writes
    <2> QED BY <1>1, <2>1 DEF Inv, Dispatched, LockExclusion, ResetSteps, Writes
  <1>4. ~Occupied(RefOf(man[w])) /\ found[w] = Absent /\ stage[w] = man[w]
    BY <1>1, <1>2, <1>3 DEF Occupied, Inv, DirectoriesWhole, NoDebris, WholeFor, InHand, InHandOf
  <1>5. CASE artifact' = Promoted(artifact, RefOf(man[w]), stage[w])
    <2>1. artifact'[RefOf(man[w])].manifest = man[w]
      BY <1>1, <1>2, <1>4, <1>5 DEF Promoted
    <2>2. Left(w)'
      BY <1>1, <1>4, <2>1 DEF Left, RefOf
    <2> QED BY <1>1, <1>4, <2>2 DEF WholeFor, Removing
  <1>6. CASE Settle(w, "error")
    BY <1>1, <1>4, <1>6 DEF WholeFor, Removing, Settle, Inv, TypeOK
  <1> QED BY <1>4, <1>5, <1>6 DEF InstallPromote

\* The catalog write of an install keeps its manifest, that of a removal frees the directory.
LEMMA WriteLocalSelf ==
  ASSUME Inv, NEW w \in Worker, WriteLocal(w), resetsCut = 0
  PROVE  WholeFor(w)'
  <1>1. /\ pc[w] = "write" /\ UNCHANGED artifact /\ local \in Catalog
        /\ req' = req /\ man' = man /\ found' = found
    BY WriteLocalEffect DEF Inv, TypeOK, StoreTypeOK, WriteLocal
  <1>2. CASE req[w].op = "install"
    <2>1. answer[w] # "error"
      BY <1>1 DEF Inv, SettledOnce, Unsettled
    <2>2. Left(w)
      BY <1>1, <1>2, <2>1 DEF WholeFor, Inv, DirectoriesWhole
    <2>3. pc'[w] \in {"payload", "unlock"}
      BY <1>2 DEF WriteLocal, Goto, Fail, Inv, TypeOK
    <2> QED BY <1>1, <1>2, <2>2, <2>3 DEF WholeFor, Removing, Left, RefOf
  <1>3. CASE req[w].op = "remove"
    <2>1. pc'[w] \in {"unmeta", "unlock"}
      BY <1>3 DEF WriteLocal, Goto, Fail, Inv, TypeOK
    <2>2. pc'[w] = "unmeta" => local'[req[w].id] = Absent \/ IsOverride(local'[req[w].id])
      <3>1. CASE UNCHANGED local /\ pc'[w] = "unlock"
        BY <3>1
      <3>2. CASE req[w].id \in Ids /\ local' = Drop(local, req[w].id)
        BY <1>1, <3>2 DEF Drop, Catalog
      <3>3. CASE /\ req[w].id \in Ids /\ Base[req[w].id] # Absent
                 /\ man[w] = Disabled(Base[req[w].id]) /\ local' = Put(local, man[w])
        <4>1. man[w].id = req[w].id /\ IsOverride(man[w])
          BY <3>3, BaseOverride
        <4> QED BY <1>1, <3>3, <4>1 DEF Put, Catalog
      <3> QED BY <1>3, <3>1, <3>2, <3>3, WriteLocalEffect
    <2>3. found[w] = Absent
      BY <1>3 DEF Inv, DirectoriesWhole, WholeFor
    <2> QED BY <1>1, <1>3, <2>1, <2>2, <2>3 DEF WholeFor, Removing, IsOverride
  <1> QED BY <1>1, <1>2, <1>3 DEF Inv, Dispatched

\* CapabilityStore.remove takes the meta file first and then the manifest.
LEMMA RemoveFilesSelf ==
  ASSUME Inv, NEW w \in Worker, resetsCut = 0,
         RemoveMeta(w) \/ RemoveManifest(w) \/ RemovePayload(w)
  PROVE  WholeFor(w)'
  <1>1. /\ WholeFor(w) /\ Removing(w) /\ artifact \in [Ref -> Artifact]
        /\ UNCHANGED <<local, req, found>>
    BY DEF Inv, TypeOK, StoreTypeOK, DirectoriesWhole, RemoveMeta, RemoveManifest,
           RemovePayload, Step, Removing
  <1>2. req[w].op = "remove" /\ <<req[w].id, req[w].version>> \in Ref
    BY <1>1, InHandTyping, EquippedByInv DEF Inv, Dispatched, Removing, RemoveSteps
  <1>3. pc'[w] = "unmanifest" => ~artifact'[<<req[w].id, req[w].version>>].meta
    <2>1. CASE RemoveMeta(w)
      <3>1. \/ artifact' = NoMeta(artifact, <<req[w].id, req[w].version>>)
            \/ pc'[w] = "unlock"
        BY <2>1, UnlinkEffects DEF Inv
      <3> QED BY <1>1, <1>2, <3>1 DEF NoMeta
    <2>2. CASE RemoveManifest(w)
      BY <2>2, UnlinkEffects DEF Inv
    <2>3. CASE RemovePayload(w)
      BY <2>3 DEF RemovePayload, Step, Goto, Inv, TypeOK
    <2> QED BY <2>1, <2>2, <2>3
  <1>4. pc'[w] \in {"unmanifest", "unpayload", "unlock"}
    BY UnlinkEffects DEF RemoveMeta, RemoveManifest, RemovePayload, Step, Goto, Inv, TypeOK
  <1> QED BY <1>1, <1>2, <1>3, <1>4 DEF WholeFor, Removing, IsOverride

\* install_manifest_atomic goes on with the manifest it found, or with none.
LEMMA ExistsSelf ==
  ASSUME Inv, NEW w \in Worker, InstallExists(w), resetsCut = 0
  PROVE  WholeFor(w)'
  <1>1. /\ pc[w] = "exists" /\ req[w].op = "install" /\ found[w] = Absent
        /\ UNCHANGED <<artifact, req, man>>
    BY DEF InstallExists, Inv, Dispatched, InstallSteps, DirectoriesWhole, WholeFor
  <1>2. CASE /\ pc'[w] = "load" /\ Listed(RefOf(man[w]))
             /\ found'[w] = artifact[RefOf(man[w])].manifest
    <2>1. Left(w)'
      BY <1>1, <1>2 DEF Left, Listed, RefOf
    <2> QED BY <1>1, <1>2, <2>1 DEF WholeFor, Removing
  <1>3. CASE pc'[w] = "stage" /\ ~Listed(RefOf(man[w])) /\ found' = found
    BY <1>1, <1>3 DEF WholeFor, Removing, Listed, RefOf
  <1> QED BY <1>1, <1>2, <1>3 DEF InstallExists, Goto, Inv, TypeOK

\* The sweep of the staging directory touches nothing else.
LEMMA CleanSelf ==
  ASSUME Inv, NEW w \in Worker, InstallClean(w), resetsCut = 0
  PROVE  WholeFor(w)'
  <1>1. /\ pc[w] = "clean" /\ req[w].op = "install" /\ WholeFor(w)
        /\ pc'[w] = IF answer[w] = "error" THEN "unlock" ELSE "load"
        /\ UNCHANGED <<artifact, local, req, man, found, answer>>
    BY DEF InstallClean, Step, Goto, Inv, TypeOK, Dispatched, InstallSteps, DirectoriesWhole
  <1>2. found[w] = Absent /\ (answer[w] # "error" => Left(w))
    BY <1>1 DEF WholeFor
  <1> QED BY <1>1, <1>2 DEF WholeFor, Removing, Left, RefOf

\* A worker's own step leaves the directories it relies on whole.
LEMMA WholeForSelf ==
  ASSUME Inv, NEW w \in Worker, Serve(w), resetsCut = 0
  PROVE  WholeFor(w)'
  <1>1. WholeFor(w) /\ TypeOK
    BY DEF Inv, DirectoriesWhole
  <1> USE <1>1 DEF WholeFor, Removing, Left, Listed, RefOf, TypeOK, Step, Goto, Fail, Settle
  <1>2. CASE LockExclusive(w) \/ LockShared(w)
    BY <1>2, FirstSteps, EquippedByInv DEF LockExclusive, LockShared
  <1>3. CASE InstallExists(w)
    BY <1>3, ExistsSelf
  <1>4. CASE InstallClean(w)
    BY <1>4, CleanSelf
  <1>5. CASE LoadLocal(w)
    BY <1>5 DEF LoadLocal
  <1>6. CASE InstallPayload(w)
    BY <1>6 DEF InstallPayload
  <1>7. CASE InstallStage(w)
    BY <1>7 DEF InstallStage
  <1>8. CASE InstallCheck(w) \/ InstallFetch(w)
    BY <1>8 DEF InstallCheck, InstallFetch
  <1>9. CASE RemoveFind(w) \/ RemoveDrop(w) \/ RemoveDisable(w)
    BY <1>9 DEF RemoveFind, RemoveDrop, RemoveDisable, Inv, Dispatched, RemoveSteps
  <1>10. CASE RunNest(w) \/ Read(w) \/ RunExec(w) \/ Return(w)
    BY <1>10 DEF RunNest, Read, RunExec, Return
  <1>11. CASE ResetUnlink(w) \/ ResetManifests(w) \/ ResetPayloads(w) \/ ResetTmp(w)
    BY <1>11 DEF ResetUnlink, ResetManifests, ResetPayloads, ResetTmp
  <1> QED BY <1>2, <1>3, <1>4, <1>5, <1>6, <1>7, <1>8, <1>9, <1>10, <1>11,
             PromoteSelf, WriteLocalSelf, RemoveFilesSelf DEF Serve

\* Every step of a handler preserves the invariant.
LEMMA ServeStep ==
  ASSUME Inv, NEW w \in Worker, Serve(w)
  PROVE  Inv'
  <1>1. resetsCut' = 0 => resetsCut = 0
    BY FaultTypeStep, EquippedByInv
  <1>2. DirectoriesWhole'
    BY <1>1, NoDebrisStep, WholeForOthers, WholeForSelf DEF DirectoriesWhole
  <1>3. CatalogBacked'
    BY <1>1, CatalogBackedStep DEF CatalogBacked, Listed
  <1> QED BY <1>2, <1>3, TypeOKStep, EquippedByInv, LockExclusionStep, DispatchedStep,
             SettledOnceStep, WriteIsFreshStep, InHandStep, RunIsStableStep DEF Inv

\* Taking a request preserves the invariant.
LEMMA CallStep ==
  ASSUME Inv, NEW w \in Worker, Call(w)
  PROVE  Inv'
  <1> USE DEF Inv, Call, Step, Goto
  <1>1. TypeOK' /\ Dispatched'
    BY EquippedByInv, EquippedCall DEF Equipped
  <1>2. LockExclusion' /\ WriteIsFresh' /\ RunIsStable'
    BY DEF LockExclusion, WriteIsFresh, RunIsStable, TypeOK
  <1>3. SettledOnce' /\ InHand'
    BY DEF SettledOnce, Unsettled, InHand, InHandOf, TypeOK
  <1>4. DirectoriesWhole' /\ CatalogBacked'
    BY DEF DirectoriesWhole, NoDebris, WholeFor, Removing, Left, CatalogBacked, Listed, TypeOK
  <1> QED BY <1>1, <1>2, <1>3, <1>4

\* A crash and restart of the process preserves the invariant: what is on disk at
\* any step is a state a fresh process can go on from.
LEMMA CrashStep ==
  ASSUME Inv, Crash
  PROVE  Inv'
  <1> DEFINE Cut == {w \in Worker : pc[w] = "rmmanifests"}
  <1>1. /\ IsFiniteSet(Cut) /\ Cardinality(Cut) \in Nat
        /\ Cardinality(Cut) = 0 => Cut = {}
    BY WorkerAssumption, FS_Subset, FS_CardinalityType, FS_EmptySet
  <1>2. resetsCut' = resetsCut + Cardinality(Cut)
    BY DEF Crash
  <1>3. resetsCut' = 0 => resetsCut = 0 /\ \A w \in Worker : pc[w] # "rmmanifests"
    BY <1>1, <1>2 DEF Inv, TypeOK
  <1>4. TypeOK' /\ Dispatched'
    BY EquippedByInv, EquippedCrash DEF Equipped
  <1>5. LockExclusion' /\ WriteIsFresh' /\ RunIsStable'
    BY DEF Crash, LockExclusion, WriteIsFresh, RunIsStable
  <1>6. SettledOnce' /\ InHand'
    BY DEF Crash, SettledOnce, Unsettled, InHand, InHandOf, NoRequest
  <1>7. DirectoriesWhole' /\ CatalogBacked'
    BY <1>3 DEF Crash, Inv, DirectoriesWhole, NoDebris, WholeFor, Removing, CatalogBacked,
                Listed
  <1> QED BY <1>4, <1>5, <1>6, <1>7 DEF Inv

\* The invariant is inductive.
LEMMA NextInv == Inv /\ [Next]_vars => Inv'
  <1> SUFFICES ASSUME Inv, [Next]_vars PROVE Inv'
    OBVIOUS
  <1>1. CASE Next
    BY <1>1, CrashStep, CallStep, ServeStep DEF Next
  <1>2. CASE UNCHANGED vars
    BY <1>2 DEF Inv, TypeOK, StoreTypeOK, LockExclusion, Dispatched, SettledOnce, WriteIsFresh,
                InHand, InHandOf, RunIsStable, DirectoriesWhole, NoDebris, WholeFor, Removing,
                Left, CatalogBacked, Listed
  <1> QED BY <1>1, <1>2

\* Every behaviour of the service, crashes of the process included, stays within
\* the inductive invariant (server.py, resolver.py, store.py, installer.py).
THEOREM Invariance == Spec => []Inv
  <1> QED BY InitInv, NextInv, PTL DEF Spec

\* Every variable of the service keeps its type: the catalog file stays filed by
\* identifier and no install directory holds anything but the two files.
THEOREM TypeCorrect == Spec => []TypeOK
  <1>1. Inv => TypeOK
    BY DEF Inv
  <1> QED BY <1>1, Invariance, PTL

\* However many threads the pool has, one that holds LOCK_EX on store.lock is
\* alone with the store, nested readers included (locks.py).
THEOREM LockExcludes == Spec => []LockExclusion
  <1>1. Inv => LockExclusion
    BY DEF Inv
  <1> QED BY <1>1, Invariance, PTL

\* No handler writes the local catalog from a snapshot another handler's update
\* has passed by, so no update is lost (store.py, upsert_local, delete_local).
THEOREM NoUpdateLost == Spec => []WriteIsFresh
  <1>1. Inv => WriteIsFresh
    BY DEF Inv
  <1> QED BY <1>1, Invariance, PTL

\* While a capability executes its catalog entry is the one that was read and
\* that policy allowed (resolver.py, run).
THEOREM RunsAreStable == Spec => []RunIsStable
  <1>1. Inv => RunIsStable
    BY DEF Inv
  <1> QED BY <1>1, Invariance, PTL

\* Whatever the process was doing when it died, every local entry overrides a
\* shipped one or has its installed manifest, unless a reset was cut short
\* (resolver.py, install and remove; store.py, remove).
THEOREM CatalogIsBacked == Spec => []CatalogBacked
  <1>1. Inv => CatalogBacked
    BY DEF Inv
  <1> QED BY <1>1, Invariance, PTL

\* What one step may do to an install directory: fill an empty one with both files,
\* or take a file away (installer.py, store.py).
LEMMA ArtifactStep ==
  ASSUME Inv, [Next]_vars, NEW r \in Ref
  PROVE  /\ Listed(r) /\ Listed(r)' => artifact'[r].manifest = artifact[r].manifest
         /\ ~Listed(r) /\ Listed(r)' => artifact'[r].meta
  <1>1. artifact \in [Ref -> Artifact]
    BY DEF Inv, TypeOK, StoreTypeOK
  <1>2. CASE UNCHANGED artifact
    BY <1>2 DEF Listed
  <1>3. ASSUME NEW w \in Worker, InstallPromote(w), ~UNCHANGED artifact
        PROVE  /\ Listed(r) /\ Listed(r)' => artifact'[r].manifest = artifact[r].manifest
               /\ ~Listed(r) /\ Listed(r)' => artifact'[r].meta
    <2>1. ~Occupied(RefOf(man[w])) /\ artifact' = Promoted(artifact, RefOf(man[w]), stage[w])
      BY <1>3 DEF InstallPromote
    <2> QED BY <1>1, <2>1 DEF Promoted, Occupied, Listed
  <1>4. ASSUME NEW q \in Ref, artifact' = NoMeta(artifact, q) \/ artifact' = NoManifest(artifact, q)
        PROVE  /\ Listed(r) /\ Listed(r)' => artifact'[r].manifest = artifact[r].manifest
               /\ ~Listed(r) /\ Listed(r)' => artifact'[r].meta
    BY <1>1, <1>4 DEF NoMeta, NoManifest, Listed
  <1>5. ASSUME NEW w \in Worker, RemoveMeta(w) \/ RemoveManifest(w)
        PROVE  \/ UNCHANGED artifact
               \/ \E q \in Ref : artifact' = NoMeta(artifact, q) \/ artifact' = NoManifest(artifact, q)
    BY <1>5, UnlinkEffects, InHandTyping, EquippedByInv DEF Inv, RemoveSteps
  <1>6. ASSUME NEW w \in Worker, ResetManifests(w)
        PROVE  \/ UNCHANGED artifact
               \/ \E q \in Ref : artifact' = NoMeta(artifact, q) \/ artifact' = NoManifest(artifact, q)
    BY <1>6, ResetEffect
  <1>7. CASE \E w \in Worker : Serve(w)
    BY <1>2, <1>3, <1>4, <1>5, <1>6, <1>7, ArtifactChanges
  <1>8. CASE Crash \/ (\E w \in Worker : Call(w)) \/ UNCHANGED vars
    BY <1>2, <1>8 DEF Crash, Call
  <1> QED BY <1>7, <1>8 DEF Next

\* An installed manifest is never changed in place, whatever is installed over it
\* (installer.py).
THEOREM InstalledIsImmutable == Spec => ArtifactImmutable
  <1>1. Inv /\ [Next]_vars =>
          [\A r \in Ref : Listed(r) /\ Listed(r)' =>
              artifact'[r].manifest = artifact[r].manifest]_vars
    BY ArtifactStep
  <1> QED BY <1>1, Invariance, PTL DEF Spec, ArtifactImmutable

\* A version becomes listed only together with its meta file (installer.py; store.py,
\* list_installed).
THEOREM InstalledIsWhole == Spec => PromotedWhole
  <1>1. Inv /\ [Next]_vars =>
          [\A r \in Ref : ~Listed(r) /\ Listed(r)' => artifact'[r].meta]_vars
    BY ArtifactStep
  <1> QED BY <1>1, Invariance, PTL DEF Spec, PromotedWhole

-----------------------------------------------------------------------------
(* What the answers promise: the invariant says of each handler how much of *)
(* the promise holds from the step on that settles its answer.              *)

\* The worker is at one of these steps of the handler, or answers success.
Due(w, op, steps) ==
    req[w].op = op /\ (pc[w] \in steps \/ (pc[w] = "unlock" /\ answer[w] = "ok"))

InstallTold(w) ==
    Due(w, "install", {"payload"}) =>
        /\ man[w] \in Manifest /\ local[man[w].id] = man[w]
        /\ resetsCut = 0 => Left(w)

\* The files of the version are gone one after the other.
RemoveTold(w) ==
    LET r == <<req[w].id, req[w].version>> IN
    /\ Due(w, "remove", {"unmeta", "unmanifest", "unpayload"}) =>
          local[req[w].id] = Absent \/ ~RunAllowed(local[req[w].id])
    /\ diskErrors = 0 =>
          /\ Due(w, "remove", {"unmanifest", "unpayload"}) => ~artifact[r].meta
          /\ Due(w, "remove", {"unpayload"}) => ~Listed(r)
          /\ Due(w, "remove", {}) => payload[r] = "none"

\* The parts of the store are emptied one after the other.
ResetTold(w) ==
    /\ Due(w, "reset", {"rmmanifests", "rmpayloads", "rmtmp"}) => local = EmptyCatalog
    /\ diskErrors = 0 =>
          /\ Due(w, "reset", {"rmpayloads", "rmtmp"}) => \A r \in Ref : ~Occupied(r)
          /\ Due(w, "reset", {"rmtmp"}) => \A r \in Ref : payload[r] = "none"
          /\ Due(w, "reset", {}) => orphans = 0

Told == \A w \in Worker : InstallTold(w) /\ RemoveTold(w) /\ ResetTold(w)

\* A staging directory is in use between the steps that make and sweep it, so at
\* most one is at any time: installs hold LOCK_EX.
Staged == \A w \in Worker : stage[w] # Absent => pc[w] \in {"promote", "clean"}

\* The disk's errors only add up, and only a writer counts staging directories.
LEMMA FaultsGrow ==
  ASSUME Inv, NEW w \in Worker, Serve(w)
  PROVE  /\ diskErrors \in Nat /\ orphans \in Nat
         /\ diskErrors' = diskErrors \/ diskErrors' = diskErrors + 1
         /\ orphans' = orphans \/ w \in exclusive
  <1>1. diskErrors \in Nat /\ orphans \in Nat
    BY BoundsAssumption DEF Inv, TypeOK
  <1>2. diskErrors' = diskErrors \/ DiskError
    BY DEF Serve, LockExclusive, LockShared, Return, LoadLocal, WriteLocal, InstallCheck,
           InstallFetch, InstallExists, InstallStage, InstallPromote, InstallClean,
           InstallPayload, RemoveFind, RemoveDrop, RemoveDisable, RemoveMeta, RemoveManifest,
           RemovePayload, RunNest, Read, RunExec, ResetUnlink, ResetManifests, ResetPayloads,
           ResetTmp
  <1>3. orphans' = orphans \/ pc[w] \in {"clean", "rmtmp"}
    BY DEF Serve, LockExclusive, LockShared, Return, LoadLocal, WriteLocal, InstallCheck,
           InstallFetch, InstallExists, InstallStage, InstallPromote, InstallClean,
           InstallPayload, RemoveFind, RemoveDrop, RemoveDisable, RemoveMeta, RemoveManifest,
           RemovePayload, RunNest, Read, RunExec, ResetUnlink, ResetManifests, ResetPayloads,
           ResetTmp, Step
  <1>4. pc[w] \in {"clean", "rmtmp"} => w \in exclusive
    BY DEF Inv, Dispatched, InstallSteps, ResetSteps, Writes
  <1> QED BY <1>1, <1>2, <1>3, <1>4 DEF DiskError

\* What a worker owes is kept by the steps of the others: they wait for its lock.
LEMMA ToldOthers ==
  ASSUME Inv, Told, NEW w \in Worker, Serve(w), NEW v \in Worker, v # w
  PROVE  (InstallTold(v) /\ RemoveTold(v) /\ ResetTold(v))'
  <1>1. /\ pc'[v] = pc[v] /\ req'[v] = req[v] /\ man'[v] = man[v] /\ answer'[v] = answer[v]
        /\ found'[v] = found[v]
    BY Frame DEF Inv
  <1>2. /\ InstallTold(v) /\ RemoveTold(v) /\ ResetTold(v)
        /\ diskErrors' = 0 => diskErrors = 0
        /\ resetsCut' = 0 => resetsCut = 0
    BY FaultsGrow, FaultTypeStep, EquippedByInv DEF Told
  <1>3. CASE pc[v] \notin {"idle", "lock"} /\ Writes(req[v])
    <2>1. UNCHANGED storeVars
      BY <1>3, WriterAlone
    <2>2. orphans' = orphans
      BY <1>3, FaultsGrow DEF Inv, Dispatched, LockExclusion
    <2> QED BY <1>1, <1>2, <2>1, <2>2
            DEF InstallTold, RemoveTold, ResetTold, Due, Left, Listed, Occupied, RefOf
  <1>4. CASE ~(pc[v] \notin {"idle", "lock"} /\ Writes(req[v]))
    BY <1>1, <1>4 DEF InstallTold, RemoveTold, ResetTold, Due, Writes
  <1> QED BY <1>3, <1>4

\* The catalog write is what an install and a removal owe their answers.
LEMMA WriteTold ==
  ASSUME Inv, NEW w \in Worker, WriteLocal(w), Serve(w)
  PROVE  (InstallTold(w) /\ RemoveTold(w) /\ ResetTold(w))'
  <1>1. /\ pc[w] = "write" /\ req' = req /\ man' = man /\ artifact' = artifact
        /\ local \in Catalog /\ resetsCut' = resetsCut /\ found' = found
        /\ \/ pc'[w] = "unlock" /\ answer'[w] = "error"
           \/ /\ pc'[w] = IF req[w].op = "install" THEN "payload" ELSE "unmeta"
              /\ answer'[w] = "ok"
    BY DEF WriteLocal, Inv, TypeOK, StoreTypeOK, Goto, Settle, Fail
  <1>2. CASE pc'[w] = "unlock"
    BY <1>1, <1>2 DEF InstallTold, RemoveTold, ResetTold, Due
  <1>3. CASE pc'[w] = "payload" /\ req[w].op = "install"
    <2>1. man[w] \in Manifest /\ local' = Put(local, man[w])
      BY <1>1, <1>3, WriteLocalEffect
    <2>2. local'[man[w].id] = man[w]
      BY <1>1, <2>1 DEF Put, Catalog, Manifest
    <2>3. resetsCut = 0 => Left(w)
      BY <1>1, <1>3 DEF Inv, DirectoriesWhole, WholeFor, SettledOnce, Unsettled
    <2> QED BY <1>1, <1>3, <2>1, <2>2, <2>3
            DEF InstallTold, RemoveTold, ResetTold, Due, Left, RefOf
  <1>4. CASE pc'[w] = "unmeta" /\ req[w].op = "remove"
    <2>1. req[w].id \in Ids
      BY <1>1, <1>4, WriteLocalEffect
    <2>2. local'[req[w].id] = Absent \/ ~RunAllowed(local'[req[w].id])
      <3>1. CASE local' = Drop(local, req[w].id)
        BY <1>1, <2>1, <3>1 DEF Drop, Catalog
      <3>2. CASE /\ Base[req[w].id] # Absent
                 /\ man[w] = Disabled(Base[req[w].id]) /\ local' = Put(local, man[w])
        <4>1. man[w].id = req[w].id /\ man[w] \in Manifest
          BY <2>1, <3>2, BaseOverride
        <4>2. man[w].enabled = "false"
          BY <2>1, <3>2, BaseAssumption DEF Disabled, Catalog, Manifest
        <4> QED BY <1>1, <2>1, <3>2, <4>1, <4>2 DEF Put, Catalog, RunAllowed
      <3> QED BY <1>4, <3>1, <3>2, WriteLocalEffect
    <2> QED BY <1>1, <1>4, <2>2 DEF InstallTold, RemoveTold, ResetTold, Due
  <1>5. req[w].op \in {"install", "remove"}
    BY <1>1 DEF Inv, Dispatched
  <1> QED BY <1>1, <1>2, <1>3, <1>4, <1>5

\* The steps of a removal on the files free the directory and the payload.
LEMMA RemoveFilesTold ==
  ASSUME Inv, Told, NEW w \in Worker, Serve(w),
         RemoveMeta(w) \/ RemoveManifest(w) \/ RemovePayload(w)
  PROVE  (InstallTold(w) /\ RemoveTold(w) /\ ResetTold(w))'
  <1> DEFINE r == <<req[w].id, req[w].version>>
  <1>1. /\ pc[w] \in {"unmeta", "unmanifest", "unpayload"} /\ req[w].op = "remove"
        /\ req' = req /\ local' = local
    BY DEF RemoveMeta, RemoveManifest, RemovePayload, Step, Inv, Dispatched, RemoveSteps
  <1>2. /\ r \in Ref /\ artifact \in [Ref -> Artifact] /\ payload \in [Ref -> PayloadState]
    BY <1>1, InHandTyping, EquippedByInv DEF Inv, TypeOK, StoreTypeOK, RemoveSteps
  <1>3. RemoveTold(w) /\ (diskErrors' = 0 => diskErrors = 0)
    BY FaultsGrow DEF Told
  <1>4. (InstallTold(w) /\ ResetTold(w))'
    BY <1>1 DEF InstallTold, ResetTold, Due
  <1>5. diskErrors' = 0 => ~DiskError
    BY FaultsGrow DEF DiskError
  <1>6. CASE RemoveMeta(w)
    <2>1. /\ pc'[w] \in {"unmanifest", "unlock"} /\ pc[w] = "unmeta" /\ answer[w] = answer'[w]
          /\ diskErrors' = 0 => pc'[w] = "unmanifest" /\ artifact' = NoMeta(artifact, r)
      BY <1>5, <1>6 DEF RemoveMeta, Goto, Inv, TypeOK
    <2> QED BY <1>1, <1>2, <1>3, <1>4, <2>1 DEF RemoveTold, Due, NoMeta
  <1>7. CASE RemoveManifest(w)
    <2>1. /\ pc'[w] \in {"unpayload", "unlock"} /\ pc[w] = "unmanifest"
          /\ diskErrors' = 0 => pc'[w] = "unpayload" /\ artifact' = NoManifest(artifact, r)
      BY <1>5, <1>7 DEF RemoveManifest, Goto, Inv, TypeOK
    <2> QED BY <1>1, <1>2, <1>3, <1>4, <2>1 DEF RemoveTold, Due, NoManifest, Listed
  <1>8. CASE RemovePayload(w)
    <2>1. /\ pc'[w] = "unlock" /\ pc[w] = "unpayload" /\ artifact' = artifact
          /\ diskErrors' = 0 => payload' = [payload EXCEPT ![r] = "none"]
      BY <1>5, <1>8 DEF RemovePayload, Step, Goto, Inv, TypeOK
    <2> QED BY <1>1, <1>2, <1>3, <1>4, <2>1 DEF RemoveTold, Due, Listed
  <1> QED BY <1>6, <1>7, <1>8

\* The steps of a factory reset empty what they are there to empty.
LEMMA ResetFilesTold ==
  ASSUME Inv, Told, NEW w \in Worker, Serve(w),
         ResetUnlink(w) \/ ResetManifests(w) \/ ResetPayloads(w) \/ ResetTmp(w)
  PROVE  (InstallTold(w) /\ RemoveTold(w) /\ ResetTold(w))'
  <1>1. /\ pc[w] \in ResetSteps /\ req[w].op = "reset" /\ req' = req
    BY DEF ResetUnlink, ResetManifests, ResetPayloads, ResetTmp, Step, Inv, Dispatched,
           ResetSteps
  <1>2. pc \in [Worker -> PC] /\ answer \in [Worker -> Answer]
    BY DEF Inv, TypeOK
  <1>3. ResetTold(w) /\ (diskErrors' = 0 => diskErrors = 0)
    BY FaultsGrow DEF Told
  <1>4. (InstallTold(w) /\ RemoveTold(w))'
    BY <1>1 DEF InstallTold, RemoveTold, Due
  <1>5. diskErrors' = 0 => ~DiskError
    BY FaultsGrow DEF DiskError
  <1>6. CASE ResetUnlink(w)
    <2>1. \/ pc'[w] = "rmmanifests" /\ local' = EmptyCatalog
          \/ pc'[w] = "unlock" /\ answer'[w] = "error"
      BY <1>2, <1>6 DEF ResetUnlink, Goto, Fail, Settle
    <2> QED BY <1>1, <1>4, <2>1 DEF ResetTold, Due
  <1>7. CASE ResetManifests(w)
    <2>1. /\ pc[w] = "rmmanifests" /\ local' = local
          /\ \/ pc'[w] = "rmmanifests"
             \/ /\ pc'[w] = "rmpayloads"
                /\ diskErrors' = 0 => artifact' = artifact /\ \A r \in Ref : ~Occupied(r)
      BY <1>2, <1>5, <1>7 DEF ResetManifests, Goto
    <2> QED BY <1>1, <1>3, <1>4, <2>1 DEF ResetTold, Due, Occupied, Listed
  <1>8. CASE ResetPayloads(w)
    <2>1. /\ pc[w] = "rmpayloads" /\ pc'[w] = "rmtmp" /\ local' = local /\ artifact' = artifact
          /\ diskErrors' = 0 => payload' = [r \in Ref |-> "none"]
      BY <1>2, <1>5, <1>8 DEF ResetPayloads, Step, Goto
    <2> QED BY <1>1, <1>3, <1>4, <2>1 DEF ResetTold, Due, Occupied, Listed
  <1>9. CASE ResetTmp(w)
    <2>1. /\ pc[w] = "rmtmp" /\ pc'[w] = "unlock" /\ UNCHANGED <<local, artifact, payload>>
          /\ diskErrors' = 0 => orphans' = 0
      BY <1>2, <1>5, <1>9 DEF ResetTmp, Step, Goto
    <2> QED BY <1>1, <1>3, <1>4, <2>1 DEF ResetTold, Due, Occupied, Listed
  <1> QED BY <1>6, <1>7, <1>8, <1>9

\* A worker's own step leaves it owing what its answer promises.
LEMMA ToldSelf ==
  ASSUME Inv, Told, NEW w \in Worker, Serve(w)
  PROVE  (InstallTold(w) /\ RemoveTold(w) /\ ResetTold(w))'
  <1> USE DEF Goto, Step, Settle, Fail
  <1>1. pc \in [Worker -> PC] /\ answer \in [Worker -> Answer] /\ Dispatched /\ SettledOnce
    BY DEF Inv, TypeOK
  <1>2. ASSUME req'[w] = req[w], pc'[w] \notin {"payload", "unmeta", "unmanifest", "unpayload",
                     "rmmanifests", "rmpayloads", "rmtmp"},
               pc'[w] = "unlock" => answer'[w] # "ok" \/ ~Writes(req[w])
        PROVE  (InstallTold(w) /\ RemoveTold(w) /\ ResetTold(w))'
    BY <1>2 DEF InstallTold, RemoveTold, ResetTold, Due, Writes
  <1>3. CASE LockExclusive(w) \/ LockShared(w)
    BY <1>1, <1>2, <1>3, FirstSteps, EquippedByInv DEF LockExclusive, LockShared
  <1>4. CASE Return(w)
    BY <1>1, <1>4 DEF Return, Inv, TypeOK, InstallTold, RemoveTold, ResetTold, Due
  <1>5. CASE LoadLocal(w)
    BY <1>1, <1>2, <1>5 DEF LoadLocal
  <1>6. CASE InstallCheck(w) \/ InstallFetch(w) \/ InstallExists(w) \/ InstallStage(w)
             \/ InstallPromote(w)
    BY <1>1, <1>2, <1>6 DEF InstallCheck, InstallFetch, InstallExists, InstallStage,
                            InstallPromote
  <1>7. CASE InstallClean(w)
    BY <1>1, <1>2, <1>7 DEF InstallClean
  <1>8. CASE InstallPayload(w)
    <2>1. /\ pc[w] = "payload" /\ pc'[w] \in {"payload", "unlock"} /\ req[w].op = "install"
          /\ UNCHANGED <<local, artifact, req, man, found, resetsCut>>
      BY <1>1, <1>8 DEF InstallPayload, Dispatched, InstallSteps
    <2> QED BY <2>1 DEF Told, InstallTold, RemoveTold, ResetTold, Due, Left, RefOf
  <1>9. CASE RemoveFind(w) \/ RemoveDrop(w) \/ RemoveDisable(w)
    BY <1>1, <1>2, <1>9 DEF RemoveFind, RemoveDrop, RemoveDisable
  <1>10. CASE RunNest(w) \/ Read(w) \/ RunExec(w)
    <2>1. /\ ~Writes(req[w]) /\ req' = req /\ pc'[w] \in {"read", "exec", "unlock"}
      BY <1>1, <1>10 DEF RunNest, Read, RunExec, Dispatched, Writes
    <2> QED BY <1>2, <2>1
  <1> QED BY <1>3, <1>4, <1>5, <1>6, <1>7, <1>8, <1>9, <1>10, WriteTold, RemoveFilesTold,
             ResetFilesTold DEF Serve

LEMMA ToldStep == Inv /\ Told /\ [Next]_vars => Told'
  <1> SUFFICES ASSUME Inv, Told, [Next]_vars PROVE Told'
    OBVIOUS
  <1> USE DEF InstallTold, RemoveTold, ResetTold, Due, Left, Listed, Occupied, RefOf
  <1>1. ASSUME NEW w \in Worker, Serve(w) PROVE Told'
    BY <1>1, ToldOthers, ToldSelf DEF Told
  <1>2. ASSUME NEW w \in Worker, Call(w) PROVE Told'
    <2>1. /\ pc'[w] = "lock" /\ UNCHANGED <<storeVars, man, answer, found, faultVars>>
          /\ \A v \in Worker \ {w} : pc'[v] = pc[v] /\ req'[v] = req[v]
      BY <1>2 DEF Call, Step, Goto, Inv, TypeOK
    <2> QED BY <2>1 DEF Told
  <1>3. CASE Crash
    BY <1>3 DEF Crash, Told, NoRequest
  <1>4. CASE UNCHANGED vars
    BY <1>4 DEF Told
  <1> QED BY <1>1, <1>2, <1>3, <1>4 DEF Next

\* A staging directory is made by the step before "promote" or "clean" and swept
\* by the latter.
LEMMA StagedStep == Inv /\ Staged /\ [Next]_vars => Staged'
  <1> SUFFICES ASSUME Inv, Staged, [Next]_vars PROVE Staged'
    OBVIOUS
  <1> USE DEF Staged, Goto, Step, Settle, Fail
  <1>1. ASSUME NEW w \in Worker, Serve(w) PROVE Staged'
    <2>1. TypeOK
      BY DEF Inv
    <2>2. stage'[w] # Absent => pc'[w] \in {"promote", "clean"}
      <3> USE DEF TypeOK
      <3>1. CASE LockExclusive(w) \/ LockShared(w) \/ Return(w)
        BY <2>1, <3>1 DEF LockExclusive, LockShared, Return
      <3>2. CASE InstallStage(w) \/ InstallPromote(w) \/ InstallClean(w)
        BY <2>1, <3>2 DEF InstallStage, InstallPromote, InstallClean
      <3>3. CASE LoadLocal(w) \/ WriteLocal(w) \/ InstallCheck(w) \/ InstallFetch(w)
                 \/ InstallExists(w) \/ InstallPayload(w)
        BY <2>1, <3>3 DEF LoadLocal, WriteLocal, InstallCheck, InstallFetch, InstallExists,
                   InstallPayload
      <3>4. CASE \/ RemoveFind(w) \/ RemoveDrop(w) \/ RemoveDisable(w)
                 \/ RemoveMeta(w) \/ RemoveManifest(w) \/ RemovePayload(w)
        BY <2>1, <3>4 DEF RemoveFind, RemoveDrop, RemoveDisable, RemoveMeta, RemoveManifest,
                          RemovePayload
      <3>5. CASE RunNest(w) \/ Read(w) \/ RunExec(w)
        BY <2>1, <3>5 DEF RunNest, Read, RunExec
      <3>6. CASE ResetUnlink(w) \/ ResetManifests(w) \/ ResetPayloads(w) \/ ResetTmp(w)
        BY <2>1, <3>6 DEF ResetUnlink, ResetManifests, ResetPayloads, ResetTmp
      <3> QED BY <1>1, <3>1, <3>2, <3>3, <3>4, <3>5, <3>6 DEF Serve
    <2> QED BY <1>1, <2>1, <2>2, Frame
  <1>2. ASSUME NEW w \in Worker, Call(w) PROVE Staged'
    BY <1>2 DEF Call, Inv, TypeOK
  <1>3. CASE Crash \/ UNCHANGED vars
    BY <1>3 DEF Crash
  <1> QED BY <1>1, <1>2, <1>3 DEF Next

\* A step of a worker leaves a staging directory behind only by an error of the disk.
LEMMA OrphansStep ==
  ASSUME Inv, StagingBounded, NEW w \in Worker, Serve(w)
  PROVE  StagingBounded'
  <1>1. /\ orphans \in Nat /\ crashes \in Nat /\ diskErrors \in Nat
        /\ diskErrors' = diskErrors \/ diskErrors' = diskErrors + 1
    BY FaultsGrow, BoundsAssumption DEF Inv, TypeOK
  <1>2. \/ orphans' = orphans
        \/ orphans' = orphans + 1 /\ DiskError
        \/ orphans' \in 0..orphans \/ orphans' = 0
    BY DEF Serve, LockExclusive, LockShared, Return, LoadLocal, WriteLocal, InstallCheck,
           InstallFetch, InstallExists, InstallStage, InstallPromote, InstallClean,
           InstallPayload, RemoveFind, RemoveDrop, RemoveDisable, RemoveMeta, RemoveManifest,
           RemovePayload, RunNest, Read, RunExec, ResetUnlink, ResetManifests, ResetPayloads,
           ResetTmp
  <1>3. crashes' = crashes
    BY DEF Serve, LockExclusive, LockShared, Return, LoadLocal, WriteLocal, InstallCheck,
           InstallFetch, InstallExists, InstallStage, InstallPromote, InstallClean,
           InstallPayload, RemoveFind, RemoveDrop, RemoveDisable, RemoveMeta, RemoveManifest,
           RemovePayload, RunNest, Read, RunExec, ResetUnlink, ResetManifests, ResetPayloads,
           ResetTmp
  <1> QED BY <1>1, <1>2, <1>3 DEF StagingBounded, DiskError

\* A crash finds at most one staging directory: the one of the lock's holder.
LEMMA OrphansCrash ==
  ASSUME Inv, Staged, StagingBounded, Crash
  PROVE  StagingBounded'
  <1> DEFINE Staging == {w \in Worker : stage[w] # Absent}
  <1>1. \A v, w \in Staging : v = w
    BY DEF Staged, Inv, Dispatched, InstallSteps, Writes, LockExclusion
  <1>2. Cardinality(Staging) \in {0, 1}
    <2>1. CASE Staging = {}
      BY <2>1, FS_EmptySet
    <2>2. ASSUME NEW v \in Staging PROVE Cardinality(Staging) = 1
      <3>1. Staging = {v}
        BY <1>1, <2>2
      <3> QED BY <3>1, FS_Singleton
    <2> QED BY <2>1, <2>2
  <1>3. /\ orphans' = orphans + Cardinality(Staging)
        /\ crashes' = crashes + 1 /\ diskErrors' = diskErrors
    BY DEF Crash
  <1>4. orphans \in Nat /\ crashes \in Nat /\ diskErrors \in Nat
    BY BoundsAssumption DEF Inv, TypeOK
  <1> QED BY <1>2, <1>3, <1>4 DEF StagingBounded

LEMMA StagingStep == Inv /\ Staged /\ StagingBounded /\ [Next]_vars => StagingBounded'
  <1>1. ASSUME NEW w \in Worker, Call(w), StagingBounded PROVE StagingBounded'
    BY <1>1 DEF Call, StagingBounded
  <1>2. UNCHANGED vars /\ StagingBounded => StagingBounded'
    BY DEF StagingBounded
  <1> QED BY <1>1, <1>2, OrphansStep, OrphansCrash DEF Next

\* A success answered by an install, a removal or a factory reset is one, with any
\* number of threads and requests, crashes and errors of the disk (resolver.py,
\* install and remove; store.py, factory_reset).
THEOREM AnswersAreTrue == Spec => []AnswersHold
  <1>1. Init => Told
    BY DEF Init, Told, InstallTold, RemoveTold, ResetTold, Due, NoRequest
  <1>2. Told => AnswersHold
    <2> SUFFICES ASSUME Told PROVE InstallAnswered /\ RemoveAnswered /\ ResetAnswered
      BY DEF AnswersHold
    <2>1. InstallAnswered
      BY DEF Told, InstallTold, Due, InstallAnswered, Answering
    <2>2. RemoveAnswered
      BY DEF Told, RemoveTold, Due, RemoveAnswered, Answering, Occupied
    <2>3. ResetAnswered
      <3>1. local = EmptyCatalog => Merged(local) = Base
        BY BaseAssumption DEF EmptyCatalog, Merged, Catalog
      <3> QED BY <3>1 DEF Told, ResetTold, Due, ResetAnswered, Answering
    <2> QED BY <2>1, <2>2, <2>3
  <1> QED BY <1>1, <1>2, ToldStep, Invariance, PTL DEF Spec

\* However many installs wait for the lock, a crash or a failing sweep leaves at
\* most one staging directory behind (installer.py, install_manifest_atomic).
THEOREM StagingIsBounded == Spec => []StagingBounded
  <1>1. Init => Staged /\ StagingBounded
    BY DEF Init, Staged, StagingBounded
  <1> QED BY <1>1, StagedStep, StagingStep, Invariance, PTL DEF Spec
=============================================================================
