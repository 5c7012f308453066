------------------------ MODULE CapabilitySystemProofs ------------------------
(***************************************************************************)
(* The properties of CapabilitySystem, where the store's handlers and OAuth *)
(* onboarding write one local catalog, for any number of threads of both,   *)
(* manifests, requests, crashes and errors of the disk.                     *)
(***************************************************************************)
EXTENDS CapabilitySystem, CapabilityServiceProofs

USE DEF storeVars, workerVars, lockVars, faultVars, onboardingVars, serviceVars,
        Onboarding!threadVars, Onboarding!secretVars, Onboarding!worldVars

-----------------------------------------------------------------------------
(* The inductive invariant.  It says nothing of which copy of the catalog is *)
(* fresh: onboarding writes back stale ones.  What it says is that every     *)
(* copy, and every manifest on its way into one, is sound by itself.         *)

\* A manifest that was shipped, or let through by the policy, but for enablement
\* and token reference.
Sourced(m) ==
    \/ Base[m.id] # Absent /\ SameOrigin(m, Base[m.id])
    \/ \E c \in Candidates : c.manifest.trusted /\ SameOrigin(m, Chosen(c))

\* And whose reference, if it has one, is to a token among those known.
Sound(m, known) == Sourced(m) /\ (m.bound => m.id \in known \/ Prebound(m.id))
SoundCatalog(c, known) == \A i \in Ids : c[i] # Absent => Sound(c[i], known)

\* What a removal writes, what any handler writes it into, and what runs.
SoundIn(w) ==
    /\ pc[w] \in {"load", "write"} /\ req[w].op = "remove" /\ man[w] # Absent =>
          Sound(man[w], tokens)
    /\ pc[w] = "write" => SoundCatalog(snap[w], tokens)
    /\ pc[w] = "exec" => Sound(man[w], tokens) /\ RunAllowed(man[w])

\* What a thread of onboarding has in hand at its step.
WithCap ==
    Onboarding!StartSteps \cup (Onboarding!CompleteSteps \ {"complete"})
WithSession == {"putcode", "loadstart", "writestart"} \cup Onboarding!CompleteSteps
WithHeld == {"writestart"} \cup (Onboarding!CompleteSteps \ {"complete"})
HasInHand(t) ==
    /\ step[t] \in WithCap => cap[t] \in Ids
    /\ step[t] \in WithSession => sid[t] \in Session
    /\ step[t] \in WithHeld => held[t] \in Onboarding!SessionFile
    /\ step[t] \in {"loadlocal", "writelocal"} => entry[t] \in Manifest
    /\ step[t] = "writelocal" => catalog[t] \in Catalog

\* The token is stored before the catalog is looked at, and what is written back
\* is sound.
SoundAt(t) ==
    /\ step[t] \in {"merged", "loadlocal", "writelocal"} => cap[t] \in tokens
    /\ step[t] \in {"loadlocal", "writelocal"} => Sound(entry[t], tokens)
    /\ step[t] = "writelocal" => SoundCatalog(catalog[t], tokens)

SystemInv ==
    /\ Equipped
    /\ Onboarding!TypeOK
    /\ \A t \in Onboarder : HasInHand(t)
    /\ SoundCatalog(local, tokens)
    /\ \A w \in Worker : SoundIn(w)
    /\ \A t \in Onboarder : SoundAt(t)

-----------------------------------------------------------------------------
(* Soundness of manifests and catalogs. *)

\* More tokens make nothing unsound.
LEMMA SoundGrows ==
  ASSUME NEW m, NEW known, NEW more, known \subseteq more, Sound(m, known)
  PROVE  Sound(m, more)
BY DEF Sound

LEMMA SoundCatalogGrows ==
  ASSUME NEW c, NEW known, NEW more, known \subseteq more, SoundCatalog(c, known)
  PROVE  SoundCatalog(c, more)
BY SoundGrows DEF SoundCatalog

\* What the merged catalog yields is sound, what is shipped being so by itself.
LEMMA MergedSound ==
  ASSUME NEW c \in Catalog, NEW known, SoundCatalog(c, known), NEW i \in Ids, Merged(c)[i] # Absent
  PROVE  Sound(Merged(c)[i], known)
  <1>1. CASE c[i] # Absent
    BY <1>1 DEF SoundCatalog, Merged
  <1>2. CASE c[i] = Absent
    <2>1. Merged(c)[i] = Base[i] /\ Base[i] # Absent /\ Base[i] \in Manifest /\ Base[i].id = i
      BY <1>2, BaseAssumption DEF Merged, Catalog
    <2>2. SameOrigin(Base[i], Base[i])
      BY <2>1 DEF SameOrigin, Manifest
    <2> QED BY <2>1, <2>2 DEF Sound, Sourced, Prebound
  <1> QED BY <1>1, <1>2

\* Disabling a manifest or binding it to a stored token leaves it sound.
LEMMA DisabledSound ==
  ASSUME NEW m \in Manifest, NEW known, Sound(m, known)
  PROVE  Sound(Disabled(m), known)
  <1>1. Disabled(m).id = m.id /\ Disabled(m).bound = m.bound
    BY DEF Disabled, Manifest
  <1>2. ASSUME NEW n, SameOrigin(m, n) PROVE SameOrigin(Disabled(m), n)
    BY <1>2 DEF SameOrigin, Disabled, Manifest
  <1> QED BY <1>1, <1>2 DEF Sound, Sourced

LEMMA BoundSound ==
  ASSUME NEW m \in Manifest, NEW known, Sound(m, known), m.id \in known
  PROVE  /\ Onboarding!Bound(m) \in Manifest
         /\ Sound(Onboarding!Bound(m), known)
  <1>1. Onboarding!Bound(m) \in Manifest /\ Onboarding!Bound(m).id = m.id
    BY DEF Onboarding!Bound, Manifest
  <1>2. ASSUME NEW n, SameOrigin(m, n) PROVE SameOrigin(Onboarding!Bound(m), n)
    BY <1>2 DEF SameOrigin, Onboarding!Bound, Manifest
  <1> QED BY <1>1, <1>2 DEF Sound, Sourced

\* What the policy lets through is sound: a reference it brings along counts.
LEMMA ChosenSound ==
  ASSUME NEW c \in Candidates, c.manifest.trusted, NEW known
  PROVE  Sound(Chosen(c), known)
  <1>1. Chosen(c) \in Manifest
    BY CandidatesAssumption DEF Candidate, Chosen
  <1>2. SameOrigin(Chosen(c), Chosen(c))
    BY <1>1 DEF SameOrigin, Manifest
  <1> QED BY <1>2 DEF Sound, Sourced, Prebound

\* Writing an entry into any sound catalog, or taking one out, leaves a sound one.
LEMMA PutSound ==
  ASSUME NEW c \in Catalog, NEW known, SoundCatalog(c, known), NEW m \in Manifest, Sound(m, known)
  PROVE  SoundCatalog(Put(c, m), known)
BY DEF SoundCatalog, Put, Catalog, Manifest

LEMMA DropSound ==
  ASSUME NEW c \in Catalog, NEW known, SoundCatalog(c, known), NEW i \in Ids
  PROVE  SoundCatalog(Drop(c, i), known)
BY DEF SoundCatalog, Drop, Catalog

-----------------------------------------------------------------------------
(* The handlers. *)

\* What an install has in hand when it comes to write is what the policy let through.
LEMMA InstallSound ==
  ASSUME Equipped, NEW w \in Worker, req[w].op = "install", pc[w] \in {"load", "write"}, NEW known
  PROVE  man[w] \in Manifest /\ Sound(man[w], known)
  <1>1. req[w].cand \in Candidates /\ Chosen(req[w].cand) \in Manifest
    BY RequestTyping, RequestsAssumption
    DEF Equipped, TypeOK, Request, InstallRequest, RemoveRequest, ReadRequest, ResetRequest,
        NoRequest
  <1>2. req[w].cand.manifest.trusted /\ man[w] = Chosen(req[w].cand)
    BY DEF Equipped, Carried, CarriedOf
  <1> QED BY <1>1, <1>2, ChosenSound

\* However stale the copy a handler writes back, the catalog is sound afterwards.
LEMMA WriteSound ==
  ASSUME Equipped, SoundCatalog(local, tokens), NEW w \in Worker, SoundIn(w), WriteLocal(w)
  PROVE  SoundCatalog(local', tokens)
  <1> USE DEF Equipped, TypeOK
  <1>1. /\ pc[w] = "write" /\ snap[w] \in Catalog /\ SoundCatalog(snap[w], tokens)
        /\ req[w].op \in {"install", "remove"}
    BY DEF WriteLocal, Carried, CarriedOf, Dispatched, SoundIn
  <1>2. CASE local' = local
    BY <1>2
  <1>3. CASE man[w] # Absent /\ local' = Put(snap[w], man[w])
    <2>1. man[w] \in Manifest /\ Sound(man[w], tokens)
      BY <1>1, <1>3, InstallSound DEF SoundIn
    <2> QED BY <1>1, <1>3, <2>1, PutSound
  <1>4. CASE man[w] = Absent /\ local' = Drop(snap[w], req[w].id)
    <2>1. req[w].op # "install"
      BY <1>1, <1>4, InstallSound, AbsentAssumption
    <2>2. req[w].id \in Ids
      BY <1>1, <2>1, InHandTyping
    <2> QED BY <1>1, <1>4, <2>2, DropSound
  <1> QED BY <1>2, <1>3, <1>4 DEF WriteLocal

LEMMA LocalSound ==
  ASSUME Equipped, SoundCatalog(local, tokens), NEW w \in Worker, SoundIn(w), Serve(w)
  PROVE  SoundCatalog(local', tokens)
  <1>1. CASE WriteLocal(w)
    BY <1>1, WriteSound
  <1>2. CASE ResetUnlink(w)
    BY <1>2 DEF ResetUnlink, SoundCatalog, EmptyCatalog
  <1>3. CASE UNCHANGED local
    BY <1>3
  <1> QED BY <1>1, <1>2, <1>3, LocalChanges

\* What a handler takes from the catalog for its own use is sound.
LEMMA SoundInSelf ==
  ASSUME Equipped, SoundCatalog(local, tokens), NEW w \in Worker, SoundIn(w), Serve(w),
         UNCHANGED tokens
  PROVE  SoundIn(w)'
  <1> USE DEF Equipped, TypeOK, StoreTypeOK, Goto, Step, Settle, Fail, SoundIn
  <1>1. CASE LockExclusive(w) \/ LockShared(w)
    BY <1>1, FirstSteps DEF LockExclusive, LockShared
  <1>2. CASE LoadLocal(w) \/ WriteLocal(w)
    BY <1>2 DEF LoadLocal, WriteLocal
  <1>3. CASE \/ InstallCheck(w) \/ InstallFetch(w) \/ InstallExists(w) \/ InstallStage(w)
             \/ InstallPromote(w) \/ InstallClean(w) \/ InstallPayload(w)
    <2>1. req[w].op = "install"
      BY <1>3 DEF InstallCheck, InstallFetch, InstallExists, InstallStage,
                  InstallPromote, InstallClean, InstallPayload, Dispatched, InstallSteps
    <2> QED BY <1>3, <2>1 DEF InstallCheck, InstallFetch, InstallExists, InstallStage,
                              InstallPromote, InstallClean, InstallPayload
  <1>4. CASE RemoveDrop(w)
    BY <1>4 DEF RemoveDrop, Carried, CarriedOf
  <1>5. CASE RemoveDisable(w)
    <2> DEFINE m == Merged(local)[req[w].id]
    <2>1. req[w].id \in Ids
      BY <1>5, InHandTyping DEF RemoveDisable, RemoveSteps
    <2>2. m # Absent => Sound(Disabled(m), tokens)
      BY <2>1, MergedTyping, MergedSound, DisabledSound
    <2> QED BY <1>5, <2>2 DEF RemoveDisable
  <1>6. CASE RemoveFind(w) \/ RemoveMeta(w) \/ RemoveManifest(w) \/ RemovePayload(w)
    BY <1>6 DEF RemoveFind, RemoveMeta, RemoveManifest, RemovePayload
  <1>7. CASE Read(w)
    <2> DEFINE m == Merged(local)[req[w].id]
    <2>1. req[w].id \in Ids
      BY <1>7, InHandTyping DEF Read
    <2>2. m # Absent => Sound(m, tokens)
      BY <2>1, MergedSound
    <2>3. pc'[w] = "exec" => man'[w] = m /\ m # Absent /\ RunAllowed(m)
      BY <1>7 DEF Read, Readable, Matches
    <2>4. pc'[w] \in {"exec", "unlock"}
      BY <1>7 DEF Read
    <2> QED BY <1>7, <2>2, <2>3, <2>4
  <1>8. CASE RunNest(w) \/ RunExec(w) \/ Return(w)
    BY <1>8 DEF RunNest, RunExec, Return
  <1>9. CASE ResetUnlink(w) \/ ResetManifests(w) \/ ResetPayloads(w) \/ ResetTmp(w)
    BY <1>9 DEF ResetUnlink, ResetManifests, ResetPayloads, ResetTmp
  <1> QED BY <1>1, <1>2, <1>3, <1>4, <1>5, <1>6, <1>7, <1>8, <1>9 DEF Serve

\* Another worker's step changes nothing of what is in hand.
LEMMA SoundInOthers ==
  ASSUME TypeOK, NEW w \in Worker, Serve(w), NEW v \in Worker, v # w, SoundIn(v), UNCHANGED tokens
  PROVE  SoundIn(v)'
  <1>1. /\ pc'[v] = pc[v] /\ req'[v] = req[v] /\ man'[v] = man[v] /\ snap'[v] = snap[v]
    BY Frame
  <1> QED BY <1>1 DEF SoundIn

\* Onboarding has in hand what a handler's step leaves alone.
LEMMA HandlerStep ==
  ASSUME SystemInv, NEW w \in Worker, Serve(w), sessions' \in Onboarding!SessionFile,
         UNCHANGED <<codes, tokens, expired, grant, step, sid, cap, held, catalog, entry, crossed>>
  PROVE  SystemInv'
  <1> USE DEF SystemInv
  <1>1. Equipped'
    BY EquippedStep
  <1>2. SoundCatalog(local, tokens)'
    BY LocalSound
  <1>3. \A v \in Worker : SoundIn(v)'
    BY SoundInSelf, SoundInOthers DEF Equipped
  <1>4. Onboarding!TypeOK'
    BY <1>1 DEF Onboarding!TypeOK, Equipped, TypeOK, StoreTypeOK, Onboarding!Catalog, Catalog,
                Onboarding!Manifest, Manifest
  <1>5. \A t \in Onboarder : HasInHand(t)' /\ SoundAt(t)'
    BY DEF HasInHand, SoundAt
  <1> QED BY <1>1, <1>2, <1>3, <1>4, <1>5

-----------------------------------------------------------------------------
(* Onboarding. *)

\* Both components mean the same by the data they share.
LEMMA SharedData ==
  /\ Onboarding!Catalog = Catalog /\ Onboarding!Manifest = Manifest
  /\ \A c : Onboarding!Merged(c) = Merged(c)
  /\ \A c, m : Onboarding!Put(c, m) = Put(c, m)
BY DEF Onboarding!Catalog, Catalog, Onboarding!Manifest, Manifest, Onboarding!Merged, Merged,
       Onboarding!Put, Put

\* What the merged catalog yields is still a manifest when it is bound to a token.
LEMMA BoundTyping ==
  ASSUME NEW c \in Catalog, NEW i \in Ids, Merged(c)[i] # Absent
  PROVE  Onboarding!Bound(Merged(c)[i]) \in Manifest
  <1>1. Merged(c)[i] \in Manifest
    BY MergedTyping
  <1> QED BY <1>1 DEF Onboarding!Bound, Manifest

\* A step of a thread of onboarding.
Onboards(t) == Onboarding!CallStart(t) \/ Onboarding!CallComplete(t) \/ Onboarding!Onboard(t)

\* It writes the local catalog from its copy or not at all, and forgets no token.
LEMMA OnboardingEffect ==
  ASSUME NEW t \in Onboarder, Onboards(t)
  PROVE  /\ local' = local \/ (step[t] = "writelocal" /\ local' = Put(catalog[t], entry[t]))
         /\ tokens' = tokens \/ (step[t] = "puttoken" /\ tokens' = tokens \cup {cap[t]})
  <1> USE SharedData
  <1>1. CASE Onboarding!CompleteWriteLocal(t)
    BY <1>1 DEF Onboarding!CompleteWriteLocal
  <1>2. CASE Onboarding!CompletePutToken(t)
    BY <1>2 DEF Onboarding!CompletePutToken
  <1>3. CASE ~Onboarding!CompleteWriteLocal(t) /\ ~Onboarding!CompletePutToken(t)
    BY <1>3 DEF Onboards, Onboarding!Onboard, Onboarding!CallStart, Onboarding!CallComplete,
                Onboarding!StartCheck, Onboarding!StartDevice, Onboarding!StartPutCode,
                Onboarding!StartLoad, Onboarding!StartWrite, Onboarding!CompleteLoad,
                Onboarding!CompleteGetCode, Onboarding!CompleteToken,
                Onboarding!CompleteMerged, Onboarding!CompleteLoadLocal,
                Onboarding!CompleteDropCode, Onboarding!CompleteWrite, Onboarding!Reply
  <1> QED BY <1>1, <1>2, <1>3

\* It keeps its types, and leaves the thread with what its next step expects.
LEMMA OnboardingTypeStep ==
  ASSUME Onboarding!TypeOK, NEW t \in Onboarder, HasInHand(t), Onboards(t)
  PROVE  Onboarding!TypeOK'
  <1> USE SharedData DEF Onboarding!TypeOK, Onboarding!Goto, Onboarding!Step,
                         Onboarding!Raise, Onboarding!StartSteps, Onboarding!CompleteSteps,
                         Onboarding!Replies
  <1>1. CASE Onboarding!CallStart(t) \/ Onboarding!CallComplete(t)
    <2>1. crossed' \in SUBSET Onboarder
      BY <1>1 DEF Onboarding!CallStart, Onboarding!CallComplete, Onboarding!Cross,
                  Onboarding!Busy
    <2> QED BY <1>1, <2>1, BoundsAssumption DEF Onboarding!CallStart, Onboarding!CallComplete
  <1>2. CASE Onboarding!StartCheck(t) \/ Onboarding!StartDevice(t) \/ Onboarding!StartLoad(t)
    BY <1>2 DEF Onboarding!StartCheck, Onboarding!StartDevice, Onboarding!StartLoad
  <1>3. CASE Onboarding!StartPutCode(t) \/ Onboarding!CompleteDropCode(t)
    BY <1>3 DEF Onboarding!StartPutCode, Onboarding!CompleteDropCode, HasInHand, WithSession
  <1>4. CASE Onboarding!StartWrite(t) \/ Onboarding!CompleteWrite(t)
    <2>1. /\ held[t] \in Onboarding!SessionFile /\ sid[t] \in Session
          /\ step[t] = "writestart" => cap[t] \in Ids
      BY <1>4 DEF Onboarding!StartWrite, Onboarding!CompleteWrite, HasInHand, WithHeld,
                  WithSession, WithCap
    <2>2. CASE Onboarding!StartWrite(t)
      <3>1. [held[t] EXCEPT ![sid[t]] = cap[t]] \in Onboarding!SessionFile
        BY <2>1, <2>2 DEF Onboarding!StartWrite, Onboarding!SessionFile
      <3> QED BY <2>2, <3>1 DEF Onboarding!StartWrite
    <2>3. CASE Onboarding!CompleteWrite(t)
      <3>1. [held[t] EXCEPT ![sid[t]] = Absent] \in Onboarding!SessionFile
        BY <2>1 DEF Onboarding!SessionFile
      <3> QED BY <2>3, <3>1 DEF Onboarding!CompleteWrite
    <2> QED BY <1>4, <2>2, <2>3
  <1>5. CASE Onboarding!CompleteLoad(t)
    <2>1. sessions[sid[t]] \in Ids \cup {Absent}
      BY <1>5 DEF Onboarding!CompleteLoad, HasInHand, WithSession, Onboarding!SessionFile
    <2> QED BY <1>5, <2>1 DEF Onboarding!CompleteLoad
  <1>6. CASE Onboarding!CompleteGetCode(t) \/ Onboarding!CompleteToken(t)
    BY <1>6 DEF Onboarding!CompleteGetCode, Onboarding!CompleteToken
  <1>7. CASE Onboarding!CompletePutToken(t) \/ Onboarding!CompleteLoadLocal(t)
    BY <1>7 DEF Onboarding!CompletePutToken, Onboarding!CompleteLoadLocal, HasInHand, WithCap
  <1>8. CASE Onboarding!CompleteMerged(t)
    <2>1. cap[t] \in Ids
      BY <1>8 DEF Onboarding!CompleteMerged, HasInHand, WithCap
    <2> QED BY <1>8, <2>1, BoundTyping DEF Onboarding!CompleteMerged
  <1>9. CASE Onboarding!CompleteWriteLocal(t)
    <2>1. local' \in Catalog
      BY <1>9, PutTyping DEF Onboarding!CompleteWriteLocal, HasInHand
    <2> QED BY <1>9, <2>1 DEF Onboarding!CompleteWriteLocal
  <1>10. CASE Onboarding!Reply(t)
    BY <1>10 DEF Onboarding!Reply
  <1> QED BY <1>1, <1>2, <1>3, <1>4, <1>5, <1>6, <1>7, <1>8, <1>9, <1>10 DEF Onboards,
             Onboarding!Onboard

LEMMA HasInHandStep ==
  ASSUME Onboarding!TypeOK, NEW t \in Onboarder, HasInHand(t), Onboards(t)
  PROVE  HasInHand(t)'
  <1> USE SharedData DEF Onboarding!TypeOK, HasInHand, Onboarding!Goto, Onboarding!Step,
                         Onboarding!Raise, Onboarding!StartSteps, Onboarding!CompleteSteps,
                         Onboarding!Replies, WithCap, WithSession, WithHeld
  <1>1. CASE Onboarding!CallStart(t) \/ Onboarding!CallComplete(t)
    BY <1>1 DEF Onboarding!CallStart, Onboarding!CallComplete
  <1>2. CASE \/ Onboarding!StartCheck(t) \/ Onboarding!StartDevice(t) \/ Onboarding!StartLoad(t)
             \/ Onboarding!StartPutCode(t) \/ Onboarding!StartWrite(t)
    BY <1>2 DEF Onboarding!StartCheck, Onboarding!StartDevice, Onboarding!StartLoad,
                Onboarding!StartPutCode, Onboarding!StartWrite
  <1>3. CASE Onboarding!CompleteLoad(t)
    BY <1>3 DEF Onboarding!CompleteLoad, Onboarding!SessionFile
  <1>4. CASE \/ Onboarding!CompleteGetCode(t) \/ Onboarding!CompleteToken(t)
             \/ Onboarding!CompletePutToken(t) \/ Onboarding!CompleteLoadLocal(t)
    BY <1>4 DEF Onboarding!CompleteGetCode, Onboarding!CompleteToken,
                Onboarding!CompletePutToken, Onboarding!CompleteLoadLocal
  <1>5. CASE Onboarding!CompleteMerged(t)
    <2> QED BY <1>5, BoundTyping DEF Onboarding!CompleteMerged
  <1>6. CASE \/ Onboarding!CompleteWriteLocal(t) \/ Onboarding!CompleteDropCode(t)
             \/ Onboarding!CompleteWrite(t) \/ Onboarding!Reply(t)
    BY <1>6 DEF Onboarding!CompleteWriteLocal, Onboarding!CompleteDropCode,
                Onboarding!CompleteWrite, Onboarding!Reply
  <1> QED BY <1>1, <1>2, <1>3, <1>4, <1>5, <1>6 DEF Onboards, Onboarding!Onboard

\* The manifest it is going to write is what the catalog yields, bound to the token
\* it has stored; the copy it puts it in is the catalog of some moment.
LEMMA SoundAtStep ==
  ASSUME Onboarding!TypeOK, SoundCatalog(local, tokens), NEW t \in Onboarder,
         HasInHand(t), SoundAt(t), Onboards(t)
  PROVE  SoundAt(t)'
  <1> USE SharedData DEF Onboarding!TypeOK, SoundAt, Onboarding!Goto, Onboarding!Step,
                         Onboarding!Raise
  <1>1. CASE Onboarding!CompleteMerged(t)
    <2> DEFINE m == Merged(local)[cap[t]]
    <2>1. cap[t] \in Ids /\ cap[t] \in tokens /\ UNCHANGED <<tokens, cap>>
      BY <1>1 DEF Onboarding!CompleteMerged, HasInHand, WithCap, Onboarding!CompleteSteps
    <2>2. step'[t] = "loadlocal" => m # Absent /\ entry'[t] = Onboarding!Bound(m)
      BY <1>1 DEF Onboarding!CompleteMerged
    <2>3. m # Absent => Sound(Onboarding!Bound(m), tokens)
      BY <2>1, MergedTyping, MergedSound, BoundSound
    <2>4. step'[t] \in {"loadlocal", "failed"}
      BY <1>1 DEF Onboarding!CompleteMerged
    <2> QED BY <2>1, <2>2, <2>3, <2>4
  <1>2. CASE Onboarding!CompletePutToken(t)
    BY <1>2 DEF Onboarding!CompletePutToken
  <1>3. CASE Onboarding!CompleteLoadLocal(t)
    BY <1>3 DEF Onboarding!CompleteLoadLocal
  <1>4. CASE /\ ~Onboarding!CompleteMerged(t) /\ ~Onboarding!CompletePutToken(t)
             /\ ~Onboarding!CompleteLoadLocal(t)
    <2>1. step'[t] \notin {"merged", "loadlocal", "writelocal"}
      BY <1>4 DEF Onboards, Onboarding!Onboard, Onboarding!CallStart, Onboarding!CallComplete,
                  Onboarding!StartCheck, Onboarding!StartDevice, Onboarding!StartPutCode,
                  Onboarding!StartLoad, Onboarding!StartWrite, Onboarding!CompleteLoad,
                  Onboarding!CompleteGetCode, Onboarding!CompleteToken,
                  Onboarding!CompleteWriteLocal, Onboarding!CompleteDropCode,
                  Onboarding!CompleteWrite, Onboarding!Reply
    <2> QED BY <2>1
  <1> QED BY <1>1, <1>2, <1>3, <1>4

\* The other threads of onboarding go on with what they have.
LEMMA OnboardingOthers ==
  ASSUME Onboarding!TypeOK, NEW t \in Onboarder, Onboards(t), NEW u \in Onboarder, u # t
  PROVE  /\ step'[u] = step[u] /\ sid'[u] = sid[u] /\ cap'[u] = cap[u] /\ held'[u] = held[u]
         /\ catalog'[u] = catalog[u] /\ entry'[u] = entry[u]
BY DEF Onboarding!TypeOK, Onboarding!Goto, Onboarding!Step, Onboarding!Raise, Onboards,
       Onboarding!Onboard, Onboarding!CallStart, Onboarding!CallComplete,
       Onboarding!StartCheck, Onboarding!StartDevice, Onboarding!StartPutCode,
       Onboarding!StartLoad, Onboarding!StartWrite, Onboarding!CompleteLoad,
       Onboarding!CompleteGetCode, Onboarding!CompleteToken, Onboarding!CompletePutToken,
       Onboarding!CompleteMerged, Onboarding!CompleteLoadLocal, Onboarding!CompleteWriteLocal,
       Onboarding!CompleteDropCode, Onboarding!CompleteWrite, Onboarding!Reply

\* The handlers are equipped for whatever onboarding writes.
LEMMA EquippedBeside ==
  ASSUME Equipped, UNCHANGED serviceVars, local' \in Catalog, calls' \in 0..MaxCalls,
         UNCHANGED <<orphans, resetsCut, diskErrors, crashes>>
  PROVE  Equipped'
BY DEF Equipped, TypeOK, StoreTypeOK, Dispatched, Carried, CarriedOf

LEMMA OnboardingStep ==
  ASSUME SystemInv, NEW t \in Onboarder, Onboards(t), UNCHANGED serviceVars
  PROVE  SystemInv'
  <1> USE DEF SystemInv
  <1>1. Onboarding!TypeOK'
    BY OnboardingTypeStep
  <1>2. local' \in Catalog /\ calls' \in 0..MaxCalls
    BY <1>1, SharedData DEF Onboarding!TypeOK
  <1>3. crashes' = crashes
    BY DEF Onboards, Onboarding!Onboard, Onboarding!CallStart, Onboarding!CallComplete,
           Onboarding!StartCheck, Onboarding!StartDevice, Onboarding!StartPutCode,
           Onboarding!StartLoad, Onboarding!StartWrite, Onboarding!CompleteLoad,
           Onboarding!CompleteGetCode, Onboarding!CompleteToken, Onboarding!CompletePutToken,
           Onboarding!CompleteMerged, Onboarding!CompleteLoadLocal,
           Onboarding!CompleteWriteLocal, Onboarding!CompleteDropCode,
           Onboarding!CompleteWrite, Onboarding!Reply
  <1>4. Equipped'
    BY <1>2, <1>3, EquippedBeside
  <1>5. tokens \subseteq tokens'
    BY OnboardingEffect
  <1>6. SoundCatalog(local, tokens)'
    <2>1. CASE local' = local
      BY <1>5, <2>1, SoundCatalogGrows
    <2>2. CASE step[t] = "writelocal" /\ local' = Put(catalog[t], entry[t])
      <3>1. /\ catalog[t] \in Catalog /\ entry[t] \in Manifest
            /\ SoundCatalog(catalog[t], tokens) /\ Sound(entry[t], tokens)
        BY <2>2 DEF HasInHand, SoundAt
      <3>2. SoundCatalog(local', tokens)
        BY <2>2, <3>1, PutSound
      <3> QED BY <1>5, <3>2, SoundCatalogGrows
    <2> QED BY <2>1, <2>2, OnboardingEffect
  <1>7. \A w \in Worker : SoundIn(w)'
    BY <1>5, SoundGrows, SoundCatalogGrows DEF SoundIn
  <1>8. ASSUME NEW u \in Onboarder, u # t PROVE HasInHand(u)' /\ SoundAt(u)'
    <2>1. /\ step'[u] = step[u] /\ sid'[u] = sid[u] /\ cap'[u] = cap[u] /\ held'[u] = held[u]
          /\ catalog'[u] = catalog[u] /\ entry'[u] = entry[u]
      BY <1>8, OnboardingOthers
    <2> QED BY <1>5, <2>1, SoundGrows, SoundCatalogGrows DEF HasInHand, SoundAt
  <1>9. HasInHand(t)' /\ SoundAt(t)'
    BY HasInHandStep, SoundAtStep
  <1> QED BY <1>1, <1>4, <1>6, <1>7, <1>8, <1>9

-----------------------------------------------------------------------------
(* The whole. *)

LEMMA SystemInitInv == SystemInit => SystemInv
  <1> SUFFICES ASSUME SystemInit PROVE SystemInv
    OBVIOUS
  <1> USE DEF SystemInit, Onboarding!InitOnboarding
  <1>1. Equipped
    BY InitInv, EquippedByInv
  <1>2. local = EmptyCatalog /\ calls = 0 /\ crashes = 0 /\ pc = [w \in Worker |-> "idle"]
    BY DEF Init, StoreInit
  <1>3. Onboarding!TypeOK
    BY <1>1, <1>2, SharedData
    DEF Onboarding!TypeOK, Equipped, TypeOK, StoreTypeOK, Onboarding!SessionFile,
        Onboarding!NoSessions
  <1>4. \A t \in Onboarder : HasInHand(t) /\ SoundAt(t)
    BY DEF HasInHand, SoundAt, WithCap, WithSession, WithHeld, Onboarding!StartSteps,
           Onboarding!CompleteSteps
  <1>5. SoundCatalog(local, tokens) /\ \A w \in Worker : SoundIn(w)
    BY <1>2 DEF SoundCatalog, EmptyCatalog, SoundIn
  <1> QED BY <1>1, <1>3, <1>4, <1>5 DEF SystemInv

\* A crash of the process takes all copies with it.
LEMMA SystemCrashStep ==
  ASSUME SystemInv, SystemCrash
  PROVE  SystemInv'
  <1> USE DEF SystemInv, SystemCrash
  <1>1. Equipped'
    BY EquippedCrash
  <1>2. /\ UNCHANGED <<local, tokens, sessions, codes, expired, grant, calls>>
        /\ Onboarding!ThreadsIdle
    BY DEF Onboarding!Crash
  <1>3. Onboarding!TypeOK'
    BY <1>1, <1>2, SharedData DEF Onboarding!TypeOK, Onboarding!ThreadsIdle, Equipped, TypeOK
  <1>4. \A t \in Onboarder : HasInHand(t)' /\ SoundAt(t)'
    BY <1>2 DEF Onboarding!ThreadsIdle, HasInHand, SoundAt, WithCap, WithSession, WithHeld,
                Onboarding!StartSteps, Onboarding!CompleteSteps
  <1>5. SoundCatalog(local, tokens)' /\ \A w \in Worker : SoundIn(w)'
    BY <1>2 DEF Crash, SoundIn
  <1> QED BY <1>1, <1>3, <1>4, <1>5

LEMMA SystemNextInv == SystemInv /\ [SystemNext]_systemVars => SystemInv'
  <1> SUFFICES ASSUME SystemInv, [SystemNext]_systemVars PROVE SystemInv'
    OBVIOUS
  <1>1. CASE SystemCrash
    BY <1>1, SystemCrashStep
  <1>2. ASSUME NEW w \in Worker, ResetSessions(w) PROVE SystemInv'
    <2>1. sessions' \in Onboarding!SessionFile
      BY <1>2 DEF ResetSessions, SystemInv, Onboarding!TypeOK, Onboarding!SessionFile,
                  Onboarding!NoSessions
    <2> QED BY <1>2, <2>1, HandlerStep DEF ResetSessions, Serve
  <1>3. ASSUME NEW w \in Worker, Handler(w) PROVE SystemInv'
    <2>1. CASE Serve(w)
      BY <1>3, <2>1, HandlerStep DEF Handler, SystemInv, Onboarding!TypeOK
    <2>2. CASE Call(w)
      <3> USE DEF SystemInv
      <3>1. Equipped'
        BY <2>2, EquippedCall
      <3>2. UNCHANGED <<local, man, snap, crashes, onboardingVars>>
        BY <1>3, <2>2 DEF Handler, Call
      <3>3. Onboarding!TypeOK'
        BY <3>1, <3>2, SharedData DEF Onboarding!TypeOK, Equipped, TypeOK
      <3>4. \A t \in Onboarder : HasInHand(t)' /\ SoundAt(t)'
        BY <3>2 DEF HasInHand, SoundAt
      <3>5. \A v \in Worker : SoundIn(v)'
        BY <2>2, <3>2 DEF Call, Step, Goto, SoundIn, Equipped, TypeOK
      <3> QED BY <3>1, <3>2, <3>3, <3>4, <3>5
    <2> QED BY <1>3, <2>1, <2>2 DEF Handler
  <1>4. CASE Onboarding!World /\ UNCHANGED serviceVars
    <2> USE DEF SystemInv
    <2>1. UNCHANGED <<local, sessions, codes, tokens, step, sid, cap, held, catalog, entry,
                      calls, crashes>>
      BY <1>4 DEF Onboarding!World, Onboarding!Decide, Onboarding!Expire
    <2>2. Equipped'
      BY <1>4, <2>1, EquippedBeside DEF Equipped, TypeOK, StoreTypeOK
    <2>3. Onboarding!TypeOK'
      BY <1>4, <2>1 DEF Onboarding!World, Onboarding!Decide, Onboarding!Expire,
                        Onboarding!TypeOK
    <2>4. \A t \in Onboarder : HasInHand(t)' /\ SoundAt(t)'
      BY <2>1 DEF HasInHand, SoundAt
    <2>5. \A w \in Worker : SoundIn(w)'
      BY <1>4, <2>1 DEF SoundIn
    <2> QED BY <2>1, <2>2, <2>3, <2>4, <2>5
  <1>5. ASSUME NEW t \in Onboarder, Onboards(t), UNCHANGED serviceVars PROVE SystemInv'
    BY <1>5, OnboardingStep
  <1>6. CASE UNCHANGED systemVars
    <2> USE DEF SystemInv, systemVars, vars
    <2>1. Equipped'
      BY <1>6 DEF Equipped, TypeOK, StoreTypeOK, Dispatched, Carried, CarriedOf
    <2>2. Onboarding!TypeOK'
      BY <1>6 DEF Onboarding!TypeOK
    <2>3. \A t \in Onboarder : HasInHand(t)' /\ SoundAt(t)'
      BY <1>6 DEF HasInHand, SoundAt
    <2> QED BY <1>6, <2>1, <2>2, <2>3 DEF SoundIn
  <1> QED BY <1>1, <1>2, <1>3, <1>4, <1>5, <1>6 DEF SystemNext, Onboards

\* The invariant holds in every state of the whole service.
THEOREM SystemInvariance == SystemSpec => []SystemInv
  <1> QED BY SystemInitInv, SystemNextInv, PTL DEF SystemSpec

\* The state of handlers and onboarding keeps its type although one writes what the
\* other reads: the catalog file stays filed by identifier.
THEOREM SystemTypeCorrect == SystemSpec => [](TypeOK /\ Onboarding!TypeOK)
  <1>1. SystemInv => TypeOK /\ Onboarding!TypeOK
    BY DEF SystemInv, Equipped
  <1> QED BY <1>1, SystemInvariance, PTL

\* Whatever stale copies handlers and onboarding write over each other, no local
\* entry is of other than a shipped manifest or one the policy let through.
THEOREM EntriesAreSourced == SystemSpec => []EntriesHaveOrigin
  <1>1. SystemInv => EntriesHaveOrigin
    <2> SUFFICES ASSUME SystemInv, NEW i \in Ids, local[i] # Absent
                 PROVE  \/ Base[i] # Absent /\ SameOrigin(local[i], Base[i])
                        \/ \E c \in Candidates :
                              c.manifest.trusted /\ SameOrigin(local[i], Chosen(c))
      BY DEF EntriesHaveOrigin
    <2>1. local[i].id = i
      BY DEF SystemInv, Equipped, TypeOK, StoreTypeOK, Catalog
    <2>2. Sourced(local[i])
      BY DEF SystemInv, SoundCatalog, Sound
    <2> QED BY <2>1, <2>2 DEF Sourced
  <1> QED BY <1>1, SystemInvariance, PTL

\* No connector ever executes on a reference to a token that was never stored.
THEOREM ConnectorsRunWithTokens == SystemSpec => []ConnectorRunHasToken
  <1>1. SystemInv => ConnectorRunHasToken
    <2> SUFFICES ASSUME SystemInv, NEW w \in Worker, pc[w] = "exec", man[w].oauth
                 PROVE  man[w].id \in tokens \/ Prebound(man[w].id)
      BY DEF ConnectorRunHasToken
    <2>1. Sound(man[w], tokens) /\ RunAllowed(man[w])
      BY DEF SystemInv, SoundIn
    <2> QED BY <2>1 DEF Sound, RunAllowed
  <1> QED BY <1>1, SystemInvariance, PTL
=============================================================================
