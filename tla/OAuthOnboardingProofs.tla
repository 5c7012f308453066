------------------------ MODULE OAuthOnboardingProofs ------------------------
(***************************************************************************)
(* The properties of OAuthOnboarding for any number of threads, sessions,   *)
(* connectors, calls and crashes.                                           *)
(***************************************************************************)
EXTENDS OAuthOnboarding, FiniteSetTheorems, TLAPS

USE DEF vars, threadVars, secretVars, worldVars

-----------------------------------------------------------------------------
(* The inductive invariant.                                                 *)

\* What a thread has in hand at its step.
WithCap == StartSteps \cup (CompleteSteps \ {"complete"}) \cup {"started", "pending", "enabled"}
WithSession ==
    {"putcode", "loadstart", "writestart"} \cup CompleteSteps \cup {"started", "pending", "enabled"}
WithHeld == {"writestart"} \cup (CompleteSteps \ {"complete"})
InHand ==
    \A t \in Onboarder :
        /\ step[t] \in WithCap => cap[t] \in Ids
        /\ step[t] \in WithSession => sid[t] \in Session
        /\ step[t] \in WithHeld => held[t] \in SessionFile
        /\ step[t] \in {"loadlocal", "writelocal"} => entry[t] \in Manifest
        /\ step[t] = "writelocal" => catalog[t] \in Catalog

\* A manifest whose reference to a token does not dangle.
Backed(m) == m.bound => m.id \in tokens \/ (Base[m.id] # Absent /\ Base[m.id].bound)
BackedCatalog(c) == \A i \in Ids : c[i] # Absent => Backed(c[i])

\* The copies a call is about to write back refer to stored tokens too, and the
\* token of a connector is stored before the call looks at the catalog.
CopiesBacked ==
    \A t \in Onboarder :
        /\ step[t] \in {"merged", "loadlocal", "writelocal"} => cap[t] \in tokens
        /\ step[t] \in {"loadlocal", "writelocal"} => Backed(entry[t])
        /\ step[t] = "writelocal" => BackedCatalog(catalog[t])

\* A session file, on disk or in hand, all of whose sessions can be completed.
Completable(f) == \A s \in Session : f[s] # Absent /\ s \notin codes => grant[s] = "redeemed"
CopiesCompletable ==
    \A t \in Onboarder :
        /\ step[t] \in WithHeld => Completable(held[t])
        /\ step[t] \in {"loadstart", "writestart"} =>
              sid[t] \in codes \/ grant[sid[t]] = "redeemed"

\* Past the exchange a session is redeemed, so that no other call gets there with it.
ExchangedRedeemed ==
    \A t \in Onboarder : step[t] \in Exchanged => grant[sid[t]] = "redeemed"

\* The redeemed sessions whose token is not about to be stored: each token has used
\* up one of them.
Redeemed == {s \in Session : grant[s] = "redeemed"}
Spare == {s \in Redeemed : \A t \in Onboarder : step[t] = "puttoken" => sid[t] # s}
TokensCounted ==
    /\ IsFiniteSet(Redeemed) /\ IsFiniteSet(tokens)
    /\ Cardinality(tokens) <= Cardinality(Spare)

Inv ==
    /\ TypeOK
    /\ InHand
    /\ BackedCatalog(local) /\ CopiesBacked
    /\ Completable(sessions) /\ CopiesCompletable
    /\ ExchangedRedeemed /\ OneExchange
    /\ TokensCounted

-----------------------------------------------------------------------------

LEMMA InitInv == Init => Inv
<1> SUFFICES ASSUME Init PROVE Inv
    OBVIOUS
<1> USE DEF Init, InitOnboarding
<1>1. TypeOK
    <2>1. local \in Catalog
        BY DEF EmptyCatalog, Catalog
    <2>2. calls \in 0..MaxCalls /\ crashes \in 0..MaxCrashes
        BY OnboardingBounds
    <2> QED
        BY <2>1, <2>2 DEF TypeOK, SessionFile, NoSessions
<1>2. InHand /\ CopiesBacked /\ CopiesCompletable /\ ExchangedRedeemed /\ OneExchange
    BY DEF InHand, WithCap, WithSession, WithHeld, StartSteps, CompleteSteps, CopiesBacked,
           CopiesCompletable, ExchangedRedeemed, OneExchange, Exchanged
<1>3. BackedCatalog(local) /\ Completable(sessions)
    BY DEF BackedCatalog, EmptyCatalog, Completable, NoSessions
<1>4. TokensCounted
    <2>1. Redeemed = {} /\ Spare = {}
        BY DEF Redeemed, Spare
    <2> QED
        BY <2>1, FS_EmptySet DEF TokensCounted
<1> QED
    BY <1>1, <1>2, <1>3, <1>4 DEF Inv

\* A manifest that a catalog yields under an identifier is one, and is filed there.
LEMMA MergedTyping ==
    ASSUME NEW c \in Catalog, NEW i \in Ids, Merged(c)[i] # Absent
    PROVE  /\ Merged(c)[i] \in Manifest /\ Merged(c)[i].id = i
           /\ Bound(Merged(c)[i]) \in Manifest /\ Bound(Merged(c)[i]).id = i
<1>1. Merged(c)[i] \in Manifest /\ Merged(c)[i].id = i
    BY BaseAssumption DEF Merged, Catalog
<1> QED
    BY <1>1 DEF Bound, Manifest

\* upsert_local on a copy of the catalog yields a catalog.
LEMMA PutTyping == ASSUME NEW c \in Catalog, NEW m \in Manifest PROVE Put(c, m) \in Catalog
    BY AbsentAssumption DEF Put, Catalog, Manifest

\* Writing a session into the file, or out of it, yields a file.
LEMMA WrittenTyping ==
    ASSUME NEW f \in SessionFile, NEW s \in Session, NEW i \in Ids \cup {Absent}
    PROVE  [f EXCEPT ![s] = i] \in SessionFile
    BY DEF SessionFile

LEMMA NextTypeOK == TypeOK /\ InHand /\ [Next]_vars => TypeOK'
<1> SUFFICES ASSUME TypeOK, InHand, [Next]_vars PROVE TypeOK'
    OBVIOUS
<1> USE DEF TypeOK, Goto, Step, Raise, StartSteps, CompleteSteps, Replies
<1>1. ASSUME NEW t \in Onboarder, CallStart(t) \/ CallComplete(t) PROVE TypeOK'
    <2>1. crossed' \in SUBSET Onboarder
        BY <1>1 DEF CallStart, CallComplete, Cross, Busy
    <2> QED
        BY <1>1, <2>1, OnboardingBounds DEF CallStart, CallComplete
<1>2. ASSUME NEW t \in Onboarder, StartCheck(t) \/ StartDevice(t) \/ StartLoad(t) PROVE TypeOK'
    BY <1>2 DEF StartCheck, StartDevice, StartLoad
<1>3. ASSUME NEW t \in Onboarder, StartPutCode(t) \/ CompleteDropCode(t) PROVE TypeOK'
    BY <1>3 DEF StartPutCode, CompleteDropCode, InHand, WithSession
<1>4. ASSUME NEW t \in Onboarder, StartWrite(t) \/ CompleteWrite(t) PROVE TypeOK'
    <2>1. /\ held[t] \in SessionFile /\ sid[t] \in Session
          /\ step[t] = "writestart" => cap[t] \in Ids
        BY <1>4 DEF StartWrite, CompleteWrite, InHand, WithHeld, WithSession, WithCap
    <2>2. CASE StartWrite(t)
        <3>1. [held[t] EXCEPT ![sid[t]] = cap[t]] \in SessionFile
            BY <2>1, <2>2, WrittenTyping DEF StartWrite
        <3> QED
            BY <2>2, <3>1 DEF StartWrite
    <2>3. CASE CompleteWrite(t)
        <3>1. [held[t] EXCEPT ![sid[t]] = Absent] \in SessionFile
            BY <2>1, WrittenTyping
        <3> QED
            BY <2>3, <3>1 DEF CompleteWrite
    <2> QED
        BY <1>4, <2>2, <2>3
<1>5. ASSUME NEW t \in Onboarder, CompleteLoad(t) PROVE TypeOK'
    <2>1. sid[t] \in Session
        BY <1>5 DEF CompleteLoad, InHand, WithSession
    <2>2. sessions[sid[t]] \in Ids \cup {Absent}
        BY <2>1 DEF SessionFile
    <2> QED
        BY <1>5, <2>2 DEF CompleteLoad
<1>6. ASSUME NEW t \in Onboarder, CompleteGetCode(t) \/ CompleteToken(t) PROVE TypeOK'
    BY <1>6 DEF CompleteGetCode, CompleteToken
<1>7. ASSUME NEW t \in Onboarder, CompletePutToken(t) \/ CompleteLoadLocal(t) PROVE TypeOK'
    BY <1>7 DEF CompletePutToken, CompleteLoadLocal, InHand, WithCap
<1>8. ASSUME NEW t \in Onboarder, CompleteMerged(t) PROVE TypeOK'
    BY <1>8, MergedTyping DEF CompleteMerged, InHand, WithCap
<1>9. ASSUME NEW t \in Onboarder, CompleteWriteLocal(t) PROVE TypeOK'
    <2>1. local' \in Catalog
        BY <1>9, PutTyping DEF CompleteWriteLocal, InHand
    <2> QED
        BY <1>9, <2>1 DEF CompleteWriteLocal
<1>10. ASSUME NEW t \in Onboarder, Reply(t) PROVE TypeOK'
    BY <1>10 DEF Reply
<1>11. CASE World
    BY <1>11 DEF World, Decide, Expire
<1>12. CASE Crash
    BY <1>12, OnboardingBounds DEF Crash, ThreadsIdle
<1>13. CASE UNCHANGED vars
    BY <1>13
<1> QED
    BY <1>1, <1>2, <1>3, <1>4, <1>5, <1>6, <1>7, <1>8, <1>9, <1>10, <1>11, <1>12, <1>13
    DEF Next, Onboard

LEMMA NextInHand == TypeOK /\ InHand /\ [Next]_vars => InHand'
<1> SUFFICES ASSUME TypeOK, InHand, [Next]_vars PROVE InHand'
    OBVIOUS
<1> USE DEF TypeOK, InHand, Goto, Step, Raise, StartSteps, CompleteSteps, Replies,
            WithCap, WithSession, WithHeld
<1>1. ASSUME NEW t \in Onboarder, CallStart(t) \/ CallComplete(t) PROVE InHand'
    BY <1>1 DEF CallStart, CallComplete
<1>2. ASSUME NEW t \in Onboarder,
             StartCheck(t) \/ StartDevice(t) \/ StartLoad(t) \/ StartPutCode(t) \/ StartWrite(t)
      PROVE  InHand'
    BY <1>2 DEF StartCheck, StartDevice, StartLoad, StartPutCode, StartWrite
<1>3. ASSUME NEW t \in Onboarder, CompleteLoad(t) PROVE InHand'
    BY <1>3 DEF CompleteLoad, SessionFile
<1>4. ASSUME NEW t \in Onboarder,
             CompleteGetCode(t) \/ CompleteToken(t) \/ CompletePutToken(t) \/ CompleteLoadLocal(t)
      PROVE  InHand'
    BY <1>4 DEF CompleteGetCode, CompleteToken, CompletePutToken, CompleteLoadLocal
<1>5. ASSUME NEW t \in Onboarder, CompleteMerged(t) PROVE InHand'
    BY <1>5, MergedTyping DEF CompleteMerged
<1>6. ASSUME NEW t \in Onboarder,
             CompleteWriteLocal(t) \/ CompleteDropCode(t) \/ CompleteWrite(t) \/ Reply(t)
      PROVE  InHand'
    BY <1>6 DEF CompleteWriteLocal, CompleteDropCode, CompleteWrite, Reply
<1>7. CASE World
    BY <1>7 DEF World, Decide, Expire
<1>8. CASE Crash
    BY <1>8 DEF Crash, ThreadsIdle
<1>9. CASE UNCHANGED vars
    BY <1>9
<1> QED
    BY <1>1, <1>2, <1>3, <1>4, <1>5, <1>6, <1>7, <1>8, <1>9 DEF Next, Onboard

\* Tokens are never deleted.
LEMMA TokensKept == [Next]_vars => tokens \subseteq tokens'
<1> SUFFICES ASSUME Next PROVE tokens \subseteq tokens'
    OBVIOUS
<1>1. ASSUME NEW t \in Onboarder, Onboard(t) PROVE tokens \subseteq tokens'
    BY <1>1 DEF Onboard, StartCheck, StartDevice, StartPutCode, StartLoad, StartWrite,
                CompleteLoad, CompleteGetCode, CompleteToken, CompletePutToken, CompleteMerged,
                CompleteLoadLocal, CompleteWriteLocal, CompleteDropCode, CompleteWrite, Reply
<1> QED
    BY <1>1 DEF Next, Crash, World, Decide, Expire, CallStart, CallComplete

\* An entry in a catalog of backed ones is replaced by a backed one.
LEMMA PutBacked ==
    ASSUME NEW c \in Catalog, BackedCatalog(c), NEW m \in Manifest, Backed(m)
    PROVE  BackedCatalog(Put(c, m))
    BY DEF BackedCatalog, Put, Catalog, Manifest

\* What the catalog yields is backed, since what is shipped with a reference counts.
LEMMA MergedBacked ==
    ASSUME NEW c \in Catalog, BackedCatalog(c), NEW i \in Ids, Merged(c)[i] # Absent
    PROVE  Backed(Merged(c)[i])
<1>1. CASE c[i] # Absent
    BY <1>1 DEF BackedCatalog, Merged
<1>2. CASE c[i] = Absent
    BY <1>2, BaseAssumption DEF Merged, Backed, Catalog
<1> QED
    BY <1>1, <1>2

\* No call makes a reference dangle, whichever copy of the catalog it writes back.
LEMMA NextBacked ==
    TypeOK /\ InHand /\ BackedCatalog(local) /\ CopiesBacked /\ [Next]_vars =>
        BackedCatalog(local)' /\ CopiesBacked'
<1> SUFFICES ASSUME TypeOK, InHand, BackedCatalog(local), CopiesBacked, [Next]_vars
             PROVE  BackedCatalog(local)' /\ CopiesBacked'
    OBVIOUS
<1>1. tokens \subseteq tokens'
    BY TokensKept
<1> USE DEF TypeOK, Goto, Step, Raise
<1>3. ASSUME NEW t \in Onboarder, CompleteWriteLocal(t) PROVE BackedCatalog(local)' /\ CopiesBacked'
    <2>1. BackedCatalog(Put(catalog[t], entry[t]))
        BY <1>3, PutBacked DEF CompleteWriteLocal, InHand, CopiesBacked
    <2>2. BackedCatalog(local)'
        BY <1>3, <2>1 DEF CompleteWriteLocal, BackedCatalog, Backed
    <2> QED
        BY <1>3, <2>2 DEF CompleteWriteLocal, CopiesBacked, BackedCatalog, Backed
<1>4. ASSUME NEW t \in Onboarder, CompleteMerged(t) PROVE BackedCatalog(local)' /\ CopiesBacked'
    <2> DEFINE m == Merged(local)[cap[t]]
    <2>1. /\ cap[t] \in Ids /\ cap[t] \in tokens /\ UNCHANGED <<local, tokens, cap, catalog>>
          /\ step[t] = "merged"
          /\ \A u \in Onboarder \ {t} : step'[u] = step[u] /\ entry'[u] = entry[u]
        BY <1>4 DEF CompleteMerged, InHand, WithCap, CompleteSteps, CopiesBacked
    <2>2. step'[t] = "loadlocal" => m # Absent /\ entry'[t] = Bound(m)
        BY <1>4 DEF CompleteMerged
    <2>3. step'[t] = "loadlocal" => Backed(entry[t])'
        BY <2>1, <2>2, MergedTyping DEF Backed
    <2>4. step'[t] \in {"loadlocal", "failed"}
        BY <1>4 DEF CompleteMerged
    <2> QED
        BY <2>1, <2>3, <2>4 DEF CopiesBacked, BackedCatalog, Backed
<1>5. ASSUME NEW t \in Onboarder, CompletePutToken(t) PROVE BackedCatalog(local)' /\ CopiesBacked'
    BY <1>1, <1>5 DEF CompletePutToken, CopiesBacked, BackedCatalog, Backed
<1>6. ASSUME NEW t \in Onboarder, CompleteLoadLocal(t) PROVE BackedCatalog(local)' /\ CopiesBacked'
    BY <1>6 DEF CompleteLoadLocal, CopiesBacked, BackedCatalog, Backed
<1>7. ASSUME NEW t \in Onboarder,
             CallStart(t) \/ CallComplete(t) \/ StartCheck(t) \/ StartDevice(t) \/ StartPutCode(t)
             \/ StartLoad(t) \/ StartWrite(t) \/ CompleteLoad(t) \/ CompleteGetCode(t)
             \/ CompleteToken(t) \/ CompleteDropCode(t) \/ CompleteWrite(t) \/ Reply(t)
      PROVE  BackedCatalog(local)' /\ CopiesBacked'
    <2>1. UNCHANGED <<local, tokens>>
        BY <1>7 DEF CallStart, CallComplete, StartCheck, StartDevice, StartPutCode,
                    StartLoad, StartWrite, CompleteLoad, CompleteGetCode, CompleteToken,
                    CompleteDropCode, CompleteWrite, Reply
    <2>2. /\ step'[t] \notin {"merged", "loadlocal", "writelocal"}
          /\ \A u \in Onboarder \ {t} : /\ step'[u] = step[u] /\ cap'[u] = cap[u]
                                        /\ catalog'[u] = catalog[u] /\ entry'[u] = entry[u]
        BY <1>7 DEF CallStart, CallComplete, StartCheck, StartDevice, StartPutCode,
                    StartLoad, StartWrite, CompleteLoad, CompleteGetCode, CompleteToken,
                    CompleteDropCode, CompleteWrite, Reply
    <2> QED
        BY <2>1, <2>2 DEF CopiesBacked, BackedCatalog, Backed
<1>8. CASE World \/ Crash \/ UNCHANGED vars
    BY <1>8 DEF World, Decide, Expire, Crash, ThreadsIdle, CopiesBacked, BackedCatalog, Backed
<1> QED
    BY <1>3, <1>4, <1>5, <1>6, <1>7, <1>8 DEF Next, Onboard

\* A redeemed device code stays redeemed.
LEMMA RedeemedStays ==
    TypeOK /\ [Next]_vars =>
        \A s \in Session : grant[s] = "redeemed" => grant'[s] = "redeemed"
<1> SUFFICES ASSUME TypeOK, Next, NEW s \in Session, grant[s] = "redeemed"
             PROVE  grant'[s] = "redeemed"
    OBVIOUS
<1> USE DEF TypeOK
<1>1. ASSUME NEW t \in Onboarder, CompleteToken(t) \/ StartDevice(t) PROVE grant'[s] = "redeemed"
    BY <1>1 DEF CompleteToken, StartDevice
<1>2. ASSUME NEW t \in Onboarder, Onboard(t), ~CompleteToken(t), ~StartDevice(t)
      PROVE  grant'[s] = "redeemed"
    BY <1>2 DEF Onboard, StartCheck, StartPutCode, StartLoad, StartWrite,
                CompleteLoad, CompleteGetCode, CompletePutToken, CompleteMerged,
                CompleteLoadLocal, CompleteWriteLocal, CompleteDropCode, CompleteWrite, Reply
<1>3. CASE World
    BY <1>3 DEF World, Decide, Expire
<1> QED
    BY <1>1, <1>2, <1>3 DEF Next, Crash, CallStart, CallComplete

\* A call enters the steps behind the exchange by redeeming its session's code.
LEMMA NextExchanged ==
    TypeOK /\ InHand /\ ExchangedRedeemed /\ OneExchange /\ [Next]_vars =>
        ExchangedRedeemed' /\ OneExchange'
<1> SUFFICES ASSUME TypeOK, InHand, ExchangedRedeemed, OneExchange, [Next]_vars
             PROVE  ExchangedRedeemed' /\ OneExchange'
    OBVIOUS
<1> USE DEF TypeOK, Goto, Step, Raise, Exchanged
<1>1. ASSUME NEW t \in Onboarder, CompleteToken(t) PROVE ExchangedRedeemed' /\ OneExchange'
    <2>1. /\ sid[t] \in Session /\ sid' = sid /\ step[t] = "token"
          /\ \A u \in Onboarder \ {t} : step'[u] = step[u]
        BY <1>1 DEF CompleteToken, InHand, WithSession, CompleteSteps
    <2>2. step'[t] \in Exchanged => grant[sid[t]] = "approved" /\ grant'[sid[t]] = "redeemed"
        BY <1>1, <2>1 DEF CompleteToken
    <2>3. ExchangedRedeemed'
        BY <2>1, <2>2, RedeemedStays, InHand DEF ExchangedRedeemed, InHand, WithSession,
           CompleteSteps
    <2>4. \A u \in Onboarder \ {t} :
              step'[t] \in Exchanged /\ step'[u] \in Exchanged => sid[u] # sid[t]
        BY <2>1, <2>2 DEF ExchangedRedeemed
    <2> QED
        BY <2>1, <2>3, <2>4 DEF OneExchange
<1>2. ASSUME NEW t \in Onboarder,
             CallStart(t) \/ CallComplete(t) \/ StartCheck(t) \/ StartDevice(t) \/ StartPutCode(t)
             \/ StartLoad(t) \/ StartWrite(t) \/ CompleteLoad(t) \/ CompleteGetCode(t)
             \/ CompletePutToken(t) \/ CompleteMerged(t) \/ CompleteLoadLocal(t)
             \/ CompleteWriteLocal(t) \/ CompleteDropCode(t) \/ CompleteWrite(t) \/ Reply(t)
      PROVE  ExchangedRedeemed' /\ OneExchange'
    <2>1. /\ step'[t] \in Exchanged => step[t] \in Exchanged /\ sid'[t] = sid[t]
          /\ \A u \in Onboarder \ {t} : step'[u] = step[u] /\ sid'[u] = sid[u]
        BY <1>2 DEF CallStart, CallComplete, StartCheck, StartDevice, StartPutCode,
                    StartLoad, StartWrite, CompleteLoad, CompleteGetCode, CompletePutToken,
                    CompleteMerged, CompleteLoadLocal, CompleteWriteLocal, CompleteDropCode,
                    CompleteWrite, Reply
    <2>2. ExchangedRedeemed'
        BY <2>1, RedeemedStays DEF ExchangedRedeemed, InHand, WithSession, CompleteSteps
    <2> QED
        BY <2>1, <2>2 DEF OneExchange
<1>3. CASE World \/ UNCHANGED vars
    <2>1. UNCHANGED <<step, sid>>
        BY <1>3 DEF World, Decide, Expire
    <2> QED
        BY <2>1, RedeemedStays DEF ExchangedRedeemed, OneExchange, InHand, WithSession,
                                   CompleteSteps
<1>4. CASE Crash
    BY <1>4 DEF Crash, ThreadsIdle, ExchangedRedeemed, OneExchange
<1> QED
    BY <1>1, <1>2, <1>3, <1>4 DEF Next, Onboard

\* A file of sessions that can be completed stays one while none of their codes is
\* deleted that the provider has not redeemed.
LEMMA CompletableKept ==
    ASSUME TypeOK, [Next]_vars, \A s \in codes \ codes' : grant[s] = "redeemed",
           NEW f, Completable(f)
    PROVE  \A s \in Session : f[s] # Absent /\ s \notin codes' => grant'[s] = "redeemed"
    BY RedeemedStays DEF Completable

\* A code is deleted by the last steps of a completion only.
LEMMA CodesDropped ==
    TypeOK /\ ExchangedRedeemed /\ [Next]_vars =>
        \A s \in codes \ codes' : grant[s] = "redeemed"
<1> SUFFICES ASSUME TypeOK, ExchangedRedeemed, Next, NEW s \in codes \ codes'
             PROVE  grant[s] = "redeemed"
    OBVIOUS
<1>1. ASSUME NEW t \in Onboarder, CompleteDropCode(t) PROVE grant[s] = "redeemed"
    BY <1>1 DEF CompleteDropCode, ExchangedRedeemed, Exchanged, TypeOK
<1>2. ASSUME NEW t \in Onboarder, Onboard(t), ~CompleteDropCode(t) PROVE grant[s] = "redeemed"
    BY <1>2 DEF Onboard, StartCheck, StartDevice, StartPutCode, StartLoad, StartWrite,
                CompleteLoad, CompleteGetCode, CompleteToken, CompletePutToken, CompleteMerged,
                CompleteLoadLocal, CompleteWriteLocal, CompleteWrite, Reply
<1> QED
    BY <1>1, <1>2 DEF Next, Crash, World, Decide, Expire, CallStart, CallComplete

\* Every copy of the session file keeps to sessions that can be completed.
LEMMA NextCompletable ==
    TypeOK /\ InHand /\ Completable(sessions) /\ CopiesCompletable /\ ExchangedRedeemed
        /\ [Next]_vars
    => Completable(sessions)' /\ CopiesCompletable'
<1> SUFFICES ASSUME TypeOK, InHand, Completable(sessions), CopiesCompletable,
                    ExchangedRedeemed, [Next]_vars
             PROVE  Completable(sessions)' /\ CopiesCompletable'
    OBVIOUS
<1> DEFINE Kept(f) == \A s \in Session : f[s] # Absent /\ s \notin codes' => grant'[s] = "redeemed"
<1>1. \A s \in codes \ codes' : grant[s] = "redeemed"
    BY CodesDropped
<1>2. ASSUME NEW f, Completable(f) PROVE Kept(f)
    BY <1>1, <1>2, CompletableKept
<1>3. \A s \in Session : s \in codes \/ grant[s] = "redeemed" =>
                         s \in codes' \/ grant'[s] = "redeemed"
    BY <1>1, RedeemedStays
<1> HIDE DEF Kept
<1> SUFFICES /\ Kept(sessions')
             /\ \A u \in Onboarder :
                  /\ step'[u] \in WithHeld => Kept(held'[u])
                  /\ step'[u] \in {"loadstart", "writestart"} =>
                        sid'[u] \in codes' \/ grant'[sid'[u]] = "redeemed"
    BY DEF Kept, Completable, CopiesCompletable
<1>4. Kept(sessions)
    BY <1>2
<1>5. ASSUME NEW u \in Onboarder, step'[u] = step[u], held'[u] = held[u], sid'[u] = sid[u]
      PROVE  /\ step'[u] \in WithHeld => Kept(held'[u])
             /\ step'[u] \in {"loadstart", "writestart"} =>
                    sid'[u] \in codes' \/ grant'[sid'[u]] = "redeemed"
    BY <1>2, <1>3, <1>5 DEF CopiesCompletable, InHand, WithSession
<1> USE DEF TypeOK, Goto, Step, Raise, WithHeld, CompleteSteps
<1>6. ASSUME NEW t \in Onboarder, StartWrite(t) PROVE Kept(sessions')
    <2>1. /\ sid[t] \in codes \/ grant[sid[t]] = "redeemed"
          /\ Completable(held[t]) /\ held[t] \in SessionFile
        BY <1>6 DEF StartWrite, CopiesCompletable, InHand
    <2>2. Completable([held[t] EXCEPT ![sid[t]] = cap[t]])
        BY <2>1 DEF Completable, SessionFile
    <2> QED
        BY <1>2, <1>4, <1>6, <2>2 DEF StartWrite
<1>7. ASSUME NEW t \in Onboarder, CompleteWrite(t) PROVE Kept(sessions')
    <2>1. Completable(held[t]) /\ held[t] \in SessionFile
        BY <1>7 DEF CompleteWrite, CopiesCompletable, InHand
    <2>2. Completable([held[t] EXCEPT ![sid[t]] = Absent])
        BY <2>1 DEF Completable, SessionFile
    <2> QED
        BY <1>2, <1>4, <1>7, <2>2 DEF CompleteWrite
<1>8. ASSUME NEW t \in Onboarder, StartLoad(t) \/ CompleteLoad(t) \/ StartPutCode(t)
      PROVE  /\ sessions' = sessions
             /\ step'[t] \in WithHeld => Kept(held'[t])
             /\ step'[t] \in {"loadstart", "writestart"} =>
                    sid'[t] \in codes' \/ grant'[sid'[t]] = "redeemed"
    <2>1. CASE StartLoad(t)
        BY <1>3, <1>4, <2>1 DEF StartLoad, CopiesCompletable, InHand, WithSession
    <2>2. CASE CompleteLoad(t)
        BY <1>4, <2>2 DEF CompleteLoad
    <2>3. CASE StartPutCode(t)
        BY <2>3 DEF StartPutCode
    <2> QED
        BY <1>8, <2>1, <2>2, <2>3
<1>9. ASSUME NEW t \in Onboarder,
             CallStart(t) \/ CallComplete(t) \/ Onboard(t),
             ~ (StartPutCode(t) \/ StartLoad(t) \/ CompleteLoad(t))
      PROVE  /\ step'[t] \in WithHeld => step[t] \in WithHeld /\ held'[t] = held[t]
             /\ step'[t] \notin {"loadstart", "writestart"}
    BY <1>9 DEF Onboard, CallStart, CallComplete, StartCheck, StartDevice, StartWrite,
                CompleteGetCode, CompleteToken, CompletePutToken, CompleteMerged,
                CompleteLoadLocal, CompleteWriteLocal, CompleteDropCode, CompleteWrite,
                Reply, Replies
<1>10. ASSUME NEW t \in Onboarder, CallStart(t) \/ CallComplete(t) \/ Onboard(t)
       PROVE  \A u \in Onboarder \ {t} : step'[u] = step[u] /\ held'[u] = held[u] /\ sid'[u] = sid[u]
    BY <1>10 DEF Onboard, CallStart, CallComplete, StartCheck, StartDevice, StartPutCode,
                 StartLoad, StartWrite, CompleteLoad, CompleteGetCode, CompleteToken,
                 CompletePutToken, CompleteMerged, CompleteLoadLocal, CompleteWriteLocal,
                 CompleteDropCode, CompleteWrite, Reply
<1>11. ASSUME NEW t \in Onboarder, CallStart(t) \/ CallComplete(t) \/ Onboard(t),
              ~ (StartWrite(t) \/ CompleteWrite(t))
       PROVE  sessions' = sessions
    BY <1>11 DEF Onboard, CallStart, CallComplete, StartCheck, StartDevice, StartPutCode,
                 StartLoad, CompleteLoad, CompleteGetCode, CompleteToken,
                 CompletePutToken, CompleteMerged, CompleteLoadLocal, CompleteWriteLocal,
                 CompleteDropCode, Reply
<1>12. ASSUME NEW t \in Onboarder, CallStart(t) \/ CallComplete(t) \/ Onboard(t)
       PROVE  /\ Kept(sessions')
              /\ step'[t] \in WithHeld => Kept(held'[t])
              /\ step'[t] \in {"loadstart", "writestart"} =>
                     sid'[t] \in codes' \/ grant'[sid'[t]] = "redeemed"
    <2>1. Kept(sessions')
        BY <1>4, <1>6, <1>7, <1>11, <1>12
    <2>2. step[t] \in WithHeld => Kept(held[t])
        BY <1>2 DEF CopiesCompletable
    <2> QED
        BY <1>8, <1>9, <1>12, <2>1, <2>2
<1>13. CASE World \/ UNCHANGED vars
    BY <1>4, <1>5, <1>13 DEF World, Decide, Expire
<1>14. CASE Crash
    BY <1>4, <1>14 DEF Crash, ThreadsIdle
<1> QED
    BY <1>5, <1>10, <1>12, <1>13, <1>14 DEF Next

\* The tokens are counted against the spare sessions: one that is about to get its
\* token stored was not spare before, and is afterwards.
LEMMA NextTokensCounted ==
    TypeOK /\ InHand /\ ExchangedRedeemed /\ OneExchange /\ TokensCounted /\ [Next]_vars =>
        TokensCounted'
<1> SUFFICES ASSUME TypeOK, InHand, ExchangedRedeemed, OneExchange, TokensCounted, [Next]_vars
             PROVE  TokensCounted'
    OBVIOUS
<1>1. Redeemed \subseteq Redeemed'
    BY RedeemedStays DEF Redeemed
<1>2. IsFiniteSet(Redeemed) /\ IsFiniteSet(Spare) /\ Cardinality(Spare) \in Nat
    <2>1. IsFiniteSet(Redeemed) /\ Spare \subseteq Redeemed
        BY DEF TokensCounted, Spare
    <2> QED
        BY <2>1, FS_Subset, FS_CardinalityType
<1>3. IsFiniteSet(tokens) /\ Cardinality(tokens) \in Nat
    BY FS_CardinalityType DEF TokensCounted
<1>4. ASSUME IsFiniteSet(Redeemed'), Spare \subseteq Spare', tokens' = tokens
      PROVE  TokensCounted'
    <2>1. IsFiniteSet(Spare') /\ Cardinality(Spare') \in Nat
        <3>1. Spare' \subseteq Redeemed'
            BY DEF Spare
        <3> QED
            BY <1>4, <3>1, FS_Subset, FS_CardinalityType
    <2>2. Cardinality(Spare) <= Cardinality(Spare')
        BY <1>4, <2>1, FS_Subset
    <2> QED
        BY <1>2, <1>3, <1>4, <2>1, <2>2 DEF TokensCounted
<1> USE DEF TypeOK, Goto, Step, Raise
<1>5. ASSUME NEW t \in Onboarder, CompletePutToken(t) PROVE TokensCounted'
    <2> DEFINE s == sid[t]
    <2>1. /\ step[t] = "puttoken" /\ s \in Redeemed
          /\ UNCHANGED <<grant, sid>>
          /\ step'[t] # "puttoken" /\ \A u \in Onboarder \ {t} : step'[u] = step[u]
          /\ tokens' \subseteq tokens \cup {cap[t]}
        BY <1>5 DEF CompletePutToken, ExchangedRedeemed, Exchanged, InHand, WithSession,
                    CompleteSteps, Redeemed
    <2>2. Redeemed' = Redeemed
        BY <2>1 DEF Redeemed
    <2>3. s \notin Spare
        BY <2>1 DEF Spare
    <2>4. Spare \cup {s} \subseteq Spare' /\ Spare' \subseteq Redeemed
        BY <2>1, <2>2 DEF Spare, OneExchange, Exchanged
    <2>5. IsFiniteSet(Spare') /\ Cardinality(Spare') \in Nat
        BY <1>2, <2>4, FS_Subset, FS_CardinalityType
    <2>6. Cardinality(Spare) + 1 <= Cardinality(Spare')
        <3>1. Cardinality(Spare \cup {s}) = Cardinality(Spare) + 1
            BY <1>2, <2>3, FS_AddElement
        <3>2. Cardinality(Spare \cup {s}) <= Cardinality(Spare')
            BY <2>4, <2>5, FS_Subset
        <3> QED
            BY <3>1, <3>2
    <2>7. IsFiniteSet(tokens') /\ Cardinality(tokens') \in Nat
          /\ Cardinality(tokens') <= Cardinality(tokens) + 1
        <3>1. /\ IsFiniteSet(tokens \cup {cap[t]})
              /\ Cardinality(tokens \cup {cap[t]}) \in {Cardinality(tokens), Cardinality(tokens) + 1}
            BY <1>3, FS_AddElement
        <3>2. IsFiniteSet(tokens') /\ Cardinality(tokens') <= Cardinality(tokens \cup {cap[t]})
            BY <2>1, <3>1, FS_Subset
        <3>3. Cardinality(tokens') \in Nat
            BY <3>2, FS_CardinalityType
        <3> QED
            BY <1>3, <3>1, <3>2, <3>3
    <2> QED
        BY <1>2, <1>3, <2>2, <2>5, <2>6, <2>7 DEF TokensCounted
<1>6. ASSUME NEW t \in Onboarder, CompleteToken(t) PROVE TokensCounted'
    <2>1. /\ step[t] = "token" /\ sid' = sid /\ tokens' = tokens
          /\ \A u \in Onboarder \ {t} : step'[u] = step[u]
          /\ step'[t] = "puttoken" => grant[sid[t]] # "redeemed"
        BY <1>6 DEF CompleteToken
    <2>2. Redeemed' \subseteq Redeemed \cup {sid[t]}
        BY <1>6 DEF CompleteToken, Redeemed
    <2>3. IsFiniteSet(Redeemed')
        <3>1. IsFiniteSet(Redeemed \cup {sid[t]})
            BY <1>2, FS_AddElement
        <3> QED
            BY <2>2, <3>1, FS_Subset
    <2>4. Spare \subseteq Spare'
        BY <1>1, <2>1 DEF Spare, Redeemed
    <2> QED
        BY <1>4, <2>1, <2>3, <2>4
<1>7. ASSUME NEW t \in Onboarder,
             CallStart(t) \/ CallComplete(t) \/ StartCheck(t) \/ StartDevice(t) \/ StartPutCode(t)
             \/ StartLoad(t) \/ StartWrite(t) \/ CompleteLoad(t) \/ CompleteGetCode(t)
             \/ CompleteMerged(t) \/ CompleteLoadLocal(t) \/ CompleteWriteLocal(t)
             \/ CompleteDropCode(t) \/ CompleteWrite(t) \/ Reply(t)
      PROVE  TokensCounted'
    <2>1. /\ tokens' = tokens /\ Redeemed' = Redeemed
          /\ step'[t] # "puttoken"
          /\ \A u \in Onboarder \ {t} : step'[u] = step[u] /\ sid'[u] = sid[u]
        <3>1. CASE StartDevice(t)
            BY <1>1, <3>1 DEF StartDevice, Redeemed
        <3>2. CASE ~StartDevice(t)
            BY <1>7, <3>2 DEF CallStart, CallComplete, StartCheck, StartPutCode,
                    StartLoad, StartWrite, CompleteLoad, CompleteGetCode,
                    CompleteMerged, CompleteLoadLocal, CompleteWriteLocal, CompleteDropCode,
                    CompleteWrite, Reply, Redeemed
        <3> QED
            BY <3>1, <3>2
    <2>2. Spare \subseteq Spare'
        BY <2>1 DEF Spare
    <2> QED
        BY <1>2, <1>4, <2>1, <2>2
<1>8. CASE World \/ Crash \/ UNCHANGED vars
    <2>1. /\ tokens' = tokens /\ Redeemed' = Redeemed
          /\ \A u \in Onboarder : step'[u] = "puttoken" => step[u] = "puttoken" /\ sid'[u] = sid[u]
        BY <1>8 DEF World, Decide, Expire, Crash, ThreadsIdle, Redeemed
    <2>2. Spare \subseteq Spare'
        BY <2>1 DEF Spare
    <2> QED
        BY <1>2, <1>4, <2>1, <2>2
<1> QED
    BY <1>5, <1>6, <1>7, <1>8 DEF Next, Onboard

LEMMA NextInv == Inv /\ [Next]_vars => Inv'
    BY NextTypeOK, NextInHand, NextBacked, NextCompletable, NextExchanged, NextTokensCounted
    DEF Inv

\* The invariant holds of every behaviour of the onboarding threads.
THEOREM Invariance == Spec => []Inv
    BY InitInv, NextInv, PTL DEF Spec

\* Every variable keeps its type, for any number of calls and crashes.
THEOREM TypesHold == Spec => []TypeOK
    BY Invariance, PTL DEF Inv

\* A catalog entry that refers to a refresh token refers to one the secrets backend
\* holds, although no call takes a lock and any write may fail half way.
THEOREM BindingsHaveTokens == Spec => []BindingHasToken
<1>1. ASSUME Inv PROVE BindingHasToken
    <2> SUFFICES ASSUME NEW i \in Ids, local[i] # Absent, local[i].bound
                 PROVE  i \in tokens \/ (Base[i] # Absent /\ Base[i].bound)
        BY DEF BindingHasToken
    <2>1. local[i].id = i
        BY <1>1 DEF Inv, TypeOK, Catalog
    <2> QED
        BY <1>1, <2>1 DEF Inv, BackedCatalog, Backed
<1> QED
    BY <1>1, Invariance, PTL

\* A session on file can be completed as long as the provider has not redeemed it:
\* its device code is there.
THEOREM SessionsHaveCodes == Spec => []SessionHasCode
<1>1. Inv => SessionHasCode
    BY DEF Inv, Completable, SessionHasCode
<1> QED
    BY <1>1, Invariance, PTL

\* There are no more refresh tokens than approvals the provider has redeemed.
THEOREM TokensGranted == Spec => []TokensWereGranted
<1>1. ASSUME Inv PROVE TokensWereGranted
    <2>1. IsFiniteSet(Redeemed) /\ IsFiniteSet(tokens) /\ Spare \subseteq Redeemed
          /\ Cardinality(tokens) <= Cardinality(Spare)
        BY <1>1 DEF Inv, TokensCounted, Spare
    <2>2. Cardinality(Spare) <= Cardinality(Redeemed) /\ IsFiniteSet(Spare)
        BY <2>1, FS_Subset
    <2>3. /\ Cardinality(tokens) \in Nat /\ Cardinality(Spare) \in Nat
          /\ Cardinality(Redeemed) \in Nat
        BY <2>1, <2>2, FS_CardinalityType
    <2>4. Cardinality(tokens) <= Cardinality(Redeemed)
        BY <2>1, <2>2, <2>3
    <2> QED
        BY <2>4 DEF TokensWereGranted, Redeemed
<1> QED
    BY <1>1, Invariance, PTL

\* Of two calls that complete one session at most one gets past the exchange.
THEOREM OneExchangeEach == Spec => []OneExchange
    BY Invariance, PTL DEF Inv

-----------------------------------------------------------------------------
(* The handlers keep no lock, so what a reply says of the files holds of a   *)
(* call that no other call overlapped: nobody else wrote while it was at it. *)

\* Calls that are under way at once have crossed.
Met ==
    \A t, u \in Onboarder :
        t # u /\ step[t] # "idle" /\ step[u] # "idle" => t \in crossed /\ u \in crossed

\* An entry of the catalog through which its connector may be run.
InUse(m) == m # Absent /\ m.enabled = "true" /\ m.bound

\* How far a call has got with its session and its catalog entry.
Got(t) ==
    /\ step[t] \in {"loadlocal", "writelocal"} => entry[t].id = cap[t] /\ InUse(entry[t])
    /\ step[t] \in {"dropcode", "writesessions", "enabled"} =>
          cap[t] \in tokens /\ InUse(local[cap[t]])
    /\ step[t] \in {"loadstart", "writestart", "started", "token", "pending"} =>
          sid[t] \in codes
    /\ step[t] \in {"started", "getcode", "token", "pending"} => sessions[sid[t]] = cap[t]
    /\ step[t] \in {"writesessions", "enabled"} => sid[t] \notin codes
    /\ step[t] = "enabled" => sessions[sid[t]] = Absent

AloneInv == Met /\ \A t \in Alone : Got(t)

\* A step of a call takes it on, and no thread is back in the pool but by Reply.
LEMMA OwnStep ==
    ASSUME TypeOK, NEW t \in Onboarder, CallStart(t) \/ CallComplete(t) \/ Onboard(t)
    PROVE  /\ step' = [step EXCEPT ![t] = step'[t]]
           /\ \/ CallStart(t) \/ CallComplete(t)
              \/ step[t] # "idle" /\ Reply(t)
              \/ step[t] # "idle" /\ crossed' = crossed
<1> USE DEF TypeOK, Goto, Step, Raise, Replies
<1>1. CASE CallStart(t) \/ CallComplete(t)
    BY <1>1 DEF CallStart, CallComplete
<1>2. CASE StartCheck(t) \/ StartDevice(t) \/ StartPutCode(t) \/ StartLoad(t) \/ StartWrite(t)
    BY <1>2 DEF StartCheck, StartDevice, StartPutCode, StartLoad, StartWrite
<1>3. CASE CompleteLoad(t) \/ CompleteGetCode(t) \/ CompleteToken(t) \/ CompletePutToken(t)
    BY <1>3 DEF CompleteLoad, CompleteGetCode, CompleteToken, CompletePutToken
<1>4. CASE \/ CompleteMerged(t) \/ CompleteLoadLocal(t) \/ CompleteWriteLocal(t)
           \/ CompleteDropCode(t) \/ CompleteWrite(t)
    BY <1>4 DEF CompleteMerged, CompleteLoadLocal, CompleteWriteLocal, CompleteDropCode,
                CompleteWrite
<1>5. CASE Reply(t)
    BY <1>5 DEF Reply
<1> QED
    BY <1>1, <1>2, <1>3, <1>4, <1>5 DEF Onboard

\* Whoever starts while others run has crossed with all of them.
LEMMA MetStep ==
    ASSUME TypeOK, Met, NEW t \in Onboarder, CallStart(t) \/ CallComplete(t) \/ Onboard(t)
    PROVE  /\ Met'
           /\ \A u \in Alone' \ {t} : step'[u] = "idle"
           /\ t \in Alone' => t \in Alone \/ step'[t] = "idle"
<1> USE DEF Met, Alone, TypeOK
<1>1. CASE CallStart(t) \/ CallComplete(t)
    <2>1. CASE Busy = {}
        BY <1>1, <2>1, OwnStep DEF CallStart, CallComplete, Cross, Busy
    <2>2. CASE Busy # {}
        <3>1. crossed' = crossed \cup Busy \cup {t}
            BY <1>1, <2>2 DEF CallStart, CallComplete, Cross
        <3> QED
            BY <3>1, OwnStep DEF Busy
    <2> QED
        BY <2>1, <2>2
<1>2. CASE step[t] # "idle" /\ Reply(t)
    BY <1>2 DEF Reply, Goto
<1>3. CASE step[t] # "idle" /\ crossed' = crossed
    BY <1>3, OwnStep
<1> QED
    BY <1>1, <1>2, <1>3, OwnStep

\* A call that nobody overlaps gets further by its own steps.
LEMMA GotStep ==
    ASSUME Inv, NEW t \in Onboarder, Got(t), CallStart(t) \/ CallComplete(t) \/ Onboard(t)
    PROVE  Got(t)'
<1> USE DEF Inv, TypeOK, Goto, Step, Raise, InUse, Replies, Got
<1>1. CASE CallStart(t) \/ CallComplete(t) \/ StartCheck(t) \/ StartDevice(t) \/ Reply(t)
    BY <1>1 DEF CallStart, CallComplete, StartCheck, StartDevice, Reply
<1>2. CASE StartPutCode(t) \/ StartLoad(t)
    BY <1>2 DEF StartPutCode, StartLoad
<1>3. CASE StartWrite(t)
    BY <1>3 DEF StartWrite, InHand, WithHeld, WithSession, SessionFile
<1>4. CASE CompleteLoad(t) \/ CompleteGetCode(t) \/ CompleteToken(t)
    BY <1>4 DEF CompleteLoad, CompleteGetCode, CompleteToken
<1>5. CASE CompletePutToken(t) \/ CompleteLoadLocal(t)
    BY <1>5 DEF CompletePutToken, CompleteLoadLocal
<1>6. CASE CompleteMerged(t)
    <2>1. cap[t] \in Ids /\ step[t] = "merged"
        BY <1>6 DEF CompleteMerged, InHand, WithCap, CompleteSteps
    <2>2. CASE Merged(local)[cap[t]] = Absent
        BY <1>6, <2>1, <2>2 DEF CompleteMerged
    <2>3. CASE Merged(local)[cap[t]] # Absent
        <3> DEFINE m == Merged(local)[cap[t]]
        <3>1. m \in Manifest /\ Bound(m) \in Manifest /\ Bound(m).id = cap[t]
            BY <2>1, <2>3, MergedTyping
        <3>2. InUse(Bound(m))
            BY <3>1, AbsentAssumption DEF Bound, Manifest
        <3>3. step'[t] = "loadlocal" /\ entry'[t] = Bound(m) /\ cap' = cap
            BY <1>6, <2>3 DEF CompleteMerged
        <3> HIDE DEF m
        <3> QED
            BY <3>1, <3>2, <3>3
    <2> QED
        BY <2>2, <2>3
<1>7. CASE CompleteWriteLocal(t)
    <2>1. cap[t] \in tokens /\ cap[t] \in Ids /\ catalog[t] \in Catalog
        BY <1>7 DEF CompleteWriteLocal, CopiesBacked, InHand, WithCap, CompleteSteps
    <2>2. Put(catalog[t], entry[t])[cap[t]] = entry[t]
        BY <1>7, <2>1 DEF CompleteWriteLocal, Put, Catalog
    <2> QED
        BY <1>7, <2>1, <2>2 DEF CompleteWriteLocal
<1>8. CASE CompleteDropCode(t)
    BY <1>8 DEF CompleteDropCode
<1>9. CASE CompleteWrite(t)
    BY <1>9 DEF CompleteWrite, InHand, WithHeld, WithSession, CompleteSteps, SessionFile
<1> QED
    BY <1>1, <1>2, <1>3, <1>4, <1>5, <1>6, <1>7, <1>8, <1>9 DEF Onboard

LEMMA NextAlone == Inv /\ AloneInv /\ [Next]_vars => AloneInv'
<1> SUFFICES ASSUME Inv, AloneInv, [Next]_vars PROVE AloneInv'
    OBVIOUS
<1>1. ASSUME NEW t \in Onboarder, CallStart(t) \/ CallComplete(t) \/ Onboard(t) PROVE AloneInv'
    <2>1. /\ Met'
          /\ \A u \in Alone' \ {t} : step'[u] = "idle"
          /\ t \in Alone' => t \in Alone \/ step'[t] = "idle"
        BY <1>1, MetStep DEF Inv, AloneInv
    <2>2. ASSUME NEW u \in Onboarder, step'[u] = "idle" PROVE Got(u)'
        BY <2>2 DEF Got
    <2>3. t \in Alone => Got(t)'
        BY <1>1, GotStep DEF AloneInv
    <2> QED
        BY <2>1, <2>2, <2>3 DEF AloneInv, Alone
<1>2. CASE World \/ UNCHANGED vars
    BY <1>2 DEF World, Decide, Expire, AloneInv, Met, Alone, Got
<1>3. CASE Crash
    BY <1>3 DEF Crash, ThreadsIdle, AloneInv, Met, Alone, Got
<1> QED
    BY <1>1, <1>2, <1>3 DEF Next

LEMMA AloneInvariance == Spec => []AloneInv
<1>1. Init => AloneInv
    BY DEF Init, InitOnboarding, AloneInv, Met, Alone, Got
<1> QED
    BY <1>1, NextAlone, Invariance, PTL DEF Spec

\* A connector that a call reports enabled is enabled in the catalog and bound to
\* its token, for any number of threads, unless another call overlapped that one.
THEOREM EnabledIsInCatalog == Spec => []EnabledInCatalog
<1>1. Inv /\ AloneInv => EnabledInCatalog
    <2> SUFFICES ASSUME Inv, AloneInv, NEW t \in Alone, step[t] = "enabled"
                 PROVE  Merged(local)[cap[t]].enabled = "true" /\ Merged(local)[cap[t]].bound
        BY DEF EnabledInCatalog
    <2>1. cap[t] \in Ids
        BY DEF Inv, InHand, WithCap, Alone
    <2> QED
        BY <2>1 DEF AloneInv, Got, InUse, Merged
<1> QED
    BY <1>1, AloneInvariance, Invariance, PTL

\* A reply tells the truth unless another call overlapped: what was started or is
\* pending is on file with its code, what was enabled has its token and no session.
THEOREM RepliesAreTrue == Spec => []RepliesHold
<1>1. AloneInv => RepliesHold
    BY DEF AloneInv, Got, RepliesHold
<1> QED
    BY <1>1, AloneInvariance, PTL
=============================================================================
