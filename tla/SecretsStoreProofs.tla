------------------------- MODULE SecretsStoreProofs -------------------------
(* The secrets backend's inductive invariant, and its refinement of an atomic *)
(* map.                                                                       *)
EXTENDS SecretsStore, TLAPS

USE DEF vars, Answer, NoAnswer

\* A request has the fields its handling reads, and is never "none".
LEMMA RequestTyping ==
  ASSUME NEW r \in Request
  PROVE  /\ r # NoRequest
         /\ r.op \in {"put", "get", "delete"}
         /\ r.handle \in Handles
         /\ r.op = "put" => r.value \in Values
  BY DEF Request, NoRequest

\* What a put or delete writes is a map of secrets (credential_secrets.py, put, delete).
LEMMA ChangedTyping ==
  ASSUME NEW r \in Request, NEW d \in Secrets
  PROVE  Changed(d, r) \in Secrets
  BY RequestTyping DEF Changed, Secrets

\* The file holds a map of secrets, whether it is there or not.
LEMMA ContentTyping ==
  ASSUME file \in Encrypted \cup {Absent}
  PROVE  Content \in Secrets
  BY ValuesAssumption DEF Content, Secrets, Encrypted

\* The backend starts in a state of the invariant.
LEMMA InitInv == Init => Inv
  BY CallBounds DEF Init, Inv, TypeOK, Exclusion, InCall, WriteIsFresh, Answers

\* Every step keeps the types.
LEMMA TypeStep ==
  ASSUME Inv, Next
  PROVE  TypeOK'
  <1> USE DEF Inv, TypeOK, Step, Settle
  <1>1. CASE Crash
    BY <1>1, CallBounds DEF Crash, Answers
  <1>2. ASSUME NEW c \in Client, Call(c)
        PROVE  TypeOK'
    <2>1. req' \in [Client -> Request \cup {NoRequest}]
      BY <1>2 DEF Call
    <2>2. key' \in [Client -> Keys \cup {Absent}]
      BY <1>2 DEF Call
    <2>3. calls' \in 0..MaxCalls
      BY <1>2, CallBounds DEF Call
    <2>4. pc' \in [Client -> {"idle", "lock", "read", "write", "release"}]
      BY <1>2 DEF Call
    <2> QED BY <1>2, <2>1, <2>2, <2>3, <2>4 DEF Call
  <1>3. ASSUME NEW c \in Client, LockExclusive(c) \/ LockShared(c)
        PROVE  TypeOK'
    BY <1>3 DEF LockExclusive, LockShared
  <1>4. ASSUME NEW c \in Client, ReadFails(c) \/ ReadMisses(c) \/ WriteFails(c)
        PROVE  TypeOK'
    <2>1. answer' \in [Client -> Answers]
      BY <1>4 DEF ReadFails, ReadMisses, WriteFails, Answers
    <2>2. pc' \in [Client -> {"idle", "lock", "read", "write", "release"}]
      BY <1>4 DEF ReadFails, ReadMisses, WriteFails
    <2> QED BY <1>4, <2>1, <2>2 DEF ReadFails, ReadMisses, WriteFails
  <1>5. ASSUME NEW c \in Client, ReadFinds(c)
        PROVE  TypeOK'
    <2>1. req[c] \in Request
      BY <1>5 DEF ReadFinds, InCall
    <2>2. Content[req[c].handle] \in Values \cup {Absent}
      BY <2>1, RequestTyping, ContentTyping DEF Secrets
    <2> QED BY <1>5, <2>2 DEF ReadFinds, Answers
  <1>6. ASSUME NEW c \in Client, ReadToWrite(c)
        PROVE  TypeOK'
    BY <1>6, ContentTyping DEF ReadToWrite
  <1>7. ASSUME NEW c \in Client, Write(c)
        PROVE  TypeOK'
    <2>1. req[c] \in Request /\ key[c] \in Keys
      BY <1>7 DEF Write, InCall
    <2>2. data[c] \in Secrets
      BY <1>7, ContentTyping DEF Write, WriteIsFresh
    <2>3. file' \in Encrypted
      BY <1>7, <2>1, <2>2, ChangedTyping DEF Write, Encrypted
    <2> QED BY <1>7, <2>3 DEF Write, Answers
  <1>8. ASSUME NEW c \in Client, Return(c)
        PROVE  TypeOK'
    BY <1>8 DEF Return, Answers
  <1> QED BY <1>1, <1>2, <1>3, <1>4, <1>5, <1>6, <1>7, <1>8 DEF Next

\* Every step leaves a writer of secrets.lock alone with it.
LEMMA ExclusionStep ==
  ASSUME Inv, Next
  PROVE  Exclusion'
  BY DEF Inv, TypeOK, Exclusion, Next, Step, Settle, Crash, Call, LockExclusive, LockShared,
         CanExclude, ReadFails, ReadMisses, ReadFinds, ReadToWrite, Write, WriteFails, Return

\* While one client is about to write, no other one is, and the file is as it
\* read it.
LEMMA WriterAlone ==
  ASSUME Inv, NEW c \in Client, NEW d \in Client, c # d, pc[c] = "write", pc[d] # "lock",
         pc[d] # "idle"
  PROVE  FALSE
  <1>1. req[c].op # "get" /\ req[c] \in Request /\ c \in exclusive
    BY DEF Inv, InCall, TypeOK
  <1>2. pc[d] \in {"read", "write", "release"}
    BY DEF Inv, TypeOK
  <1> QED BY <1>1, <1>2 DEF Inv, InCall, Exclusion

\* Every step keeps a call in the steps of its request, its lock held.
LEMMA InCallStep ==
  ASSUME Inv, Next
  PROVE  InCall'
  <1> USE DEF Inv, TypeOK, Step, Settle
  <1>1. CASE Crash
    BY <1>1 DEF Crash, InCall
  <1>2. ASSUME NEW c \in Client, Call(c)
        PROVE  InCall'
    <2>1. PICK r \in Request : req' = [req EXCEPT ![c] = r]
      BY <1>2 DEF Call
    <2>2. PICK k \in Keys : key' = [key EXCEPT ![c] = k]
      BY <1>2 DEF Call
    <2>3. r # NoRequest
      BY RequestTyping
    <2> QED BY <1>2, <2>1, <2>2, <2>3 DEF Call, InCall, Content
  <1>3. ASSUME NEW c \in Client, LockExclusive(c) \/ LockShared(c)
        PROVE  InCall'
    BY <1>3 DEF LockExclusive, LockShared, InCall, Content
  <1>4. ASSUME NEW c \in Client, ReadFails(c) \/ ReadMisses(c) \/ ReadFinds(c) \/ WriteFails(c)
        PROVE  InCall'
    BY <1>4 DEF ReadFails, ReadMisses, ReadFinds, WriteFails, InCall, Content
  <1>5. ASSUME NEW c \in Client, ReadToWrite(c)
        PROVE  InCall'
    BY <1>5 DEF ReadToWrite, InCall, Content
  <1>6. ASSUME NEW c \in Client, Write(c)
        PROVE  InCall'
    <2>1. \A d \in Client \ {c} : pc[d] \in {"idle", "lock"}
      BY <1>6, WriterAlone DEF Write
    <2> QED BY <1>6, <2>1 DEF Write, InCall
  <1>7. ASSUME NEW c \in Client, Return(c)
        PROVE  InCall'
    <2>1. \A d \in Client \ {c} : /\ pc'[d] = pc[d] /\ req'[d] = req[d] /\ key'[d] = key[d]
                                  /\ answer'[d] = answer[d]
                                  /\ d \in shared' <=> d \in shared
                                  /\ d \in exclusive' <=> d \in exclusive
      BY <1>7 DEF Return
    <2>2. pc'[c] = "idle" /\ req'[c] = NoRequest /\ answer'[c] = NoAnswer
      BY <1>7 DEF Return
    <2>3. file' = file
      BY <1>7 DEF Return
    <2> QED BY <2>1, <2>2, <2>3 DEF InCall, Content
  <1> QED BY <1>1, <1>2, <1>3, <1>4, <1>5, <1>6, <1>7 DEF Next

\* No step makes stale what a writer read.
LEMMA FreshStep ==
  ASSUME Inv, Next
  PROVE  WriteIsFresh'
  <1> USE DEF Inv, TypeOK, Step, Settle
  <1>1. CASE Crash
    BY <1>1 DEF Crash, WriteIsFresh
  <1>2. ASSUME NEW c \in Client, Call(c)
        PROVE  WriteIsFresh'
    BY <1>2 DEF Call, WriteIsFresh, Content, Decrypts
  <1>3. ASSUME NEW c \in Client, LockExclusive(c) \/ LockShared(c) \/ ReadFails(c)
                                   \/ ReadMisses(c) \/ ReadFinds(c) \/ WriteFails(c)
        PROVE  WriteIsFresh'
    BY <1>3 DEF LockExclusive, LockShared, ReadFails, ReadMisses, ReadFinds, WriteFails,
                WriteIsFresh, Content, Decrypts
  <1>4. ASSUME NEW c \in Client, ReadToWrite(c)
        PROVE  WriteIsFresh'
    BY <1>4 DEF ReadToWrite, WriteIsFresh, Content, Decrypts
  <1>5. ASSUME NEW c \in Client, Write(c)
        PROVE  WriteIsFresh'
    <2>1. \A d \in Client \ {c} : pc[d] \in {"idle", "lock"}
      BY <1>5, WriterAlone DEF Write
    <2> QED BY <1>5, <2>1 DEF Write, WriteIsFresh
  <1>6. ASSUME NEW c \in Client, Return(c)
        PROVE  WriteIsFresh'
    BY <1>6 DEF Return, WriteIsFresh, Content, Decrypts
  <1> QED BY <1>1, <1>2, <1>3, <1>4, <1>5, <1>6 DEF Next

\* The invariant is inductive.
LEMMA NextInv == Inv /\ [Next]_vars => Inv'
  <1> SUFFICES ASSUME Inv, [Next]_vars PROVE Inv'
    OBVIOUS
  <1>1. CASE Next
    BY <1>1, TypeStep, ExclusionStep, InCallStep, FreshStep DEF Inv
  <1>2. CASE UNCHANGED vars
    BY <1>2 DEF Inv, TypeOK, Exclusion, InCall, WriteIsFresh, Content, Decrypts
  <1> QED BY <1>1, <1>2

\* Every behaviour of the backend stays within the inductive invariant
\* (credential_secrets.py).
THEOREM Invariance == Spec => []Inv
  <1> QED BY InitInv, NextInv, PTL DEF Spec

\* No put or delete is undone by another one that read the file before it
\* (credential_secrets.py, put and delete under secrets.lock).
THEOREM NoSecretLost == Spec => []WriteIsFresh
  <1>1. Inv => WriteIsFresh
    BY DEF Inv
  <1> QED BY <1>1, Invariance, PTL

\* The secrets file is never replaced under another key (_read_all raises first).
THEOREM KeyIsKept == Spec => KeyKept
  <1>1. Inv /\ [Next]_vars => [file # Absent => file' # Absent /\ file'.key = file.key]_vars
    <2> SUFFICES ASSUME Inv, Next, file # Absent
                 PROVE  file' # Absent /\ file'.key = file.key
      BY DEF Inv
    <2>1. CASE file' = file
      BY <2>1
    <2>2. ASSUME NEW c \in Client, Write(c)
          PROVE  file' # Absent /\ file'.key = file.key
      <3>1. file'.key = key[c]
        BY <2>2 DEF Write
      <3>2. key[c] = file.key
        BY <2>2 DEF Write, Step, Inv, WriteIsFresh, Decrypts
      <3>3. file' \in Encrypted
        <4>1. req[c] \in Request /\ key[c] \in Keys
          BY <2>2 DEF Write, Step, Inv, InCall, TypeOK
        <4>2. data[c] \in Secrets
          BY <2>2, ContentTyping DEF Write, Step, Inv, WriteIsFresh, TypeOK
        <4> QED BY <2>2, <4>1, <4>2, ChangedTyping DEF Write, Encrypted
      <3> QED BY <3>1, <3>2, <3>3, ValuesAssumption
    <2> QED BY <2>1, <2>2 DEF Next, Crash, Call, LockExclusive, LockShared, ReadFails,
               ReadMisses, ReadFinds, ReadToWrite, WriteFails, Return
  <1> QED BY <1>1, Invariance, PTL DEF Spec, KeyKept

-----------------------------------------------------------------------------
(* The refinement: answers are settled by the step that takes effect.       *)

\* The backend starts as the empty map, with nobody waiting.
LEMMA MapInitially == Init => Map!MapInit
  BY DEF Init, Content, Map!MapInit, Map!NoSecrets, Map!NoRequest, Map!NoAnswer, Map!Answer,
         NoRequest

\* Every step of the backend is one of the map, or leaves the map alone.
LEMMA MapStep ==
  ASSUME Inv, Next
  PROVE  Map!MapNext \/ UNCHANGED Map!mapVars
  <1> USE DEF Step, Settle, Map!Answer, Map!NoAnswer, Map!NoRequest, NoRequest, Map!mapVars,
              Map!Waits
  <1>1. CASE Crash
    <2>1. Map!Crash
      BY <1>1 DEF Crash, Content, Map!Crash
    <2> QED BY <2>1 DEF Map!MapNext
  <1>2. ASSUME NEW c \in Client, Call(c)
        PROVE  Map!Ask(c)
    <2>1. req[c] = NoRequest
      BY <1>2 DEF Call, Inv, InCall
    <2>2. Map!Request = Request
      BY DEF Map!Request, Request
    <2> QED BY <1>2, <2>1, <2>2 DEF Call, Content, Map!Ask
  <1>3. ASSUME NEW c \in Client, LockExclusive(c) \/ LockShared(c) \/ ReadToWrite(c)
        PROVE  UNCHANGED Map!mapVars
    BY <1>3 DEF LockExclusive, LockShared, ReadToWrite, Content
  <1>4. ASSUME NEW c \in Client, ReadFails(c) \/ WriteFails(c)
        PROVE  Map!Refuse(c)
    <2>1. req[c] # NoRequest /\ answer[c] = NoAnswer
      BY <1>4 DEF ReadFails, WriteFails, Inv, InCall
    <2> QED BY <1>4, <2>1 DEF ReadFails, WriteFails, Content, Map!Refuse
  <1>5. ASSUME NEW c \in Client, ReadMisses(c)
        PROVE  Map!Missing(c)
    <2>1. answer[c] = NoAnswer
      BY <1>5 DEF ReadMisses, Inv, InCall
    <2> QED BY <1>5, <2>1 DEF ReadMisses, Content, Map!Missing
  <1>6. ASSUME NEW c \in Client, ReadFinds(c)
        PROVE  Map!Get(c)
    <2>1. answer[c] = NoAnswer
      BY <1>6 DEF ReadFinds, Inv, InCall
    <2> QED BY <1>6, <2>1 DEF ReadFinds, Content, Map!Get
  <1>7. ASSUME NEW c \in Client, Write(c)
        PROVE  Map!Put(c) \/ Map!Delete(c)
    <2>1. /\ answer[c] = NoAnswer
          /\ req[c].op = "put" \/ (req[c].op = "delete" /\ Content[req[c].handle] # Absent)
          /\ data[c] = Content
      BY <1>7 DEF Write, Inv, InCall, WriteIsFresh
    <2>2. key[c] \in Keys /\ data[c] \in Secrets /\ req[c] \in Request
      BY <1>7, <2>1, ContentTyping DEF Write, Inv, InCall, TypeOK
    <2>3. file' \in Encrypted /\ file'.data = Changed(data[c], req[c])
      BY <1>7, <2>2, ChangedTyping DEF Write, Encrypted
    <2>4. Content' = Changed(Content, req[c])
      BY <2>1, <2>3, ValuesAssumption DEF Content
    <2> QED BY <1>7, <2>1, <2>4 DEF Write, Changed, Map!Put, Map!Delete, Map!Updated
  <1>8. ASSUME NEW c \in Client, Return(c)
        PROVE  Map!Respond(c)
    <2>1. answer[c].kind # "none"
      BY <1>8 DEF Return, Inv, InCall
    <2> QED BY <1>8, <2>1 DEF Return, Content, Map!Respond
  <1> QED BY <1>1, <1>2, <1>3, <1>4, <1>5, <1>6, <1>7, <1>8 DEF Next, Map!MapNext

\* Any number of threads on any handles: the locked, rewritten, crash-prone file
\* behaves as an atomic map (credential_secrets.py).
THEOREM BackendIsAtomic == Spec => ImplementsSecretsMap
  <1>1. Inv /\ [Next]_vars => [Map!MapNext]_(Map!mapVars)
    <2>1. ASSUME Inv, UNCHANGED vars PROVE UNCHANGED Map!mapVars
      BY <2>1 DEF Map!mapVars, Content
    <2> QED BY <2>1, MapStep
  <1> QED BY <1>1, MapInitially, Invariance, PTL DEF Spec, ImplementsSecretsMap, Map!MapSpec

\* The file stays what one key encrypted, and every client's snapshot, request and
\* answer keep their types, with any number of clients and crashes.
THEOREM TypeCorrect == Spec => []TypeOK
  <1>1. Inv => TypeOK
    BY DEF Inv
  <1> QED BY <1>1, Invariance, PTL
=============================================================================
