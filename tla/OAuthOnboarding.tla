--------------------------- MODULE OAuthOnboarding ---------------------------
(***************************************************************************)
(* OAuthManager of src/src/oauth.py: device-flow onboarding of a connector, *)
(* run by the server's pool of threads.  Unlike the handlers of            *)
(* CapabilityService it takes no lock on the store: start and complete read *)
(* the session file and the local catalog, talk to the provider, and write  *)
(* back what they read.  A call into the secrets backend is one step: the   *)
(* backend has a lock of its own.                                           *)
(***************************************************************************)
EXTENDS CapabilityApi, FiniteSets

CONSTANTS
    Onboarder,    \* threads that serve /capability/oauth/{start,complete}
    Session,      \* session identifiers (uuid4)
    Connectors,   \* identifiers of a known provider (_provider_for_capability)
    MaxCalls,     \* bound: requests taken in a behaviour
    MaxCrashes    \* bound: crashes in a behaviour

ASSUME ConnectorsAssumption == Connectors \subseteq Ids
ASSUME SessionAssumption == Absent \notin Session \cup Ids
ASSUME OnboardingBounds == MaxCalls \in Nat /\ MaxCrashes \in Nat

StartSteps == {"start", "device", "putcode", "loadstart", "writestart"}
CompleteSteps == {"complete", "getcode", "token", "puttoken", "merged",
                  "loadlocal", "writelocal", "dropcode", "writesessions"}
Replies == {"started", "pending", "enabled", "failed"}

\* oauth.sessions.json: the capability each session is for.
SessionFile == [Session -> Ids \cup {Absent}]
NoSessions == [s \in Session |-> Absent]

VARIABLES
    local,      \* manifest.local.json
    sessions,   \* tmp/oauth.sessions.json
    codes,      \* sessions whose device code the secrets backend holds
    tokens,     \* capabilities whose refresh token it holds
    expired,    \* sessions past their expires_at
    grant,      \* the provider's view of each device code
    step,       \* where each thread is, its reply at the end
    sid,        \* the session it works on
    cap,        \* the capability it works on
    held,       \* the session file it read
    catalog,    \* the local catalog it read
    entry,      \* the manifest it is going to write
    crossed,    \* history: threads whose call another call overlapped
    calls,      \* requests taken so far
    crashes     \* crashes so far

threadVars == <<step, sid, cap, held, catalog, entry>>
secretVars == <<codes, tokens>>
worldVars  == <<expired, grant>>
vars == <<local, sessions, secretVars, worldVars, threadVars, crossed, calls, crashes>>

TypeOK ==
    /\ local \in Catalog
    /\ sessions \in SessionFile
    /\ codes \in SUBSET Session
    /\ tokens \in SUBSET Ids
    /\ expired \in SUBSET Session
    /\ grant \in [Session -> {"none", "pending", "approved", "denied", "redeemed"}]
    /\ step \in [Onboarder -> {"idle"} \cup StartSteps \cup CompleteSteps \cup Replies]
    /\ sid \in [Onboarder -> Session \cup {Absent}]
    /\ cap \in [Onboarder -> Ids \cup {Absent}]
    /\ held \in [Onboarder -> SessionFile \cup {Absent}]
    /\ catalog \in [Onboarder -> Catalog \cup {Absent}]
    /\ entry \in [Onboarder -> Manifest \cup {Absent}]
    /\ crossed \in SUBSET Onboarder
    /\ calls \in 0..MaxCalls
    /\ crashes \in 0..MaxCrashes

ThreadsIdle ==
    /\ step' = [t \in Onboarder |-> "idle"]
    /\ sid' = [t \in Onboarder |-> Absent]
    /\ cap' = [t \in Onboarder |-> Absent]
    /\ held' = [t \in Onboarder |-> Absent]
    /\ catalog' = [t \in Onboarder |-> Absent]
    /\ entry' = [t \in Onboarder |-> Absent]
    /\ crossed' = {}

InitOnboarding ==
    /\ sessions = NoSessions
    /\ codes = {} /\ tokens = {} /\ expired = {}
    /\ grant = [s \in Session |-> "none"]
    /\ step = [t \in Onboarder |-> "idle"]
    /\ sid = [t \in Onboarder |-> Absent]
    /\ cap = [t \in Onboarder |-> Absent]
    /\ held = [t \in Onboarder |-> Absent]
    /\ catalog = [t \in Onboarder |-> Absent]
    /\ entry = [t \in Onboarder |-> Absent]
    /\ crossed = {}

Init ==
    /\ local = EmptyCatalog
    /\ InitOnboarding
    /\ calls = 0
    /\ crashes = 0

Goto(t, to) == step' = [step EXCEPT ![t] = to]
Step(t, from, to) == step[t] = from /\ Goto(t, to)

\* Nothing keeps a call from starting while others run; they have crossed then.
Busy == {u \in Onboarder : step[u] # "idle"}
Cross(t) == crossed' = IF Busy = {} THEN crossed ELSE crossed \cup Busy \cup {t}

\* The call raises; nothing it did before is undone.  A write that raises may have
\* replaced its file: the fsync of the directory comes after os.replace.
Raise(t) == Goto(t, "failed")

-----------------------------------------------------------------------------
(* OAuthManager.start                                                       *)

CallStart(t) ==
    /\ calls < MaxCalls
    /\ Step(t, "idle", "start")
    /\ calls' = calls + 1
    /\ Cross(t)
    /\ \E i \in Ids : cap' = [cap EXCEPT ![t] = i]
    /\ UNCHANGED <<local, sessions, secretVars, worldVars, sid, held, catalog, entry, crashes>>

\* What a connector must look like for onboarding to start.
Onboardable(i) ==
    LET m == Merged(local)[i] IN
    m # Absent /\ m.oauth /\ m.enabled # "true" /\ i \in Connectors

StartCheck(t) ==
    /\ step[t] = "start"
    /\ Goto(t, IF Onboardable(cap[t]) THEN "device" ELSE "failed")
    /\ UNCHANGED <<local, sessions, secretVars, worldVars, sid, cap, held, catalog, entry,
                   crossed, calls, crashes>>

\* The provider hands out a device code, or the request fails.
StartDevice(t) ==
    /\ step[t] = "device"
    /\ \/ /\ \E s \in Session :
                /\ grant[s] = "none"
                /\ grant' = [grant EXCEPT ![s] = "pending"]
                /\ sid' = [sid EXCEPT ![t] = s]
          /\ Goto(t, "putcode")
       \/ Raise(t) /\ UNCHANGED <<grant, sid>>
    /\ UNCHANGED <<local, sessions, secretVars, expired, cap, held, catalog, entry,
                   crossed, calls, crashes>>

\* Mutant of StartPutCode: an error of the secrets backend is swallowed.
StartPutCode_SwallowsErrors(t) ==
    /\ Step(t, "putcode", "loadstart")
    /\ codes' \in {codes, codes \cup {sid[t]}}
    /\ UNCHANGED <<local, sessions, tokens, worldVars, sid, cap, held, catalog, entry,
                   crossed, calls, crashes>>

StartPutCode(t) ==
    /\ step[t] = "putcode"
    /\ \/ Goto(t, "loadstart") /\ codes' = codes \cup {sid[t]}
       \/ Raise(t) /\ codes' \in {codes, codes \cup {sid[t]}}
    /\ UNCHANGED <<local, sessions, tokens, worldVars, sid, cap, held, catalog, entry,
                   crossed, calls, crashes>>

\* _load_sessions, or a read that fails (the file is there no more).
StartLoad(t) ==
    /\ step[t] = "loadstart"
    /\ \/ Goto(t, "writestart") /\ held' = [held EXCEPT ![t] = sessions]
       \/ Raise(t) /\ UNCHANGED held
    /\ UNCHANGED <<local, sessions, secretVars, worldVars, sid, cap, catalog, entry,
                   crossed, calls, crashes>>

\* _write_sessions: the file is swapped in one step; the write fails before that (a
\* factory reset takes the temporary file away, or the disk is full), or the fsync
\* after it does.
StartWrite(t) ==
    LET written == [held[t] EXCEPT ![sid[t]] = cap[t]] IN
    /\ step[t] = "writestart"
    /\ \/ Goto(t, "started") /\ sessions' = written
       \/ Raise(t) /\ sessions' \in {sessions, written}
    /\ UNCHANGED <<local, secretVars, worldVars, sid, cap, held, catalog, entry,
                   crossed, calls, crashes>>

-----------------------------------------------------------------------------
(* OAuthManager.complete                                                    *)

CallComplete(t) ==
    /\ calls < MaxCalls
    /\ Step(t, "idle", "complete")
    /\ calls' = calls + 1
    /\ Cross(t)
    /\ \E s \in Session : sid' = [sid EXCEPT ![t] = s]
    /\ UNCHANGED <<local, sessions, secretVars, worldVars, cap, held, catalog, entry, crashes>>

\* The session must be in the file and not past its time.
CompleteLoad(t) ==
    /\ step[t] = "complete"
    /\ \/ /\ sessions[sid[t]] # Absent /\ sid[t] \notin expired
          /\ Goto(t, "getcode")
          /\ held' = [held EXCEPT ![t] = sessions]
          /\ cap' = [cap EXCEPT ![t] = sessions[sid[t]]]
       \/ Raise(t) /\ UNCHANGED <<held, cap>>
    /\ UNCHANGED <<local, sessions, secretVars, worldVars, sid, catalog, entry,
                   crossed, calls, crashes>>

CompleteGetCode(t) ==
    /\ step[t] = "getcode"
    /\ Goto(t, IF sid[t] \in codes THEN "token" ELSE "failed")
    /\ UNCHANGED <<local, sessions, secretVars, worldVars, sid, cap, held, catalog, entry,
                   crossed, calls, crashes>>

\* Mutants of CompleteToken: the token is not stored before it is referenced; a
\* code still pending, or redeemed already, counts as granted.
CompleteToken_SkipsSecret(t) ==
    /\ Step(t, "token", "merged")
    /\ grant[sid[t]] = "approved"
    /\ grant' = [grant EXCEPT ![sid[t]] = "redeemed"]
    /\ UNCHANGED <<local, sessions, secretVars, expired, sid, cap, held, catalog, entry,
                   crossed, calls, crashes>>
CompleteToken_IgnoresPending(t) ==
    /\ Step(t, "token", "puttoken")
    /\ grant[sid[t]] \in {"approved", "pending"}
    /\ UNCHANGED <<local, sessions, secretVars, worldVars, sid, cap, held, catalog, entry,
                   crossed, calls, crashes>>
CompleteToken_IgnoresRedeemed(t) ==
    /\ Step(t, "token", "puttoken")
    /\ grant[sid[t]] \in {"approved", "redeemed"}
    /\ grant' = [grant EXCEPT ![sid[t]] = "redeemed"]
    /\ UNCHANGED <<local, sessions, secretVars, expired, sid, cap, held, catalog, entry,
                   crossed, calls, crashes>>

\* The token exchange: the provider redeems an approved device code once, and
\* its answer arrives or not; an unapproved one is still pending; any other
\* answer, and no answer, fails the call.
CompleteToken(t) ==
    /\ step[t] = "token"
    /\ \/ /\ grant[sid[t]] = "approved"
          /\ grant' = [grant EXCEPT ![sid[t]] = "redeemed"]
          /\ Goto(t, "puttoken") \/ Raise(t)
       \/ grant[sid[t]] = "pending" /\ Goto(t, "pending") /\ UNCHANGED grant
       \/ Raise(t) /\ UNCHANGED grant
    /\ UNCHANGED <<local, sessions, secretVars, expired, sid, cap, held, catalog, entry,
                   crossed, calls, crashes>>

\* Mutant of CompletePutToken: the token goes under the session's handle.
CompletePutToken_UnderSession(t) ==
    /\ Step(t, "puttoken", "merged")
    /\ tokens' = tokens \cup {sid[t]}
    /\ UNCHANGED <<local, sessions, codes, worldVars, sid, cap, held, catalog, entry,
                   crossed, calls, crashes>>

CompletePutToken(t) ==
    /\ step[t] = "puttoken"
    /\ \/ Goto(t, "merged") /\ tokens' = tokens \cup {cap[t]}
       \/ Raise(t) /\ tokens' \in {tokens, tokens \cup {cap[t]}}
    /\ UNCHANGED <<local, sessions, codes, worldVars, sid, cap, held, catalog, entry,
                   crossed, calls, crashes>>

\* Mutant of Bound: the connector is not enabled.
Bound_Disabled(m) == [m EXCEPT !.bound = TRUE]

\* The connector enabled, with a reference to its token.
Bound(m) == [m EXCEPT !.enabled = "true", !.bound = TRUE]

CompleteMerged(t) ==
    LET m == Merged(local)[cap[t]] IN
    /\ step[t] = "merged"
    /\ \/ m = Absent /\ Raise(t) /\ UNCHANGED entry
       \/ /\ m # Absent
          /\ Goto(t, "loadlocal")
          /\ entry' = [entry EXCEPT ![t] = Bound(m)]
    /\ UNCHANGED <<local, sessions, secretVars, worldVars, sid, cap, held, catalog,
                   crossed, calls, crashes>>

\* upsert_local loads the local catalog, puts the entry and writes it back.
CompleteLoadLocal(t) ==
    /\ Step(t, "loadlocal", "writelocal")
    /\ catalog' = [catalog EXCEPT ![t] = local]
    /\ UNCHANGED <<local, sessions, secretVars, worldVars, sid, cap, held, entry,
                   crossed, calls, crashes>>

CompleteWriteLocal(t) ==
    /\ step[t] = "writelocal"
    /\ \/ Goto(t, "dropcode") /\ local' = Put(catalog[t], entry[t])
       \/ Raise(t) /\ local' \in {local, Put(catalog[t], entry[t])}
    /\ UNCHANGED <<sessions, secretVars, worldVars, sid, cap, held, catalog, entry,
                   crossed, calls, crashes>>

CompleteDropCode(t) ==
    /\ step[t] = "dropcode"
    /\ \/ Goto(t, "writesessions") /\ codes' = codes \ {sid[t]}
       \/ Raise(t) /\ codes' \in {codes, codes \ {sid[t]}}
    /\ UNCHANGED <<local, sessions, tokens, worldVars, sid, cap, held, catalog, entry,
                   crossed, calls, crashes>>

\* Mutant of CompleteWrite: the completed session is written back.
CompleteWrite_KeepsSession(t) ==
    /\ Step(t, "writesessions", "enabled")
    /\ sessions' = held[t]
    /\ UNCHANGED <<local, secretVars, worldVars, sid, cap, held, catalog, entry,
                   crossed, calls, crashes>>

\* The session file read at the start of the call goes back without the session.
CompleteWrite(t) ==
    LET written == [held[t] EXCEPT ![sid[t]] = Absent] IN
    /\ step[t] = "writesessions"
    /\ \/ Goto(t, "enabled") /\ sessions' = written
       \/ Raise(t) /\ sessions' \in {sessions, written}
    /\ UNCHANGED <<local, secretVars, worldVars, sid, cap, held, catalog, entry,
                   crossed, calls, crashes>>

-----------------------------------------------------------------------------

\* The handler answers and the thread goes back to the pool.
Reply(t) ==
    /\ step[t] \in Replies
    /\ Goto(t, "idle")
    /\ sid' = [sid EXCEPT ![t] = Absent]
    /\ cap' = [cap EXCEPT ![t] = Absent]
    /\ held' = [held EXCEPT ![t] = Absent]
    /\ catalog' = [catalog EXCEPT ![t] = Absent]
    /\ entry' = [entry EXCEPT ![t] = Absent]
    /\ crossed' = crossed \ {t}
    /\ UNCHANGED <<local, sessions, secretVars, worldVars, calls, crashes>>

\* At the provider's page the user approves or denies the device code.
Decide(s) ==
    /\ grant[s] = "pending"
    /\ \E g \in {"approved", "denied"} : grant' = [grant EXCEPT ![s] = g]
    /\ UNCHANGED <<local, sessions, secretVars, expired, threadVars, crossed, calls, crashes>>

\* time.time() passes the session's expires_at.
Expire(s) ==
    /\ grant[s] # "none" /\ s \notin expired
    /\ expired' = expired \cup {s}
    /\ UNCHANGED <<local, sessions, secretVars, grant, threadVars, crossed, calls, crashes>>

\* The process dies and is started again; what is on disk and at the provider
\* stays.
Crash ==
    /\ crashes < MaxCrashes
    /\ crashes' = crashes + 1
    /\ ThreadsIdle
    /\ UNCHANGED <<local, sessions, secretVars, worldVars, calls>>

Onboard(t) ==
    \/ StartCheck(t) \/ StartDevice(t) \/ StartPutCode(t) \/ StartLoad(t) \/ StartWrite(t)
    \/ CompleteLoad(t) \/ CompleteGetCode(t) \/ CompleteToken(t) \/ CompletePutToken(t)
    \/ CompleteMerged(t) \/ CompleteLoadLocal(t) \/ CompleteWriteLocal(t)
    \/ CompleteDropCode(t) \/ CompleteWrite(t)
    \/ Reply(t)

World == \E s \in Session : Decide(s) \/ Expire(s)

Next ==
    \/ Crash
    \/ World
    \/ \E t \in Onboarder : CallStart(t) \/ CallComplete(t) \/ Onboard(t)

Spec == Init /\ [][Next]_vars

-----------------------------------------------------------------------------
(* What onboarding promises although its threads take no lock.              *)

\* A catalog entry refers to a refresh token only once the secrets backend holds
\* one, whatever crashed or raced: the reference never dangles (oauth.py,
\* complete: secrets.put before upsert_local).
BindingHasToken ==
    \A i \in Ids :
        local[i] # Absent /\ local[i].bound =>
            i \in tokens \/ (Base[i] # Absent /\ Base[i].bound)

\* A session on file can still be completed: its device code is in the secrets
\* backend until the provider has redeemed it (oauth.py, start: secrets.put
\* before the session is written; complete: secrets.delete last).
SessionHasCode ==
    \A s \in Session : sessions[s] # Absent /\ s \notin codes => grant[s] = "redeemed"

\* There are no more capabilities with a refresh token than sessions the provider
\* has redeemed: no two of them come out of one approval, however often complete
\* is retried or runs twice at a time (oauth.py, complete).
TokensWereGranted ==
    Cardinality(tokens) <= Cardinality({s \in Session : grant[s] = "redeemed"})

\* Of two calls that complete the same session at most one gets past the token
\* exchange (oauth.py, complete).
Exchanged == {"puttoken", "merged", "loadlocal", "writelocal", "dropcode", "writesessions"}
OneExchange ==
    \A t, u \in Onboarder :
        t # u /\ step[t] \in Exchanged /\ step[u] \in Exchanged => sid[t] # sid[u]

\* A call that no other call overlapped keeps what it replies; of calls that do
\* overlap the code keeps less (two of them write back what both read), and the
\* properties above are what is left.
Alone == Onboarder \ crossed

\* The connector that a call nobody overlapped reports enabled is enabled and bound
\* in the catalog, whatever earlier calls left behind (oauth.py, complete).
EnabledInCatalog ==
    \A t \in Alone : step[t] = "enabled" =>
        Merged(local)[cap[t]].enabled = "true" /\ Merged(local)[cap[t]].bound

\* The replies of a call nobody overlapped are good, whatever calls that overlapped,
\* failed or died with the process left on disk: a started session is on file with
\* its code and a pending one still is, and an enabled connector has its token, its
\* session and its device code gone (oauth.py, start and complete).
RepliesHold ==
    \A t \in Alone :
        /\ step[t] \in {"started", "pending"} =>
              sessions[sid[t]] = cap[t] /\ sid[t] \in codes
        /\ step[t] = "enabled" =>
              cap[t] \in tokens /\ sessions[sid[t]] = Absent /\ sid[t] \notin codes
=============================================================================
