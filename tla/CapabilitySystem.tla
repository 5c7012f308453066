-------------------------- MODULE CapabilitySystem --------------------------
(***************************************************************************)
(* The whole service process: the store's handlers (CapabilityService) and  *)
(* OAuth onboarding (OAuthOnboarding) on one local catalog.  They share the *)
(* file manifest.local.json, the directory tmp/, which holds the session    *)
(* file and which a factory reset deletes, and the fate of the process.     *)
(***************************************************************************)
EXTENDS CapabilityService

CONSTANTS Onboarder, Session, Connectors

ASSUME OnboardingAssumption == Connectors \subseteq Ids /\ Absent \notin Session \cup Ids

VARIABLES
    sessions, codes, tokens, expired, grant, step, sid, cap, held, catalog, entry, crossed

Onboarding == INSTANCE OAuthOnboarding

onboardingVars == <<sessions, codes, tokens, expired, grant,
                    step, sid, cap, held, catalog, entry, crossed>>
serviceVars == <<artifact, payload, workerVars, lockVars, orphans, resetsCut, diskErrors>>
systemVars == <<vars, onboardingVars>>

SystemInit == Init /\ Onboarding!InitOnboarding

\* store.factory_reset deletes the session file together with tmp/, unless the disk
\* fails it; the secrets file is not part of the reset.
ResetSessions(w) ==
    /\ ResetTmp(w)
    /\ \/ sessions' = Onboarding!NoSessions
       \/ diskErrors' # diskErrors /\ UNCHANGED sessions
    /\ UNCHANGED <<codes, tokens, expired, grant, step, sid, cap, held, catalog, entry,
                   crossed>>

\* Every other step of a handler leaves onboarding alone.
Handler(w) ==
    /\ Call(w) \/ (Serve(w) /\ pc[w] # "rmtmp")
    /\ UNCHANGED onboardingVars

SystemCrash == Crash /\ Onboarding!Crash

SystemNext ==
    \/ SystemCrash
    \/ \E w \in Worker : ResetSessions(w) \/ Handler(w)
    \/ Onboarding!World /\ UNCHANGED serviceVars
    \/ \E t \in Onboarder :
          /\ Onboarding!CallStart(t) \/ Onboarding!CallComplete(t) \/ Onboarding!Onboard(t)
          /\ UNCHANGED serviceVars

SystemSpec == SystemInit /\ [][SystemNext]_systemVars

-----------------------------------------------------------------------------

\* A manifest that is shipped, or that some client may install, with a token
\* reference of its own.
Prebound(i) ==
    \/ Base[i] # Absent /\ Base[i].bound
    \/ \E c \in Candidates : Chosen(c).id = i /\ Chosen(c).bound

\* No connector executes without a refresh token in the secrets backend, however
\* removals, resets, crashes and onboarding interleave (policy.py, enforce_run;
\* oauth.py, complete).
ConnectorRunHasToken ==
    \A w \in Worker : pc[w] = "exec" /\ man[w].oauth =>
        man[w].id \in tokens \/ Prebound(man[w].id)

\* Whatever stale copies are written back, every local entry comes from a shipped
\* manifest or from an install the policy let through, but for its enablement
\* and its token reference (store.py, set_local_enabled; oauth.py, complete).
SameOrigin(m, n) == [m EXCEPT !.enabled = n.enabled, !.bound = n.bound] = n
EntriesHaveOrigin ==
    \A i \in Ids : local[i] # Absent =>
        \/ Base[i] # Absent /\ SameOrigin(local[i], Base[i])
        \/ \E c \in Candidates :
              c.manifest.trusted /\ SameOrigin(local[i], Chosen(c))

\* An install that answers success is in the catalog as it answers (README.md:
\* installs are transactional and protected by a filesystem lock).
InstallIsProtected ==
    \A w \in Worker : Answering(w, "install", "ok") => local[man[w].id] = man[w]
=============================================================================
