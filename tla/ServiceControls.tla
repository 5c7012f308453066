--------------------------- MODULE ServiceControls ---------------------------
(***************************************************************************)
(* The controls around an execution side by side: the way of a request to   *)
(* its handler (ServiceAccess), the authority a run needs                   *)
(* (ExecutionAuthority), the targets a confirmed action is bound to         *)
(* (SemanticTargets) and the packages it may come from                      *)
(* (CapabilityEcosystem).  In the source they are modules without state in  *)
(* common that call none of each other, so a behaviour is followed in one   *)
(* of them, chosen at the start, while the others stay as they began.       *)
(***************************************************************************)
EXTENDS ExecutionAuthority, SemanticTargets

CONSTANTS
    Files, Envs, Requests, Principals, Roles, Sessions,       \* ServiceAccess
    Values, PackageRisks, Confirmations, Publishers, Keys,
    Trusted, HostApi, Signings, Packages,                     \* CapabilityEcosystem
    Absent

VARIABLES
    followed,                                                 \* the control that moves
    file, env, session, at, request, user, had,               \* ServiceAccess
    installed, revoked, granted, baseline                     \* CapabilityEcosystem

Access == INSTANCE ServiceAccess WITH pc <- at
Ecosystem == INSTANCE CapabilityEcosystem WITH Risks <- PackageRisks

ASSUME ConfigurationAssumption == Files \subseteq Access!File /\ Envs \subseteq Access!Env
ASSUME RequestsAssumption == Requests \subseteq Access!Request /\ Sessions \subseteq Access!Session
ASSUME RolesAssumption == {"service", "operator", "admin"} \subseteq Roles
ASSUME PackagesAssumption ==
    /\ Packages \subseteq Ecosystem!Manifest
    /\ Signings \subseteq [manifest : Ecosystem!Manifest, key : Keys]
    /\ Trusted \in [Publishers -> Keys \cup {Absent}]
ASSUME HostAssumption == HostApi \in Int
ASSUME AbsentAssumption ==
    Absent \notin Access!Modes \cup {"true", "false"} \cup Requests \cup Sessions
                  \cup Ecosystem!Manifest \cup Keys \cup RevocationIds

accessVars == <<file, env, session, at, request, user, had>>
packageVars == <<installed, revoked, granted, baseline>>

Controls == {"access", "authority", "targets", "ecosystem"}

controlsVars ==
    <<followed, vars, targetVars, accessVars, packageVars>>

\* One start of each control that is not followed is enough.
ControlsInit ==
    /\ followed \in Controls
    /\ Init /\ TargetInit /\ Access!Init /\ Ecosystem!Init
    /\ followed # "access" =>
          file = (CHOOSE f \in Files : TRUE) /\ env = (CHOOSE e \in Envs : TRUE)
    /\ followed # "targets" => clock = [sec |-> 0, part |-> 0]

ControlsNext ==
    \/ /\ followed = "authority" /\ Next
       /\ UNCHANGED <<followed, targetVars, accessVars, packageVars>>
    \/ /\ followed = "targets" /\ TargetNext
       /\ UNCHANGED <<followed, vars, accessVars, packageVars>>
    \/ /\ followed = "access" /\ Access!Next
       /\ UNCHANGED <<followed, vars, targetVars, packageVars>>
    \/ /\ followed = "ecosystem" /\ Ecosystem!Next
       /\ UNCHANGED <<followed, vars, targetVars, accessVars>>

ControlsSpec == ControlsInit /\ [][ControlsNext]_controlsVars

-----------------------------------------------------------------------------

\* Every control's state keeps its type.
TypesOK == TypeOK /\ TargetTypeOK /\ Access!TypeOK /\ Ecosystem!TypeOK

\* Only the mode and the flags that say so open the service (ServiceAccess).
OpenOnlyOnRequest == Access!OpenOnlyOnRequest

\* A protected handler serves only who has the rights for it while the request is
\* under way (ServiceAccess).
ServedWithRights == Access!ServedWithRights

\* The package in use was signed as it is and reviewed for all it may do
\* (CapabilityEcosystem).
Vetted == Ecosystem!Vetted
=============================================================================
