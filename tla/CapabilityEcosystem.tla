------------------------- MODULE CapabilityEcosystem -------------------------
(***************************************************************************)
(* The supply-chain controls of src/src/ecosystem.py in the order a host    *)
(* applies them to a package: the signature of a configured publisher, the  *)
(* range of host interfaces, the revocation identity, and a review of what  *)
(* the package may do more than the one it replaces.  The helpers keep no   *)
(* state but the revocation registry; the installed package is the host's,  *)
(* which src/ does not contain yet.                                         *)
(*                                                                         *)
(* `granted' and `baseline' are history variables: what reviews have allowed *)
(* the installed package, and the package installed at the last review.     *)
(***************************************************************************)
EXTENDS Integers

CONSTANTS
    Values,        \* what a permission field may list
    Risks, Confirmations, RevocationIds, Publishers, Keys,
    Trusted,       \* the public key configured for a publisher, or Absent
    HostApi,       \* host_api_major
    Signings,      \* the manifests signed anywhere, and with which key
    Packages,      \* the manifests in circulation, signed like that or altered
    Absent

PermissionFields == {"actions", "data_read", "data_write", "recipient_classes",
                     "egress", "filesystem", "devices"}
Permission == PermissionFields \X Values

\* `core' is what stands outside the governance section.
Manifest ==
    [core : {"original", "altered"}, min : Int, max : Int,
     permissions : SUBSET Permission, risk : Risks, confirmation : Confirmations,
     publisher : Publishers, revocation : RevocationIds \cup {Absent}]

VARIABLES
    installed, \* the package in use, or Absent
    revoked,   \* RevocationRegistry.revoked
    granted, baseline

vars == <<installed, revoked, granted, baseline>>

TypeOK ==
    /\ installed \in Manifest \cup {Absent}
    /\ revoked \subseteq RevocationIds
    /\ granted \subseteq Permission
    /\ baseline \in Manifest \cup {Absent}

Init ==
    /\ installed = Absent
    /\ revoked = {}
    /\ granted = {}
    /\ baseline = Absent

-----------------------------------------------------------------------------

\* canonical_manifest: everything but the signature.
Canonical(m) == m

\* verify_manifest_signature: a signature is known by what was signed, with which
\* key; the key is the one configured under the name the manifest itself gives.
Verified(m) ==
    /\ Trusted[m.publisher] # Absent
    /\ \E s \in Signings : s.key = Trusted[m.publisher] /\ Canonical(s.manifest) = Canonical(m)

Compatible(m) == m.min <= HostApi /\ HostApi <= m.max

\* require_active: a manifest without an identity is none of the revoked.
Active(m) == m.revocation \notin revoked

PermissionsOf(m) == IF m = Absent THEN {} ELSE m.permissions

\* Mutant of Added: the update is compared with what was reviewed last.
Added_SinceReview(previous, candidate) == PermissionsOf(candidate) \ PermissionsOf(baseline)

\* permission_diff, "added"; any change of risk or confirmation is listed there too.
Added(previous, candidate) == PermissionsOf(candidate) \ PermissionsOf(previous)

Expands(previous, candidate) ==
    \/ previous = Absent
    \/ Added(previous, candidate) # {}
    \/ previous.risk # candidate.risk
    \/ previous.confirmation # candidate.confirmation

Acceptable(m) == Verified(m) /\ Compatible(m) /\ Active(m)

\* require_permission_review lets an update pass that expands nothing.
Update(m) ==
    /\ Acceptable(m)
    /\ ~Expands(installed, m)
    /\ installed' = m
    /\ granted' = granted \cap PermissionsOf(m)
    /\ UNCHANGED <<revoked, baseline>>

\* A review has approved the update: what it adds, for as long as it is kept.
ApprovedUpdate(m) ==
    /\ Acceptable(m)
    /\ installed' = m
    /\ granted' = (granted \cap PermissionsOf(m)) \cup Added(installed, m)
    /\ baseline' = m
    /\ UNCHANGED revoked

Revoke(id) ==
    /\ revoked' = revoked \cup {id}
    /\ UNCHANGED <<installed, granted, baseline>>

Restore(id) ==
    /\ revoked' = revoked \ {id}
    /\ UNCHANGED <<installed, granted, baseline>>

Next ==
    \/ \E m \in Packages : Update(m) \/ ApprovedUpdate(m)
    \/ \E id \in RevocationIds : Revoke(id) \/ Restore(id)

Spec == Init /\ [][Next]_vars

-----------------------------------------------------------------------------

\* Whatever is presented, the package in use was signed as it is, in every field,
\* with the key of the publisher it names, and fits the host.
OnlyAccepted ==
    installed # Absent =>
        /\ [manifest |-> installed, key |-> Trusted[installed.publisher]] \in Signings
        /\ installed.min <= HostApi /\ HostApi <= installed.max

\* Every permission of the package in use was shown to a review since the package
\* last came to have it: one that an update gave up is reviewed when it returns.
GrantsReviewed == PermissionsOf(installed) \subseteq granted

\* A chain of updates without review never adds up to what a single one of them
\* would have been reviewed for: nothing beyond the package reviewed last.
NoCreep ==
    installed # Absent =>
        /\ installed.permissions \subseteq PermissionsOf(baseline)
        /\ installed.risk = baseline.risk /\ installed.confirmation = baseline.confirmation

\* What is in use was signed as it is, and was reviewed.
Vetted == OnlyAccepted /\ GrantsReviewed /\ NoCreep
=============================================================================
