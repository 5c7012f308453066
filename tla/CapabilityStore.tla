--------------------------- MODULE CapabilityStore ---------------------------
(***************************************************************************)
(* The filesystem store of the capability service (src/src/store.py): the  *)
(* local catalog, which overrides the shipped one, and the installed       *)
(* artifacts and payloads.                                                 *)
(***************************************************************************)
EXTENDS CapabilityApi

\* CapabilityRef: the directory manifests/<id>/<version>.
Ref == Ids \X Versions
RefOf(m) == <<m.id, m.version>>

\* The two files of an install directory.
Artifact == [manifest : Manifest \cup {Absent}, meta : BOOLEAN]
NoArtifact == [manifest |-> Absent, meta |-> FALSE]

\* put_payload_from_path removes a tree and copies another, and can stop half
\* way through that.
PayloadState == {"none", "partial", "whole"}

VARIABLES
    local,      \* manifest.local.json
    artifact,   \* manifests/<id>/<version>/{capability.manifest,install.meta}.json
    payload     \* payloads/<id>/<version>

storeVars == <<local, artifact, payload>>

StoreTypeOK ==
    /\ local \in Catalog
    /\ artifact \in [Ref -> Artifact]
    /\ payload \in [Ref -> PayloadState]

StoreInit ==
    /\ local = EmptyCatalog
    /\ artifact = [r \in Ref |-> NoArtifact]
    /\ payload = [r \in Ref |-> "none"]

\* list_installed: a directory counts once its manifest file is there.
Listed(r) == artifact[r].manifest # Absent

\* os.replace onto a directory fails with ENOTEMPTY unless it is empty.
Occupied(r) == Listed(r) \/ artifact[r].meta

\* Mutant of Promoted: the meta file is not in the staging directory yet.
Promoted_WithoutMeta(a, r, m) == [a EXCEPT ![r] = [manifest |-> m, meta |-> FALSE]]

\* What becomes of the directories when r's staged files are renamed into place,
\* and when one of its files is unlinked.
Promoted(a, r, m) == [a EXCEPT ![r] = [manifest |-> m, meta |-> TRUE]]
NoMeta(a, r) == [a EXCEPT ![r] = [manifest |-> a[r].manifest, meta |-> FALSE]]
NoManifest(a, r) == [a EXCEPT ![r] = [manifest |-> Absent, meta |-> a[r].meta]]

\* What a recursive deletion of the payloads leaves when it cannot delete it all.
Leftovers(p) ==
    {q \in [Ref -> PayloadState] :
        /\ \A r \in Ref : q[r] # "none" => p[r] # "none" /\ q[r] \in {"partial", p[r]}
        /\ \E r \in Ref : q[r] # "none"}

\* A local entry that only overrides the shipped one (disabled by remove, or
\* bound to a token by OAuth onboarding); it has no install directory.
IsOverride(m) ==
    /\ Base[m.id] # Absent
    /\ m.version = Base[m.id].version
    /\ m.body = Base[m.id].body
=============================================================================
