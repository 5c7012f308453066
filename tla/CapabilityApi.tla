---------------------------- MODULE CapabilityApi ----------------------------
(***************************************************************************)
(* The data of the capability service: manifests, catalogs, the requests   *)
(* clients send, and the pure rules the handlers apply to them.            *)
(*                                                                         *)
(* A manifest keeps the fields that some branch of the code looks at:      *)
(* `trusted' is "trust_level is in the policy's trust_allow", `oauth' is   *)
(* requires_oauth, `bound' is "a secret named OAUTH_* is referenced", and  *)
(* `body' stands for everything else.  A catalog is a total function on    *)
(* the identifiers whose value Absent stands for "no entry"; a missing     *)
(* local catalog file and an empty one are the same function, as they are  *)
(* for the loader.                                                         *)
(***************************************************************************)
EXTENDS Naturals

CONSTANTS
    Ids,        \* capability identifiers
    Versions,   \* version strings
    Bodies,     \* manifest contents that differ in no field read by the code
    Absent,     \* "no such entry", "no such file", "none named"
    Base,       \* manifest.base.json, shipped with the image
    Candidates, \* install candidates offered to /capability/install
    Requests,   \* the requests clients send
    AllowLegacy \* UNISON_CAPABILITY_ALLOW_LEGACY

Manifest == [id : Ids, version : Versions, body : Bodies, trusted : BOOLEAN,
             enabled : {"true", "false", "unset"},
             oauth : BOOLEAN, bound : BOOLEAN]

\* A catalog file: every entry is filed under its own identifier.
Catalog == {c \in [Ids -> Manifest \cup {Absent}] :
               \A i \in Ids : c[i] # Absent => c[i].id = i}

\* A candidate: its manifest, the manifest its manifest_url and digest pin
\* down (Absent: no manifest_url), and whether origin.path names a payload.
Candidate == [manifest : Manifest, pinned : Manifest \cup {Absent}, path : BOOLEAN]

\* What a client can ask for.  Absent as a version: the caller names none.
InstallRequest == [op : {"install"}, cand : Candidates]
RemoveRequest  == [op : {"remove"}, id : Ids, version : Versions]
ReadRequest    == [op : {"get", "run"}, id : Ids, version : Versions \cup {Absent}]
ResetRequest   == [op : {"reset"}]
Request == InstallRequest \cup RemoveRequest \cup ReadRequest \cup ResetRequest
NoRequest == [op |-> "none"]

ASSUME AbsentAssumption     == Absent \notin Manifest
ASSUME BaseAssumption       == Base \in Catalog
ASSUME CandidatesAssumption == Candidates \subseteq Candidate
ASSUME RequestsAssumption   == Requests \subseteq Request
ASSUME LegacyAssumption     == AllowLegacy \in BOOLEAN

EmptyCatalog == [i \in Ids |-> Absent]

\* merged_catalog: an entry of the local catalog hides the base entry.
Merged(loc) == [i \in Ids |-> IF loc[i] # Absent THEN loc[i] ELSE Base[i]]

\* upsert_local and delete_local on a catalog already read from the file.
Put(loc, m) == [loc EXCEPT ![m.id] = m]
Drop(loc, i) == [loc EXCEPT ![i] = Absent]

\* Mutant of Disabled: None is written where False is meant.
Disabled_WritesNone(m) == [m EXCEPT !.enabled = "null"]

\* set_local_enabled(enabled=False): the entry it writes into the local catalog.
Disabled(m) == [m EXCEPT !.enabled = "false"]

\* get: the entry found is of the version asked for, if one is.
Matches(r, m) == m # Absent /\ r.version \in {Absent, m.version}

\* enforce_run for a call that names no execution channel, and the gate on
\* manifests without governance (no catalog entry can have it: schema.py).
RunAllowed(m) ==
    /\ m.enabled # "false"
    /\ m.oauth => m.bound
    /\ AllowLegacy

\* What a get answers and a run executes.
Readable(r, m) == Matches(r, m) /\ (r.op = "run" => RunAllowed(m))

\* The manifest an install puts in place: the pinned remote one, if any.
Chosen(cand) == IF cand.pinned = Absent THEN cand.manifest ELSE cand.pinned
=============================================================================
