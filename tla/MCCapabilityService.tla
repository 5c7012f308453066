------------------------- MODULE MCCapabilityService -------------------------
(* A small instance: one shipped tool and one that can be installed, with two *)
(* versions and two contents under the same version.                          *)
EXTENDS CapabilityService, TLC

CONSTANTS w1, w2, w3

ManifestOf(i, v, b) ==
    [id |-> i, version |-> v, body |-> b, trusted |-> TRUE,
     enabled |-> "unset", oauth |-> FALSE, bound |-> FALSE]

MCIds == {"files", "echo"}
MCVersions == {"1", "2"}
MCBodies == {"a", "b"}
MCBase == [i \in MCIds |-> IF i = "files"
              THEN [ManifestOf(i, "1", "a") EXCEPT !.enabled = "true"] ELSE Absent]

Candid(m, pinned, path) == [manifest |-> m, pinned |-> pinned, path |-> path]
Echo1a == ManifestOf("echo", "1", "a")
Echo1b == ManifestOf("echo", "1", "b")
Echo2a == ManifestOf("echo", "2", "a")
Files2 == [ManifestOf("files", "2", "b") EXCEPT !.oauth = TRUE]

\* A plain install, a local one with a payload, a remote one whose manifest is
\* another content, an update of the shipped tool, and one the policy refuses.
MCCandidates ==
    {Candid(Echo1a, Absent, TRUE), Candid(Echo2a, Echo1b, FALSE),
     Candid(Files2, Absent, FALSE),
     Candid([Echo1b EXCEPT !.trusted = FALSE], Absent, FALSE)}

Installs == [op : {"install"}, cand : MCCandidates]
Removes == {[op |-> "remove", id |-> "echo", version |-> "1"],
            [op |-> "remove", id |-> "files", version |-> "2"]}
Reads == {[op |-> "run", id |-> "echo", version |-> Absent],
          [op |-> "run", id |-> "files", version |-> Absent],
          [op |-> "get", id |-> "files", version |-> "2"]}
Reset == [op |-> "reset"]
MCRequests == Installs \cup Removes \cup Reads \cup {Reset}

WorkerSymmetry == Permutations(Worker)
=============================================================================
