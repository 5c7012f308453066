------------------------- MODULE MCCapabilitySystem -------------------------
(* A shipped connector, disabled and in need of OAuth, and a tool that can be *)
(* installed; clients install, remove, run and reset while one onboards.      *)
EXTENDS CapabilitySystem, TLC

CONSTANTS w1, w2, t1, t2, s1, s2

ManifestOf(i) ==
    [id |-> i, version |-> "1", body |-> "a", trusted |-> TRUE,
     enabled |-> "unset", oauth |-> FALSE, bound |-> FALSE]

MCIds == {"calendar", "echo"}
MCConnectors == {"calendar"}
Calendar == [ManifestOf("calendar") EXCEPT !.enabled = "false", !.oauth = TRUE]
MCBase == [i \in MCIds |-> IF i = "calendar" THEN Calendar ELSE Absent]
MCCandidates ==
    {[manifest |-> ManifestOf("echo"), pinned |-> Absent, path |-> FALSE],
     [manifest |-> [ManifestOf("echo") EXCEPT !.trusted = FALSE, !.body = "b"],
      pinned |-> Absent, path |-> FALSE]}

MCRequests ==
    [op : {"install"}, cand : MCCandidates]
        \cup {[op |-> "remove", id |-> "calendar", version |-> "1"],
              [op |-> "run", id |-> "calendar", version |-> Absent],
              [op |-> "reset"]}

Symmetry == Permutations(Worker) \cup Permutations(Onboarder) \cup Permutations(Session)
=============================================================================
