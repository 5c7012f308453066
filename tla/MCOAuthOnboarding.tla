-------------------------- MODULE MCOAuthOnboarding --------------------------
(* Two connectors as the shipped catalog has them, disabled and in need of   *)
(* OAuth, and a few sessions.                                                *)
EXTENDS OAuthOnboarding, TLC

CONSTANTS t1, t2, s1, s2, s3

MCIds == {"calendar", "email"}
Connector(i) ==
    [id |-> i, version |-> "0.1.0", body |-> "shipped", trusted |-> TRUE,
     enabled |-> "false", oauth |-> TRUE, bound |-> FALSE]
MCBase == [i \in MCIds |-> Connector(i)]

\* Sessions are interchangeable, and so are threads.
Symmetry == Permutations(Onboarder) \cup Permutations(Session)
=============================================================================
