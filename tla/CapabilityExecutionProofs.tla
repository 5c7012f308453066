--------------------- MODULE CapabilityExecutionProofs ---------------------
(***************************************************************************)
(* The properties of CapabilityExecution for every configuration of the     *)
(* egress rules, every set of manifests and every answer of a registry.     *)
(***************************************************************************)
EXTENDS CapabilityExecution, TLAPS, SequenceTheorems

\* What has been sent and executed is a matter of how far the run is.
Progress ==
    /\ pc \in {"gate", "execute"} => contacted = {} /\ effects = 0
    /\ pc \in {"discovering", "scan", "call"} => effects = 0
    /\ pc = "calling" => effects = 1
    /\ pc # "idle" => answer = "none"
    /\ pc = "idle" => effects \in {0, 1}

\* The server in hand is one the scan did not pass over.
Targeted ==
    pc \in {"call", "calling"} /\ manifest.kind = "mcp_tool" =>
        \E n \in DOMAIN listing : Offers(listing[n]) /\ url = CallUrl(listing[n])

Inv == TypeOK /\ Progress /\ Targeted /\ EgressKept /\ ManifestKept /\ AnswerIsTrue

\* The address of a tool is a URL.
LEMMA CallUrlType ==
    ASSUME NEW m \in Manifest, manifest = m, NEW s \in Server, s.base # Absent
    PROVE  CallUrl(s) \in Url
<1>1. s.base \in Url
    BY DEF Server
<1>2. <<"/tools", m.tool>> \in Seq(Labels)
    BY LabelsAssumption DEF Manifest
<1>3. s.base.path \o <<"/tools", m.tool>> \in Seq(Labels)
    BY <1>1, <1>2, ConcatProperties DEF Url
<1> QED
    BY <1>1, <1>3 DEF CallUrl, Url

LEMMA InitInv == Init => Inv
<1> SUFFICES ASSUME Init PROVE Inv
    OBVIOUS
<1>1. TypeOK
    BY ToolsAssumption, EmptySeq DEF Init, TypeOK, Manifest
<1>2. Progress /\ Targeted
    BY DEF Init, Progress, Targeted
<1>3. EgressKept /\ ManifestKept /\ AnswerIsTrue
    BY DEF Init, EgressKept, ManifestKept, AnswerIsTrue
<1> QED
    BY <1>1, <1>2, <1>3 DEF Inv

\* A destination both checks let through is one the two promises allow.
LEMMA CheckedIsKept ==
    ASSUME EgressKept, ManifestKept, NEW u, CheckUrl(u), ManifestAllows(manifest, u),
           contacted' = contacted \cup {u}, manifest' = manifest
    PROVE  EgressKept' /\ ManifestKept'
    BY DEF EgressKept, ManifestKept, CheckUrl, ManifestAllows

LEMMA NextInv == Inv /\ [Next]_vars => Inv'
<1> SUFFICES ASSUME Inv, [Next]_vars PROVE Inv'
    OBVIOUS
<1> USE DEF Inv
<1>1. ASSUME NEW m \in Tools, NEW ch \in Channels \cup {Absent}, Run(m, ch) PROVE Inv'
    <2>1. TypeOK'
        BY <1>1, ToolsAssumption, EmptySeq DEF Run, TypeOK, Manifest
    <2>2. Progress' /\ Targeted'
        BY <1>1 DEF Run, Progress, Targeted
    <2>3. EgressKept' /\ ManifestKept' /\ AnswerIsTrue'
        BY <1>1 DEF Run, EgressKept, ManifestKept, AnswerIsTrue
    <2> QED BY <2>1, <2>2, <2>3
<1>2. CASE Gate
    <2>1. TypeOK' /\ Progress' /\ AnswerIsTrue'
        BY <1>2 DEF Gate, Answer, TypeOK, Progress, AnswerIsTrue
    <2>2. Targeted' /\ EgressKept' /\ ManifestKept'
        BY <1>2 DEF Gate, Answer, Targeted, EgressKept, ManifestKept
    <2> QED BY <2>1, <2>2
<1>3. CASE Refuse
    <2>1. TypeOK' /\ Progress' /\ AnswerIsTrue'
        BY <1>3 DEF Refuse, Answer, TypeOK, Progress, AnswerIsTrue
    <2>2. Targeted' /\ EgressKept' /\ ManifestKept'
        BY <1>3 DEF Refuse, Answer, Targeted, EgressKept, ManifestKept
    <2> QED BY <2>1, <2>2
<1>4. CASE RunLocal
    <2>1. TypeOK' /\ Progress' /\ AnswerIsTrue'
        BY <1>4 DEF RunLocal, Answer, TypeOK, Progress, AnswerIsTrue
    <2>2. Targeted' /\ EgressKept' /\ ManifestKept'
        BY <1>4 DEF RunLocal, Answer, Targeted, EgressKept, ManifestKept
    <2> QED BY <2>1, <2>2
<1>5. CASE Discover \/ CallPeer
    <2>1. manifest.target \in Url
        BY ToolsAssumption DEF TypeOK, Manifest
    <2>2. TypeOK' /\ Progress' /\ AnswerIsTrue'
        BY <1>5, <2>1 DEF Discover, CallPeer, FirstHop, Answer, TypeOK, Progress, AnswerIsTrue
    <2>3. Targeted'
        BY <1>5 DEF Discover, CallPeer, FirstHop, Answer, Targeted
    <2>4. EgressKept' /\ ManifestKept'
        <3>1. manifest' = manifest
            BY <1>5 DEF Discover, CallPeer, FirstHop, Answer
        <3>2. CASE UNCHANGED contacted
            BY <3>1, <3>2 DEF EgressKept, ManifestKept
        <3>3. CASE ManifestAllows(manifest, manifest.target) /\ CheckUrl(manifest.target)
                   /\ contacted' = contacted \cup {manifest.target}
            BY <3>1, <3>3, CheckedIsKept
        <3> QED
            BY <1>5, <3>2, <3>3 DEF Discover, CallPeer, FirstHop
    <2> QED BY <2>2, <2>3, <2>4
<1>6. CASE RegistryAnswers
    <2>1. TypeOK' /\ Progress' /\ AnswerIsTrue'
        BY <1>6, ListingsAssumption
        DEF RegistryAnswers, Answer, TypeOK, Progress, AnswerIsTrue
    <2>2. Targeted' /\ EgressKept' /\ ManifestKept'
        BY <1>6 DEF RegistryAnswers, Answer, Targeted, EgressKept, ManifestKept
    <2> QED BY <2>1, <2>2
<1>7. CASE Scan
    <2>1. CASE Answer("failed")
        BY <1>7, <2>1 DEF Scan, Answer, TypeOK, Progress, Targeted, EgressKept,
            ManifestKept, AnswerIsTrue
    <2>2. CASE ~Answer("failed")
        <3>1. PICK n \in DOMAIN listing : Offers(listing[n]) /\ url' = CallUrl(listing[n])
            BY <1>7, <2>2 DEF Scan
        <3>2. pc = "scan" /\ pc' = "call"
              /\ UNCHANGED <<manifest, requested, listing, answer, contacted, effects>>
            BY <1>7, <2>2 DEF Scan
        <3>3. listing[n] \in Server /\ manifest \in Manifest
            BY <3>1, ToolsAssumption, ElementOfSeq DEF TypeOK
        <3>4. url' \in Url
            BY <3>1, <3>3, CallUrlType DEF Offers
        <3>5. TypeOK' /\ Progress' /\ AnswerIsTrue'
            BY <3>2, <3>4 DEF TypeOK, Progress, AnswerIsTrue
        <3>6. Targeted'
            BY <3>1, <3>2 DEF Targeted, Offers, CallUrl
        <3>7. EgressKept' /\ ManifestKept'
            BY <3>2 DEF EgressKept, ManifestKept
        <3> QED BY <3>5, <3>6, <3>7
    <2> QED BY <2>1, <2>2
<1>8. CASE Call
    <2>1. TypeOK' /\ Progress' /\ AnswerIsTrue'
        BY <1>8 DEF Call, Answer, TypeOK, Progress, AnswerIsTrue
    <2>2. Targeted'
        BY <1>8 DEF Call, Answer, Targeted, Offers, CallUrl
    <2>3. EgressKept' /\ ManifestKept'
        <3>1. manifest' = manifest
            BY <1>8 DEF Call, Answer
        <3>2. CASE UNCHANGED contacted
            BY <3>1, <3>2 DEF EgressKept, ManifestKept
        <3>3. CASE ManifestAllows(manifest, url) /\ CheckUrl(url)
                   /\ contacted' = contacted \cup {url}
            BY <3>1, <3>3, CheckedIsKept
        <3> QED
            BY <1>8, <3>2, <3>3 DEF Call
    <2> QED BY <2>1, <2>2, <2>3
<1>9. CASE CallAnswers
    <2>1. TypeOK' /\ Progress' /\ AnswerIsTrue'
        BY <1>9 DEF CallAnswers, Answer, TypeOK, Progress, AnswerIsTrue
    <2>2. Targeted' /\ EgressKept' /\ ManifestKept'
        BY <1>9 DEF CallAnswers, Answer, Targeted, EgressKept, ManifestKept
    <2> QED BY <2>1, <2>2
<1>10. CASE UNCHANGED vars
    <2>1. TypeOK' /\ Progress' /\ AnswerIsTrue'
        BY <1>10 DEF vars, TypeOK, Progress, AnswerIsTrue
    <2>2. Targeted' /\ EgressKept' /\ ManifestKept'
        BY <1>10 DEF vars, Targeted, EgressKept, ManifestKept, Offers, CallUrl
    <2> QED BY <2>1, <2>2
<1> QED
    BY <1>1, <1>2, <1>3, <1>4, <1>5, <1>6, <1>7, <1>8, <1>9, <1>10 DEF Next, Continue

\* Inv holds in every state of every run.
THEOREM Invariance == Spec => []Inv
<1> QED
    BY InitInv, NextInv, PTL DEF Spec

\* The state of a run keeps its type, whatever a registry lists.
THEOREM TypeCorrect == Spec => []TypeOK
<1>1. Inv => TypeOK
    BY DEF Inv
<1> QED
    BY <1>1, Invariance, PTL

\* No destination outside loopback is reached against the service's rules.
THEOREM EgressIsKept == Spec => []EgressKept
<1>1. Inv => EgressKept
    BY DEF Inv
<1> QED
    BY <1>1, Invariance, PTL

\* No destination is reached against the manifest's rules, on either hop.
THEOREM ManifestIsKept == Spec => []ManifestKept
<1>1. Inv => ManifestKept
    BY DEF Inv
<1> QED
    BY <1>1, Invariance, PTL

\* A run begins at most one execution, and its answer says whether it did.
THEOREM ExecutesOnce == Spec => []AnswerIsTrue
<1>1. Inv => AnswerIsTrue
    BY DEF Inv
<1> QED
    BY <1>1, Invariance, PTL

\* A tool is called where the registry listed it and the manifest pins it.
THEOREM CallsAsListed == Spec => []CalledAsListed
<1>1. Inv => CalledAsListed
    BY DEF Inv, Targeted, CalledAsListed, Offers
<1> QED
    BY <1>1, Invariance, PTL
=============================================================================
