-------------------------- MODULE CapabilityCatalog --------------------------
(***************************************************************************)
(* What the service promises of its catalog: every operation a client asks *)
(* for takes effect at one instant between the request and the answer, or  *)
(* not at all.  An install or a removal that fails may have taken effect; a *)
(* reset that fails has not.  A crash drops the unanswered requests, each   *)
(* with or without its effect.                                             *)
(***************************************************************************)
EXTENDS CapabilityApi

CONSTANT Client

VARIABLES
    overrides,  \* the local catalog
    asked,      \* the request each client waits for
    result      \* its outcome, once it took effect

vars == <<overrides, asked, result>>

NoResult == [kind |-> "none", manifest |-> Absent]
Result == [kind : {"none", "ok", "error", "absent"}, manifest : Manifest \cup {Absent}]

TypeOK ==
    /\ overrides \in Catalog
    /\ asked \in [Client -> Requests \cup {NoRequest}]
    /\ result \in [Client -> Result]

Init ==
    /\ overrides = EmptyCatalog
    /\ asked = [c \in Client |-> NoRequest]
    /\ result = [c \in Client |-> NoResult]

Ask(c) ==
    /\ asked[c] = NoRequest
    /\ \E r \in Requests : asked' = [asked EXCEPT ![c] = r]
    /\ UNCHANGED <<overrides, result>>

Pending(c, ops) == asked[c].op \in ops /\ result[c] = NoResult

\* The file is replaced, but the fsync that makes it last may still fail.
Updated == {"ok", "error"}

Answer(c, k, m) == result' = [result EXCEPT ![c] = [kind |-> k, manifest |-> m]]

Install(c) ==
    /\ Pending(c, {"install"})
    /\ asked[c].cand.manifest.trusted
    /\ overrides' = Put(overrides, Chosen(asked[c].cand))
    /\ \E k \in Updated : Answer(c, k, Absent)
    /\ UNCHANGED asked

\* Deletes the override, or disables the shipped capability by a new override.
Remove(c) ==
    LET i == asked[c].id IN
    /\ Pending(c, {"remove"})
    /\ \/ /\ overrides[i] # Absent
          /\ overrides' = Drop(overrides, i)
       \/ /\ overrides[i] = Absent /\ Base[i] # Absent
          /\ overrides' = Put(overrides, Disabled(Base[i]))
    /\ \E k \in Updated : Answer(c, k, Absent)
    /\ UNCHANGED asked

RemoveNothing(c) ==
    /\ Pending(c, {"remove"})
    /\ Merged(overrides)[asked[c].id] = Absent
    /\ Answer(c, "absent", Absent)
    /\ UNCHANGED <<overrides, asked>>

Read(c) ==
    LET m == Merged(overrides)[asked[c].id] IN
    /\ Pending(c, {"get", "run"})
    /\ IF Readable(asked[c], m) THEN Answer(c, "ok", m) ELSE Answer(c, "error", Absent)
    /\ UNCHANGED <<overrides, asked>>

Reset(c) ==
    /\ Pending(c, {"reset"})
    /\ overrides' = EmptyCatalog
    /\ Answer(c, "ok", Absent)
    /\ UNCHANGED asked

\* It fails without effect.
Refuse(c) ==
    /\ Pending(c, {"install", "remove", "reset"})
    /\ Answer(c, "error", Absent)
    /\ UNCHANGED <<overrides, asked>>

Respond(c) ==
    /\ result[c] # NoResult
    /\ asked' = [asked EXCEPT ![c] = NoRequest]
    /\ result' = [result EXCEPT ![c] = NoResult]
    /\ UNCHANGED overrides

Crash ==
    /\ asked' = [c \in Client |-> NoRequest]
    /\ result' = [c \in Client |-> NoResult]
    /\ UNCHANGED overrides

Next ==
    \/ Crash
    \/ \E c \in Client :
          \/ Ask(c) \/ Respond(c)
          \/ Install(c) \/ Remove(c) \/ RemoveNothing(c) \/ Read(c) \/ Reset(c) \/ Refuse(c)

Spec == Init /\ [][Next]_vars
=============================================================================
