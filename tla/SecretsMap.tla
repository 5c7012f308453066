----------------------------- MODULE SecretsMap -----------------------------
(***************************************************************************)
(* What the secrets backend promises its callers (SecretsBackend, the       *)
(* protocol of src/src/credential_secrets.py): a map from handles to values *)
(* on which put, get and delete take effect at once.  A call may be refused *)
(* with no effect; a put or a delete that answers an error, or that a crash *)
(* interrupts, has had its effect or not.                                   *)
(***************************************************************************)

CONSTANTS Client, Handles, Values, Absent

Request ==
    [op : {"put"}, handle : Handles, value : Values]
        \cup [op : {"get", "delete"}, handle : Handles]
NoRequest == [op |-> "none"]

NoSecrets == [h \in Handles |-> Absent]

\* "missing": get raises and delete returns False.
Answer(kind, value) == [kind |-> kind, value |-> value]
NoAnswer == Answer("none", Absent)

VARIABLES
    secrets,  \* the value under each handle, Absent if there is none
    asked,    \* the request each client waits for
    answer    \* what it is answered

mapVars == <<secrets, asked, answer>>

MapInit ==
    /\ secrets = NoSecrets
    /\ asked = [c \in Client |-> NoRequest]
    /\ answer = [c \in Client |-> NoAnswer]

Ask(c) ==
    /\ asked[c] = NoRequest
    /\ \E r \in Request : asked' = [asked EXCEPT ![c] = r]
    /\ UNCHANGED <<secrets, answer>>

Waits(c, op) == asked[c].op = op /\ answer[c] = NoAnswer

\* The file is replaced, but the fsync that makes it last may still fail.
Updated == {"ok", "error"}

Put(c) ==
    /\ Waits(c, "put")
    /\ secrets' = [secrets EXCEPT ![asked[c].handle] = asked[c].value]
    /\ \E kind \in Updated : answer' = [answer EXCEPT ![c] = Answer(kind, Absent)]
    /\ UNCHANGED asked

Get(c) ==
    /\ Waits(c, "get")
    /\ secrets[asked[c].handle] # Absent
    /\ answer' = [answer EXCEPT ![c] = Answer("ok", secrets[asked[c].handle])]
    /\ UNCHANGED <<secrets, asked>>

Delete(c) ==
    /\ Waits(c, "delete")
    /\ secrets[asked[c].handle] # Absent
    /\ secrets' = [secrets EXCEPT ![asked[c].handle] = Absent]
    /\ \E kind \in Updated : answer' = [answer EXCEPT ![c] = Answer(kind, Absent)]
    /\ UNCHANGED asked

Missing(c) ==
    /\ Waits(c, "get") \/ Waits(c, "delete")
    /\ secrets[asked[c].handle] = Absent
    /\ answer' = [answer EXCEPT ![c] = Answer("missing", Absent)]
    /\ UNCHANGED <<secrets, asked>>

Refuse(c) ==
    /\ asked[c] # NoRequest /\ answer[c] = NoAnswer
    /\ answer' = [answer EXCEPT ![c] = Answer("error", Absent)]
    /\ UNCHANGED <<secrets, asked>>

Respond(c) ==
    /\ answer[c] # NoAnswer
    /\ asked' = [asked EXCEPT ![c] = NoRequest]
    /\ answer' = [answer EXCEPT ![c] = NoAnswer]
    /\ UNCHANGED secrets

\* The process dies: nobody waits any more.
Crash ==
    /\ asked' = [c \in Client |-> NoRequest]
    /\ answer' = [c \in Client |-> NoAnswer]
    /\ UNCHANGED secrets

MapNext ==
    \/ Crash
    \/ \E c \in Client :
          Ask(c) \/ Put(c) \/ Get(c) \/ Delete(c) \/ Missing(c) \/ Refuse(c) \/ Respond(c)

MapSpec == MapInit /\ [][MapNext]_mapVars
=============================================================================
