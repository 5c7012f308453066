---------------------------- MODULE SecretsStore ----------------------------
(***************************************************************************)
(* FileFernetSecretsBackend of src/src/credential_secrets.py: one encrypted *)
(* file that put and delete read, change and write back whole, under the    *)
(* reader/writer lock locks/secrets.lock.  Every request builds a backend   *)
(* of its own, with the key its environment gives; under                    *)
(* UNISON_CAPABILITY_SECRETS_DEV_AUTOGEN that is a new key every time.      *)
(***************************************************************************)
EXTENDS Naturals

CONSTANTS
    Client,     \* threads that call the backend
    Handles,    \* secret://... handles
    Values,     \* the objects stored under them
    Keys,       \* the Fernet keys backends are built with
    Absent,     \* no value, no file, no data read
    MaxCalls,   \* bound: calls in a behaviour
    MaxCrashes  \* bound: crashes in a behaviour

Secrets == [Handles -> Values \cup {Absent}]
Encrypted == [key : Keys, data : Secrets]

ASSUME ValuesAssumption == Absent \notin Values \cup Encrypted \cup Secrets
ASSUME CallBounds == MaxCalls \in Nat /\ MaxCrashes \in Nat

Request ==
    [op : {"put"}, handle : Handles, value : Values]
        \cup [op : {"get", "delete"}, handle : Handles]
NoRequest == [op |-> "none"]

Answer(kind, value) == [kind |-> kind, value |-> value]
NoAnswer == Answer("none", Absent)
Answers == [kind : {"none", "ok", "missing", "error"}, value : Values \cup {Absent}]

VARIABLES
    file,       \* secrets.enc.json
    pc,         \* where each client is in its call
    req,        \* what it calls
    key,        \* the key of its backend
    data,       \* the plaintext it read
    answer,     \* what it is answered
    shared,     \* the clients that hold LOCK_SH on secrets.lock
    exclusive,  \* the clients that hold LOCK_EX on it
    calls,      \* calls so far
    crashes     \* crashes so far

vars == <<file, pc, req, key, data, answer, shared, exclusive, calls, crashes>>

TypeOK ==
    /\ file \in Encrypted \cup {Absent}
    /\ pc \in [Client -> {"idle", "lock", "read", "write", "release"}]
    /\ req \in [Client -> Request \cup {NoRequest}]
    /\ key \in [Client -> Keys \cup {Absent}]
    /\ data \in [Client -> Secrets \cup {Absent}]
    /\ answer \in [Client -> Answers]
    /\ shared \in SUBSET Client
    /\ exclusive \in SUBSET Client
    /\ calls \in 0..MaxCalls
    /\ crashes \in 0..MaxCrashes

Init ==
    /\ file = Absent
    /\ pc = [c \in Client |-> "idle"]
    /\ req = [c \in Client |-> NoRequest]
    /\ key = [c \in Client |-> Absent]
    /\ data = [c \in Client |-> Absent]
    /\ answer = [c \in Client |-> NoAnswer]
    /\ shared = {}
    /\ exclusive = {}
    /\ calls = 0
    /\ crashes = 0

Step(c, from, to) == pc[c] = from /\ pc' = [pc EXCEPT ![c] = to]
Settle(c, kind, value) == answer' = [answer EXCEPT ![c] = Answer(kind, value)]

\* A file that is not there holds no secrets.
Content == IF file = Absent THEN [h \in Handles |-> Absent] ELSE file.data

\* Mutant of Decrypts: any key will do.
Decrypts_AnyKey(c) == TRUE

\* Fernet.decrypt accepts the token under the key that made it and no other.
Decrypts(c) == file # Absent => file.key = key[c]

-----------------------------------------------------------------------------

\* A request comes in and its backend is built (from_env).
Call(c) ==
    /\ calls < MaxCalls
    /\ Step(c, "idle", "lock")
    /\ calls' = calls + 1
    /\ \E r \in Request : req' = [req EXCEPT ![c] = r]
    /\ \E k \in Keys : key' = [key EXCEPT ![c] = k]
    /\ UNCHANGED <<file, data, answer, shared, exclusive, crashes>>

\* Mutant of CanExclude: the lock is not waited for.
CanExclude_NeverBlocks == TRUE

CanExclude == exclusive = {} /\ shared = {}

LockExclusive(c) ==
    /\ req[c].op \in {"put", "delete"}
    /\ CanExclude
    /\ Step(c, "lock", "read")
    /\ exclusive' = exclusive \cup {c}
    /\ UNCHANGED <<file, req, key, data, answer, shared, calls, crashes>>

LockShared(c) ==
    /\ req[c].op = "get"
    /\ exclusive = {}
    /\ Step(c, "lock", "read")
    /\ shared' = shared \cup {c}
    /\ UNCHANGED <<file, req, key, data, answer, exclusive, calls, crashes>>

\* _read_all raises: the token does not decrypt, or the file cannot be read.
ReadFails(c) ==
    /\ Step(c, "read", "release")
    /\ Settle(c, "error", Absent)
    /\ UNCHANGED <<file, req, key, data, shared, exclusive, calls, crashes>>

\* get and delete find no such handle.
ReadMisses(c) ==
    /\ Decrypts(c)
    /\ req[c].op \in {"get", "delete"} /\ Content[req[c].handle] = Absent
    /\ Step(c, "read", "release")
    /\ Settle(c, "missing", Absent)
    /\ UNCHANGED <<file, req, key, data, shared, exclusive, calls, crashes>>

ReadFinds(c) ==
    /\ Decrypts(c)
    /\ req[c].op = "get" /\ Content[req[c].handle] # Absent
    /\ Step(c, "read", "release")
    /\ Settle(c, "ok", Content[req[c].handle])
    /\ UNCHANGED <<file, req, key, data, shared, exclusive, calls, crashes>>

\* put and delete go on with the plaintext they read.
ReadToWrite(c) ==
    /\ Decrypts(c)
    /\ req[c].op = "put" \/ (req[c].op = "delete" /\ Content[req[c].handle] # Absent)
    /\ Step(c, "read", "write")
    /\ data' = [data EXCEPT ![c] = Content]
    /\ UNCHANGED <<file, req, key, answer, shared, exclusive, calls, crashes>>

\* The change put and delete make to the plaintext.
Changed(d, r) ==
    [d EXCEPT ![r.handle] = IF r.op = "put" THEN r.value ELSE Absent]

\* Mutant of Write: the plaintext is written without encrypting it.
Write_Plain(c) ==
    /\ Step(c, "write", "release")
    /\ file' = [key |-> Absent, data |-> Changed(data[c], req[c])]
    /\ Settle(c, "ok", Absent)
    /\ UNCHANGED <<req, key, data, shared, exclusive, calls, crashes>>

\* _write_all: encrypted under the backend's own key, swapped in one step; the fsync
\* that follows may still raise.
Write(c) ==
    /\ Step(c, "write", "release")
    /\ file' = [key |-> key[c], data |-> Changed(data[c], req[c])]
    /\ \E kind \in {"ok", "error"} : Settle(c, kind, Absent)
    /\ UNCHANGED <<req, key, data, shared, exclusive, calls, crashes>>

\* The write fails before the file is replaced.
WriteFails(c) ==
    /\ Step(c, "write", "release")
    /\ Settle(c, "error", Absent)
    /\ UNCHANGED <<file, req, key, data, shared, exclusive, calls, crashes>>

\* The lock is released and the call returns or raises.
Return(c) ==
    /\ Step(c, "release", "idle")
    /\ req' = [req EXCEPT ![c] = NoRequest]
    /\ key' = [key EXCEPT ![c] = Absent]
    /\ data' = [data EXCEPT ![c] = Absent]
    /\ answer' = [answer EXCEPT ![c] = NoAnswer]
    /\ shared' = shared \ {c}
    /\ exclusive' = exclusive \ {c}
    /\ UNCHANGED <<file, calls, crashes>>

Crash ==
    /\ crashes < MaxCrashes
    /\ crashes' = crashes + 1
    /\ pc' = [c \in Client |-> "idle"]
    /\ req' = [c \in Client |-> NoRequest]
    /\ key' = [c \in Client |-> Absent]
    /\ data' = [c \in Client |-> Absent]
    /\ answer' = [c \in Client |-> NoAnswer]
    /\ shared' = {}
    /\ exclusive' = {}
    /\ UNCHANGED <<file, calls>>

Next ==
    \/ Crash
    \/ \E c \in Client :
          \/ Call(c) \/ LockExclusive(c) \/ LockShared(c)
          \/ ReadFails(c) \/ ReadMisses(c) \/ ReadFinds(c) \/ ReadToWrite(c)
          \/ Write(c) \/ WriteFails(c) \/ Return(c)

Spec == Init /\ [][Next]_vars

-----------------------------------------------------------------------------

\* A writer's plaintext is the file's, and its key the file's, until it has
\* written: no put or delete undoes another one (credential_secrets.py, put).
WriteIsFresh ==
    \A c \in Client : pc[c] = "write" => data[c] = Content /\ Decrypts(c)

\* Once the file is there it stays, under the key it was made with: a backend
\* with another key fails its calls and replaces nothing (_read_all).
KeyKept == [][file # Absent => file' # Absent /\ file'.key = file.key]_vars

Map == INSTANCE SecretsMap
    WITH secrets <- Content, asked <- req

\* The backend is an atomic map, whatever interleaves, fails or crashes.
ImplementsSecretsMap == Map!MapSpec

\* The inductive invariant: the lock excludes, a call past "lock" holds it in its
\* mode, and an answer is there exactly when the call is about to return.
Exclusion == \A c \in exclusive : exclusive = {c} /\ shared = {}
InCall ==
    \A c \in Client :
        /\ pc[c] = "idle" <=> req[c] = NoRequest
        /\ pc[c] # "idle" => key[c] \in Keys
        /\ pc[c] \in {"read", "write", "release"} =>
              IF req[c].op = "get" THEN c \in shared ELSE c \in exclusive
        /\ pc[c] = "write" =>
              req[c].op = "put" \/ (req[c].op = "delete" /\ Content[req[c].handle] # Absent)
        /\ pc[c] # "release" => answer[c] = NoAnswer
        /\ pc[c] = "release" => answer[c].kind # "none"
Inv == TypeOK /\ Exclusion /\ InCall /\ WriteIsFresh
=============================================================================
