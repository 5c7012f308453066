-------------------------- MODULE CapabilityService --------------------------
(***************************************************************************)
(* The request handlers of src/src/server.py that work on the store through *)
(* CapabilityResolver, one step per file operation, run by a pool of worker *)
(* threads under the reader/writer file lock locks/store.lock, with crashes *)
(* of the process and restarts by its supervisor.                           *)
(*                                                                         *)
(* A worker takes a request ("lock"), waits for the lock in the mode the    *)
(* handler asks for, goes through the handler's steps, and releases the     *)
(* lock as it answers ("unlock" -> "idle").                                 *)
(***************************************************************************)
EXTENDS CapabilityStore, FiniteSets

CONSTANTS
    Worker,       \* threads of the server's pool
    MaxCalls,     \* bound: requests taken in a behaviour
    MaxCrashes,   \* bound: crashes in a behaviour
    MaxDiskErrors \* bound: errors of the disk after half of the work

ASSUME WorkerAssumption == IsFiniteSet(Worker)
ASSUME BoundsAssumption ==
    MaxCalls \in Nat /\ MaxCrashes \in Nat /\ MaxDiskErrors \in Nat

PC == {"idle", "lock", "unlock",
       "check", "fetch", "exists", "stage", "promote", "clean",
       "load", "write", "payload",
       "find", "drop", "disable", "unmeta", "unmanifest", "unpayload",
       "nest", "read", "exec",
       "unlink", "rmmanifests", "rmpayloads", "rmtmp"}

\* What the handler is going to answer ("none": not settled yet); get answers
\* the manifest in hand, run the result of executing it.
Answer == {"none", "ok", "error", "absent"}

VARIABLES
    pc,         \* where each worker is in its handler
    req,        \* the request it serves
    man,        \* the manifest it works on
    snap,       \* the local catalog it read for its next write
    answer,     \* what it is going to answer, once that is settled
    stage,      \* the manifest in its staging directory
    found,      \* history: the manifest its install found installed already
    shared,     \* its LOCK_SH descriptors on store.lock (run nests two)
    exclusive,  \* the workers that hold LOCK_EX on store.lock
    orphans,    \* staging directories nobody is going to sweep
    resetsCut,  \* history: factory resets that left files of install directories
    calls,      \* requests taken so far
    crashes,    \* crashes so far
    diskErrors  \* disk errors so far that struck after half of the work

workerVars == <<pc, req, man, snap, answer, stage, found>>
lockVars   == <<shared, exclusive>>
faultVars  == <<orphans, resetsCut, crashes, diskErrors>>
vars == <<storeVars, workerVars, lockVars, faultVars, calls>>

TypeOK ==
    /\ StoreTypeOK
    /\ pc \in [Worker -> PC]
    /\ req \in [Worker -> Requests \cup {NoRequest}]
    /\ man \in [Worker -> Manifest \cup {Absent}]
    /\ snap \in [Worker -> Catalog \cup {Absent}]
    /\ answer \in [Worker -> Answer]
    /\ stage \in [Worker -> Manifest \cup {Absent}]
    /\ found \in [Worker -> Manifest \cup {Absent}]
    /\ shared \in [Worker -> 0..2]
    /\ exclusive \in SUBSET Worker
    /\ orphans \in Nat
    /\ resetsCut \in Nat
    /\ calls \in 0..MaxCalls
    /\ crashes \in 0..MaxCrashes
    /\ diskErrors \in 0..MaxDiskErrors

Init ==
    /\ StoreInit
    /\ pc = [w \in Worker |-> "idle"]
    /\ req = [w \in Worker |-> NoRequest]
    /\ man = [w \in Worker |-> Absent]
    /\ snap = [w \in Worker |-> Absent]
    /\ answer = [w \in Worker |-> "none"]
    /\ stage = [w \in Worker |-> Absent]
    /\ found = [w \in Worker |-> Absent]
    /\ shared = [w \in Worker |-> 0]
    /\ exclusive = {}
    /\ orphans = 0
    /\ resetsCut = 0
    /\ calls = 0
    /\ crashes = 0
    /\ diskErrors = 0

Goto(w, to) == pc' = [pc EXCEPT ![w] = to]
Step(w, from, to) == pc[w] = from /\ Goto(w, to)

Settle(w, a) == answer' = [answer EXCEPT ![w] = a]

\* The handler raises: it leaves through the `with' statement's exit.
Fail(w) == Goto(w, "unlock") /\ Settle(w, "error")

\* The disk fails an unlink, or an fsync after the rename it follows.
DiskError == diskErrors < MaxDiskErrors /\ diskErrors' = diskErrors + 1

-----------------------------------------------------------------------------
(* FileLock: flock on a descriptor opened for the call.  The kernel prefers *)
(* no waiter: a waiting LOCK_EX does not hold up a new LOCK_SH.             *)

\* Mutant of CanShare: a fair lock, where readers queue behind waiting writers.
CanShare_QueuesBehindWriters(w) ==
    exclusive = {} /\ \A v \in Worker :
        pc[v] = "lock" => req[v].op \notin {"install", "remove", "reset"}

\* Mutants of CanExclude: readers are not waited for; a LOCK_NB failure is ignored.
CanExclude_IgnoresReaders(w) == exclusive = {}
CanExclude_NeverBlocks(w) == TRUE

CanShare(w) == exclusive = {}
CanExclude(w) == exclusive = {} /\ \A v \in Worker : shared[v] = 0

Writes(r) == r.op \in {"install", "remove", "reset"}

FirstStep(r) ==
    CASE r.op = "install" -> "check"
      [] r.op = "remove"  -> "find"
      [] r.op = "get"     -> "read"
      [] r.op = "run"     -> "nest"
      [] r.op = "reset"   -> "unlink"

\* A pool thread takes a request.
Call(w) ==
    /\ calls < MaxCalls
    /\ Step(w, "idle", "lock")
    /\ calls' = calls + 1
    /\ \E r \in Requests : req' = [req EXCEPT ![w] = r]
    /\ UNCHANGED <<storeVars, man, snap, answer, stage, found, lockVars, faultVars>>

LockExclusive(w) ==
    /\ Writes(req[w]) /\ CanExclude(w)
    /\ Step(w, "lock", FirstStep(req[w]))
    /\ exclusive' = exclusive \cup {w}
    /\ UNCHANGED <<storeVars, req, man, snap, answer, stage, found, shared, faultVars, calls>>

LockShared(w) ==
    /\ ~Writes(req[w]) /\ CanShare(w)
    /\ Step(w, "lock", FirstStep(req[w]))
    /\ shared' = [shared EXCEPT ![w] = 1]
    /\ UNCHANGED <<storeVars, req, man, snap, answer, stage, found, exclusive, faultVars, calls>>

\* The handler releases the lock and answers.
Return(w) ==
    /\ Step(w, "unlock", "idle")
    /\ req' = [req EXCEPT ![w] = NoRequest]
    /\ man' = [man EXCEPT ![w] = Absent]
    /\ snap' = [snap EXCEPT ![w] = Absent]
    /\ answer' = [answer EXCEPT ![w] = "none"]
    /\ found' = [found EXCEPT ![w] = Absent]
    /\ shared' = [shared EXCEPT ![w] = 0]
    /\ exclusive' = exclusive \ {w}
    /\ UNCHANGED <<storeVars, stage, faultVars, calls>>

-----------------------------------------------------------------------------
(* The local catalog is read and written back whole; both writers come here *)
(* with the entry to write in man, or Absent to delete req.id.              *)

LoadLocal(w) ==
    /\ Step(w, "load", "write")
    /\ snap' = [snap EXCEPT ![w] = local]
    /\ UNCHANGED <<storeVars, req, man, answer, stage, found, lockVars, faultVars, calls>>

\* _write_local_catalog: os.replace swaps the file in one step; the handler raises
\* when the write fails before it, or the fsync of the directory after it.
WriteLocal(w) ==
    LET Written == local' = IF man[w] # Absent THEN Put(snap[w], man[w])
                                               ELSE Drop(snap[w], req[w].id)
    IN
    /\ pc[w] = "write"
    /\ \/ /\ Goto(w, IF req[w].op = "install" THEN "payload" ELSE "unmeta")
          /\ Settle(w, "ok") /\ Written /\ UNCHANGED diskErrors
       \/ Fail(w) /\ UNCHANGED <<local, diskErrors>>
       \/ Fail(w) /\ Written /\ DiskError
    /\ UNCHANGED <<artifact, payload, req, man, snap, stage, found, lockVars,
                   orphans, resetsCut, crashes, calls>>

-----------------------------------------------------------------------------
(* CapabilityResolver.install                                               *)

\* Mutant of InstallCheck: the policy is not asked.
InstallCheck_NoPolicy(w) ==
    /\ Step(w, "check", IF req[w].cand.pinned = Absent THEN "exists" ELSE "fetch")
    /\ man' = [man EXCEPT ![w] = req[w].cand.manifest]
    /\ UNCHANGED <<storeVars, req, snap, answer, stage, found, lockVars, faultVars, calls>>

\* validate_manifest and enforce_install on the candidate's own manifest.
InstallCheck(w) ==
    /\ pc[w] = "check"
    /\ \/ /\ ~req[w].cand.manifest.trusted
          /\ Fail(w)
          /\ UNCHANGED man
       \/ /\ req[w].cand.manifest.trusted
          /\ Goto(w, IF req[w].cand.pinned = Absent THEN "exists" ELSE "fetch")
          /\ man' = [man EXCEPT ![w] = req[w].cand.manifest]
          /\ UNCHANGED answer
    /\ UNCHANGED <<storeVars, req, snap, stage, found, lockVars, faultVars, calls>>

\* The remote manifest replaces the candidate's if it is the pinned one; an
\* error of the request, an invalid manifest or another digest fail the call.
InstallFetch(w) ==
    /\ pc[w] = "fetch"
    /\ \/ /\ Goto(w, "exists")
          /\ man' = [man EXCEPT ![w] = req[w].cand.pinned]
          /\ UNCHANGED answer
       \/ Fail(w) /\ UNCHANGED man
    /\ UNCHANGED <<storeVars, req, snap, stage, found, lockVars, faultVars, calls>>

\* Mutant of InstallExists: an installed version is overwritten in place.
InstallExists_Overwrites(w) ==
    LET r == RefOf(man[w]) IN
    /\ Step(w, "exists", IF Listed(r) THEN "load" ELSE "stage")
    /\ artifact' = IF Listed(r) THEN Promoted(artifact, r, man[w]) ELSE artifact
    /\ UNCHANGED <<local, payload, req, man, snap, answer, stage, found, lockVars,
                   faultVars, calls>>

\* install_manifest_atomic: a manifest already in place is left alone.
InstallExists(w) ==
    LET r == RefOf(man[w]) IN
    /\ pc[w] = "exists"
    /\ \/ Listed(r) /\ Goto(w, "load") /\ found' = [found EXCEPT ![w] = artifact[r].manifest]
       \/ ~Listed(r) /\ Goto(w, "stage") /\ UNCHANGED found
    /\ UNCHANGED <<storeVars, req, man, snap, answer, stage, lockVars, faultVars, calls>>

\* Writes manifest and meta into a fresh staging directory; when that fails
\* the directory is swept away and the call answers an error.
InstallStage(w) ==
    /\ pc[w] = "stage"
    /\ stage' = [stage EXCEPT ![w] = man[w]]
    /\ \/ Goto(w, "promote") /\ UNCHANGED answer
       \/ Goto(w, "clean") /\ Settle(w, "error")
    /\ UNCHANGED <<storeVars, req, man, snap, found, lockVars, faultVars, calls>>

\* Mutant of InstallPromote: every error of os.replace counts as installed.
InstallPromote_SwallowsErrors(w) ==
    LET r == RefOf(man[w]) IN
    /\ Step(w, "promote", "clean")
    /\ \/ ~Occupied(r) /\ artifact' = Promoted(artifact, r, stage[w])
       \/ UNCHANGED artifact
    /\ UNCHANGED <<local, payload, req, man, snap, answer, stage, found, lockVars,
                   faultVars, calls>>

\* os.replace moves both files at once, and the fsync after it may still raise;
\* ENOTEMPTY counts as installed.
InstallPromote(w) ==
    LET r == RefOf(man[w]) IN
    /\ Step(w, "promote", "clean")
    /\ \/ /\ ~Occupied(r)
          /\ artifact' = Promoted(artifact, r, stage[w])
          /\ \/ UNCHANGED <<answer, diskErrors>>
             \/ Settle(w, "error") /\ DiskError
       \/ Occupied(r) /\ UNCHANGED <<artifact, answer, diskErrors>>
       \/ Settle(w, "error") /\ UNCHANGED <<artifact, diskErrors>>
    /\ UNCHANGED <<local, payload, req, man, snap, stage, found, lockVars,
                   orphans, resetsCut, crashes, calls>>

\* Mutant of InstallClean: the `finally' clause is missing.
InstallClean_Leaves(w) ==
    /\ Step(w, "clean", IF answer[w] = "error" THEN "unlock" ELSE "load")
    /\ UNCHANGED <<storeVars, req, man, snap, answer, stage, found, lockVars, faultVars, calls>>

\* The `finally' clause removes what is left of the staging directory, and ignores
\* it when it cannot.
InstallClean(w) ==
    /\ Step(w, "clean", IF answer[w] = "error" THEN "unlock" ELSE "load")
    /\ stage' = [stage EXCEPT ![w] = Absent]
    /\ \/ UNCHANGED <<orphans, diskErrors>>
       \/ DiskError /\ orphans' = orphans + 1
    /\ UNCHANGED <<storeVars, req, man, snap, answer, found, lockVars,
                   resetsCut, crashes, calls>>

\* put_payload_from_path; its errors are swallowed.
InstallPayload(w) ==
    LET r == RefOf(man[w]) IN
    /\ pc[w] = "payload"
    /\ \/ /\ req[w].cand.path
          /\ \/ Goto(w, "unlock") /\ payload' = [payload EXCEPT ![r] = "whole"]
             \/ /\ payload[r] # "partial"
                /\ payload' = [payload EXCEPT ![r] = "partial"]
                /\ UNCHANGED pc
             \/ Goto(w, "unlock") /\ UNCHANGED payload
       \/ ~req[w].cand.path /\ Goto(w, "unlock") /\ UNCHANGED payload
    /\ UNCHANGED <<local, artifact, req, man, snap, answer, stage, found, lockVars,
                   faultVars, calls>>

-----------------------------------------------------------------------------
(* CapabilityResolver.remove                                                *)

\* Mutant of RemoveFind: only the local catalog is searched.
RemoveFind_LocalOnly(w) ==
    /\ pc[w] = "find"
    /\ \/ /\ local[req[w].id] = Absent
          /\ Goto(w, "unlock") /\ Settle(w, "absent")
       \/ /\ local[req[w].id] # Absent
          /\ Goto(w, "drop") /\ UNCHANGED answer
    /\ UNCHANGED <<storeVars, req, man, snap, stage, found, lockVars, faultVars, calls>>

RemoveFind(w) ==
    /\ pc[w] = "find"
    /\ \/ /\ Merged(local)[req[w].id] = Absent
          /\ Goto(w, "unlock") /\ Settle(w, "absent")
       \/ /\ Merged(local)[req[w].id] # Absent
          /\ Goto(w, "drop") /\ UNCHANGED answer
    /\ UNCHANGED <<storeVars, req, man, snap, stage, found, lockVars, faultVars, calls>>

\* delete_local reads the local catalog and writes it back without the entry.
RemoveDrop(w) ==
    /\ pc[w] = "drop"
    /\ \/ /\ local[req[w].id] # Absent
          /\ Goto(w, "write")
          /\ snap' = [snap EXCEPT ![w] = local]
       \/ /\ local[req[w].id] = Absent
          /\ Goto(w, "disable") /\ UNCHANGED snap
    /\ UNCHANGED <<storeVars, req, man, answer, stage, found, lockVars, faultVars, calls>>

\* set_local_enabled(False): the entry to write is a disabled copy.
RemoveDisable(w) ==
    LET m == Merged(local)[req[w].id] IN
    /\ pc[w] = "disable"
    /\ \/ m = Absent /\ Fail(w) /\ UNCHANGED man
       \/ /\ m # Absent
          /\ Goto(w, "load")
          /\ man' = [man EXCEPT ![w] = Disabled(m)]
          /\ UNCHANGED answer
    /\ UNCHANGED <<storeVars, req, snap, stage, found, lockVars, faultVars, calls>>

(* CapabilityStore.remove: the files go in reverse name order, meta first.  *)
(* An unlink that fails ends it there, with no word of it in the answer.    *)

\* Mutant of RemoveMeta: an unlink that fails is passed over, as rmdir is.
RemoveMeta_GoesOn(w) ==
    LET r == <<req[w].id, req[w].version>> IN
    /\ Step(w, "unmeta", "unmanifest")
    /\ \/ artifact' = NoMeta(artifact, r) /\ UNCHANGED diskErrors
       \/ artifact[r].meta /\ DiskError /\ UNCHANGED artifact
    /\ UNCHANGED <<local, payload, req, man, snap, answer, stage, found, lockVars,
                   orphans, resetsCut, crashes, calls>>

RemoveMeta(w) ==
    LET r == <<req[w].id, req[w].version>> IN
    /\ pc[w] = "unmeta"
    /\ \/ Goto(w, "unmanifest") /\ artifact' = NoMeta(artifact, r) /\ UNCHANGED diskErrors
       \/ artifact[r].meta /\ DiskError /\ Goto(w, "unlock") /\ UNCHANGED artifact
    /\ UNCHANGED <<local, payload, req, man, snap, answer, stage, found, lockVars,
                   orphans, resetsCut, crashes, calls>>

RemoveManifest(w) ==
    LET r == <<req[w].id, req[w].version>> IN
    /\ pc[w] = "unmanifest"
    /\ \/ Goto(w, "unpayload") /\ artifact' = NoManifest(artifact, r) /\ UNCHANGED diskErrors
       \/ Listed(r) /\ DiskError /\ Goto(w, "unlock") /\ UNCHANGED artifact
    /\ UNCHANGED <<local, payload, req, man, snap, answer, stage, found, lockVars,
                   orphans, resetsCut, crashes, calls>>

RemovePayload(w) ==
    LET r == <<req[w].id, req[w].version>> IN
    /\ Step(w, "unpayload", "unlock")
    /\ \/ payload' = [payload EXCEPT ![r] = "none"] /\ UNCHANGED diskErrors
       \/ /\ payload[r] # "none" /\ DiskError
          /\ \E left \in {"partial", payload[r]} : payload' = [payload EXCEPT ![r] = left]
    /\ UNCHANGED <<local, artifact, req, man, snap, answer, stage, found, lockVars,
                   orphans, resetsCut, crashes, calls>>

-----------------------------------------------------------------------------
(* CapabilityResolver.get and .run                                          *)

\* run calls get, which takes LOCK_SH again on a descriptor of its own.
RunNest(w) ==
    /\ CanShare(w)
    /\ Step(w, "nest", "read")
    /\ shared' = [shared EXCEPT ![w] = 2]
    /\ UNCHANGED <<storeVars, req, man, snap, answer, stage, found, exclusive, faultVars, calls>>

\* get's body: the entry of the merged catalog, of the version asked for.
\* run gives up the nested lock and goes on with policy and execution.
Read(w) ==
    LET m == Merged(local)[req[w].id] IN
    /\ pc[w] = "read"
    /\ shared' = [shared EXCEPT ![w] = 1]
    /\ \/ /\ Readable(req[w], m)
          /\ man' = [man EXCEPT ![w] = m]
          /\ Goto(w, IF req[w].op = "run" THEN "exec" ELSE "unlock")
          /\ Settle(w, "ok")
       \/ ~Readable(req[w], m) /\ Fail(w) /\ UNCHANGED man
    /\ UNCHANGED <<storeVars, req, snap, stage, found, exclusive, faultVars, calls>>

\* ExecutionEngine.run returns, raises or times out, the shared lock still held.
RunExec(w) ==
    /\ Step(w, "exec", "unlock")
    /\ UNCHANGED <<storeVars, req, man, snap, answer, stage, found, lockVars, faultVars, calls>>

-----------------------------------------------------------------------------
(* CapabilityStore.factory_reset: rmtree goes on past what it cannot delete. *)

ResetUnlink(w) ==
    /\ pc[w] = "unlink"
    /\ \/ /\ Goto(w, "rmmanifests")
          /\ local' = EmptyCatalog
          /\ Settle(w, "ok")
          /\ UNCHANGED diskErrors
       \/ local # EmptyCatalog /\ DiskError /\ Fail(w) /\ UNCHANGED local
    /\ UNCHANGED <<artifact, payload, req, man, snap, stage, found, lockVars,
                   orphans, resetsCut, crashes, calls>>

\* The files go in directory order: any order.
ResetManifests(w) ==
    /\ pc[w] = "rmmanifests"
    /\ \/ \E r \in Ref :
             \/ artifact[r].meta /\ artifact' = NoMeta(artifact, r)
             \/ Listed(r) /\ artifact' = NoManifest(artifact, r)
          /\ UNCHANGED <<pc, resetsCut, diskErrors>>
       \/ /\ \A r \in Ref : ~Occupied(r)
          /\ Goto(w, "rmpayloads")
          /\ UNCHANGED <<artifact, resetsCut, diskErrors>>
       \/ /\ \E r \in Ref : Occupied(r)
          /\ DiskError
          /\ resetsCut' = resetsCut + 1
          /\ Goto(w, "rmpayloads")
          /\ UNCHANGED artifact
    /\ UNCHANGED <<local, payload, req, man, snap, answer, stage, found, lockVars,
                   orphans, crashes, calls>>

ResetPayloads(w) ==
    /\ Step(w, "rmpayloads", "rmtmp")
    /\ \/ payload' = [r \in Ref |-> "none"] /\ UNCHANGED diskErrors
       \/ DiskError /\ payload' \in Leftovers(payload)
    /\ UNCHANGED <<local, artifact, req, man, snap, answer, stage, found, lockVars,
                   orphans, resetsCut, crashes, calls>>

\* tmp/ holds the staging directories that nobody swept, and other files.
ResetTmp(w) ==
    /\ Step(w, "rmtmp", "unlock")
    /\ \/ orphans' = 0 /\ UNCHANGED diskErrors
       \/ DiskError /\ orphans' \in 0..orphans
    /\ UNCHANGED <<storeVars, req, man, snap, answer, stage, found, lockVars,
                   resetsCut, crashes, calls>>

-----------------------------------------------------------------------------
\* The process dies; the kernel drops its locks, the disk stays as it is, and
\* the supervisor starts it again with every thread idle.
Crash ==
    /\ crashes < MaxCrashes
    /\ crashes' = crashes + 1
    /\ orphans' = orphans + Cardinality({w \in Worker : stage[w] # Absent})
    /\ resetsCut' = resetsCut + Cardinality({w \in Worker : pc[w] = "rmmanifests"})
    /\ pc' = [w \in Worker |-> "idle"]
    /\ req' = [w \in Worker |-> NoRequest]
    /\ man' = [w \in Worker |-> Absent]
    /\ snap' = [w \in Worker |-> Absent]
    /\ answer' = [w \in Worker |-> "none"]
    /\ stage' = [w \in Worker |-> Absent]
    /\ found' = [w \in Worker |-> Absent]
    /\ shared' = [w \in Worker |-> 0]
    /\ exclusive' = {}
    /\ UNCHANGED <<storeVars, calls, diskErrors>>

Serve(w) ==
    \/ LockExclusive(w) \/ LockShared(w) \/ Return(w)
    \/ LoadLocal(w) \/ WriteLocal(w)
    \/ InstallCheck(w) \/ InstallFetch(w) \/ InstallExists(w) \/ InstallStage(w)
    \/ InstallPromote(w) \/ InstallClean(w) \/ InstallPayload(w)
    \/ RemoveFind(w) \/ RemoveDrop(w) \/ RemoveDisable(w)
    \/ RemoveMeta(w) \/ RemoveManifest(w) \/ RemovePayload(w)
    \/ RunNest(w) \/ Read(w) \/ RunExec(w)
    \/ ResetUnlink(w) \/ ResetManifests(w) \/ ResetPayloads(w) \/ ResetTmp(w)

Next == Crash \/ \E w \in Worker : Call(w) \/ Serve(w)

Spec == Init /\ [][Next]_vars

\* Threads run, and what they execute returns or times out (execution.py caps
\* every command and request); nothing obliges a client to call or the
\* process to die.
Fairness == \A w \in Worker : WF_vars(Serve(w))
FairSpec == Spec /\ Fairness

-----------------------------------------------------------------------------
(* What the locking and the order of the steps promise.                     *)

\* A writer of the store excludes every reader and every other writer, the
\* nested lock of a run included (locks.py).
LockExclusion ==
    \A w \in exclusive : exclusive = {w} /\ \A v \in Worker : shared[v] = 0

\* No write of the local catalog by a lock holder is based on a stale read: no
\* update of another handler is lost (resolver.py, upsert_local, delete_local).
WriteIsFresh == \A w \in Worker : pc[w] = "write" => snap[w] = local

\* For as long as a capability executes, the catalog still offers the manifest
\* that was read and still allows it to run: a removal, an update or a reset
\* waits for the execution to end (resolver.py, run).
RunIsStable ==
    \A w \in Worker : pc[w] = "exec" =>
        Merged(local)[req[w].id] = man[w] /\ RunAllowed(man[w])

\* Every local entry is an override of a shipped one or has its installed
\* manifest on disk, in every state a crash can leave behind; a factory reset
\* that left files behind is the one thing that can break it (store.py).
CatalogBacked ==
    resetsCut = 0 =>
        \A i \in Ids : local[i] # Absent =>
            IsOverride(local[i]) \/ Listed(RefOf(local[i]))

Answering(w, op, a) == pc[w] = "unlock" /\ req[w].op = op /\ answer[w] = a

\* What an install leaves in its directory: its manifest, unless that version was
\* installed already, whose files stay as they are (installer.py, `if
\* manifest_path.exists()').
Left(w) ==
    artifact[RefOf(man[w])].manifest = IF found[w] = Absent THEN man[w] ELSE found[w]

\* An install that answers success has its manifest in the catalog, and on disk its
\* manifest or, untouched, the one it found installed under that version; of the
\* disk a factory reset that was cut short says otherwise (MCInterruptedReset).
InstallAnswered ==
    \A w \in Worker : Answering(w, "install", "ok") =>
        local[man[w].id] = man[w] /\ (resetsCut = 0 => Left(w))

\* A remove that answers success leaves the capability unable to run unless
\* deleting a local entry uncovered the shipped one, and no files of that version
\* unless the disk failed (resolver.py, remove).
RemoveAnswered ==
    \A w \in Worker : Answering(w, "remove", "ok") =>
        LET i == req[w].id  r == <<i, req[w].version>> IN
        /\ local[i] # Absent => ~RunAllowed(local[i])
        /\ diskErrors = 0 => ~Occupied(r) /\ payload[r] = "none"

\* A factory reset that answers success left the shipped catalog alone in effect,
\* and no installed file, payload or staging directory unless the disk failed
\* (store.py).
ResetAnswered ==
    \A w \in Worker : Answering(w, "reset", "ok") =>
        /\ Merged(local) = Base
        /\ diskErrors = 0 => /\ \A r \in Ref : ~Occupied(r) /\ payload[r] = "none"
                             /\ orphans = 0

\* A success answered by any of them is one.  For the installs that come after it
\* a removal whose unlink failed must stop there and leave the manifest in its
\* directory: past a meta file left alone os.replace fails with ENOTEMPTY, and the
\* install answers success with no manifest on disk.
AnswersHold == InstallAnswered /\ RemoveAnswered /\ ResetAnswered

\* Each crash and each failing sweep leaves at most one staging directory behind,
\* however many installs were waiting (installer.py).
StagingBounded == orphans <= crashes + diskErrors

\* An installed manifest never changes in place: a version on disk is what was
\* promoted, until it is removed (installer.py).
ArtifactImmutable ==
    [][\A r \in Ref : Listed(r) /\ Listed(r)' =>
            artifact'[r].manifest = artifact[r].manifest]_vars

\* A version becomes listed only complete, its meta file with it (store.py,
\* list_installed: no partial install is taken for an installed one).
PromotedWhole ==
    [][\A r \in Ref : ~Listed(r) /\ Listed(r)' => artifact'[r].meta]_vars

\* An install that answers success left its manifest on disk, whatever crashed
\* before it (installer.py, install_manifest_atomic).
InstallIsTransactional ==
    \A w \in Worker :
        Answering(w, "install", "ok") => Listed(RefOf(man[w]))

\* Every request is answered, or dies with the process.
EveryCallReturns == \A w \in Worker : pc[w] = "lock" ~> pc[w] = "idle"

-----------------------------------------------------------------------------
(* The handlers implement atomic operations on the catalog: an operation    *)
(* takes effect at the step that settles its answer.                        *)

Outcome(w) ==
    [kind |-> answer[w],
     manifest |-> IF req[w].op \in {"get", "run"} /\ answer[w] = "ok"
                     THEN man[w] ELSE Absent]

Atomic == INSTANCE CapabilityCatalog
    WITH Client <- Worker, overrides <- local, asked <- req,
         result <- [w \in Worker |-> Outcome(w)]

\* Every behaviour of the locked, crash-prone, step by step handlers is one of
\* atomic catalog operations (locks.py, resolver.py, store.py).
ImplementsAtomicCatalog == Atomic!Spec

-----------------------------------------------------------------------------
(* The inductive invariant behind the theorems of CapabilityServiceProofs.  *)

InstallSteps == {"check", "fetch", "exists", "stage", "promote", "clean", "payload"}
RemoveSteps  == {"find", "drop", "disable", "unmeta", "unmanifest", "unpayload"}
ResetSteps   == {"unlink", "rmmanifests", "rmpayloads", "rmtmp"}

\* A worker is in a step of the handler of its request, with its lock held.
Dispatched ==
    \A w \in Worker :
        /\ req[w] = NoRequest <=> pc[w] = "idle"
        /\ pc[w] \in InstallSteps => req[w].op = "install"
        /\ pc[w] \in RemoveSteps => req[w].op = "remove"
        /\ pc[w] \in {"load", "write"} => req[w].op \in {"install", "remove"}
        /\ pc[w] \in ResetSteps => req[w].op = "reset"
        /\ pc[w] \in {"nest", "exec"} => req[w].op = "run"
        /\ pc[w] = "read" => req[w].op \in {"get", "run"}
        /\ pc[w] \notin {"idle", "lock"} =>
              IF Writes(req[w]) THEN w \in exclusive ELSE shared[w] > 0

\* The answer is settled by the step that takes effect, and by no earlier one.
Unsettled == {"idle", "lock", "check", "fetch", "exists", "stage", "promote",
              "load", "write", "find", "drop", "disable", "nest", "read", "unlink"}
SettledOnce ==
    \A w \in Worker :
        /\ pc[w] \in Unsettled => answer[w] = "none"
        /\ pc[w] = "clean" => answer[w] \in {"none", "error"}
        /\ pc[w] \notin Unsettled \cup {"clean"} => answer[w] # "none"
        /\ pc[w] \notin Unsettled \cup {"clean", "unlock"} => answer[w] = "ok"

\* What each handler has in hand at each of its steps.
InHandOf(w) ==
    /\ req[w].op = "install" /\ pc[w] \notin {"lock", "check", "unlock"} =>
          req[w].cand.manifest.trusted
    /\ req[w].op = "install" /\ pc[w] \notin {"lock", "check", "fetch", "unlock"} =>
          man[w] = Chosen(req[w].cand)
    /\ pc[w] = "fetch" => req[w].cand.pinned # Absent
    /\ pc[w] = "promote" => stage[w] = man[w]
    /\ pc[w] = "drop" => Merged(local)[req[w].id] # Absent
    /\ pc[w] = "disable" => local[req[w].id] = Absent /\ Base[req[w].id] # Absent
    /\ pc[w] \in {"idle", "lock", "check", "find", "drop", "disable"} => man[w] = Absent
    /\ req[w].op = "remove" /\ pc[w] \in {"load", "write"} =>
          \/ pc[w] = "write" /\ man[w] = Absent /\ local[req[w].id] # Absent
          \/ /\ man[w] = Disabled(Base[req[w].id])
             /\ local[req[w].id] = Absent /\ Base[req[w].id] # Absent
    /\ pc[w] = "rmmanifests" => local = EmptyCatalog
InHand == \A w \in Worker : InHandOf(w)

\* Which install directories are whole, unless a reset left files behind: a meta
\* file without its manifest is the doing of a reset at work, an install that found
\* none promotes its own, one that found or promoted a manifest keeps it, and a
\* removal has no entry to back.
Removing(w) == pc[w] \in {"unmeta", "unmanifest", "unpayload"}
NoDebris ==
    \A r \in Ref : artifact[r].meta /\ ~Listed(r) =>
        \E w \in Worker : pc[w] = "rmmanifests"
WholeFor(w) ==
    /\ found[w] # Absent =>
          req[w].op = "install" /\ pc[w] \in {"load", "write", "payload", "unlock"}
    /\ pc[w] \in {"stage", "promote"} => ~Listed(RefOf(man[w]))
    /\ /\ req[w].op = "install" /\ answer[w] # "error"
       /\ pc[w] \in {"clean", "load", "write", "payload"}
       => Left(w)
    /\ Removing(w) =>
          \/ local[req[w].id] = Absent
          \/ IsOverride(local[req[w].id])
    /\ pc[w] = "unmanifest" => ~artifact[<<req[w].id, req[w].version>>].meta
DirectoriesWhole == resetsCut = 0 => NoDebris /\ \A w \in Worker : WholeFor(w)

Inv ==
    /\ TypeOK
    /\ LockExclusion
    /\ Dispatched
    /\ SettledOnce
    /\ WriteIsFresh
    /\ InHand
    /\ RunIsStable
    /\ DirectoriesWhole
    /\ CatalogBacked
=============================================================================
