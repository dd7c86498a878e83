----------------------------- MODULE JobCreation -----------------------------
(***************************************************************************)
(* API.CreateSearchJob run by several clients that ask for the same        *)
(* search at the same time: FindActive, then the Redis lock (SETNX with a  *)
(* TTL), the pending key that names the job about to be created, the       *)
(* transaction that inserts the job and its River task, and the DEL of     *)
(* both keys.                                                              *)
(*                                                                         *)
(* A step is one call to Postgres or Redis.  All requests have the same    *)
(* jobKeyMaterial, so one lock key and one pending key are enough; their   *)
(* spellings may differ in letter case, which the key folds and FindActive *)
(* does not.  A client sends one request, so a request's fresh uuid is the *)
(* client itself.  The worker that ends jobs is one action here and        *)
(* SearchWorker in full.                                                   *)
(*                                                                         *)
(* Abstracted: the payload, and the reads after the job is known, which    *)
(* change nothing but a cache.                                             *)
(***************************************************************************)
EXTENDS Integers, FiniteSets

CONSTANTS
  Clients,     \* requests, and the uuids they would give to a job
  None,        \* no client: an absent Redis key
  Spelling,    \* [Clients -> the query as typed]
  Impatient,   \* the clients that may close the connection early
  MaxFaults,   \* bound: Postgres and Redis calls that fail on their own
  MaxCrashes   \* bound: crashes of the API process

ASSUME ClientsAssumption ==
  /\ IsFiniteSet(Clients)
  /\ None \notin Clients
  /\ Impatient \subseteq Clients
ASSUME CreationBounds == MaxFaults \in Nat /\ MaxCrashes \in Nat

VARIABLES
  rows,        \* [Clients -> the job with that uuid]
  lock,        \* who set search-job-create:..., or None
  pending,     \* search-job-pending:..., with the lock's owner when it was set
  pc,          \* [Clients -> where the handler is]
  stored,      \* [Clients -> what the transaction under the lock returned]
  gone,        \* [Clients -> the request's context is done]
  reply,       \* [Clients -> what the client was answered]
  earlier,     \* [Clients -> the jobs FindActive could return at the start]
  expiries,    \* lock keys that ran into their TTL
  faults,
  crashes

vars == <<rows, lock, pending, pc, stored, gone, reply, earlier, expiries, faults,
          crashes>>

-----------------------------------------------------------------------------

NoPending == [id |-> None, under |-> None]
NoReply == [kind |-> "none", id |-> None]
Steps == {"idle", "find", "lock", "pend", "insert_locked", "release", "get",
          "insert", "closed"}

\* Between the SETNX that won and the DEL.
Section == {c \in Clients : pc[c] \in {"pend", "insert_locked", "release"}}

\* What FindActive returns: an active job of the same spelling.
Matching(c) == {d \in Clients : rows[d] = "active" /\ Spelling[d] = Spelling[c]}

Goto(c, step) == pc' = [pc EXCEPT ![c] = step]

CallWorks(c) == ~gone[c] /\ UNCHANGED faults

CallFails(c) ==
  \/ gone[c] /\ UNCHANGED faults
  \/ ~gone[c] /\ faults < MaxFaults /\ faults' = faults + 1

\* A call that has had its effect, whether or not it says so.
Applied(c) == CallWorks(c) \/ (CallFails(c) /\ ~gone[c])

\* The handler returns; a client that has left does not read the answer.
Answer(c, kind, id) ==
  /\ Goto(c, "closed")
  /\ reply' = IF gone[c] THEN reply
              ELSE [reply EXCEPT ![c] = [kind |-> kind, id |-> id]]

-----------------------------------------------------------------------------
(* The handler.                                                            *)

Request(c) ==
  /\ pc[c] = "idle"
  /\ Goto(c, "find")
  /\ earlier' = [earlier EXCEPT ![c] = Matching(c)]
  /\ UNCHANGED <<rows, lock, pending, stored, gone, reply, expiries, faults, crashes>>

\* findActiveJob with the status "running" only, which no row has.
FindRunning(c) ==
  /\ pc[c] = "find"
  /\ CallWorks(c) \/ CallFails(c)
  /\ Goto(c, "lock")
  /\ UNCHANGED <<rows, lock, pending, stored, gone, reply, earlier, expiries, crashes>>

\* findActiveJob: an error counts as no job.
Find(c) ==
  /\ pc[c] = "find"
  /\ \/ /\ CallWorks(c)
        /\ IF Matching(c) = {}
           THEN Goto(c, "lock") /\ UNCHANGED reply
           ELSE \E d \in Matching(c) : Answer(c, "attached", d)
     \/ CallFails(c) /\ Goto(c, "lock") /\ UNCHANGED reply
  /\ UNCHANGED <<rows, lock, pending, stored, gone, earlier, expiries, crashes>>

\* SET without NX.
LockTaken(c) ==
  /\ pc[c] = "lock"
  /\ CallWorks(c)
  /\ lock' = c
  /\ Goto(c, "pend")
  /\ UNCHANGED <<rows, pending, stored, gone, reply, earlier, expiries, crashes>>

\* SETNX: an error counts as a lock that somebody else holds, whether or not
\* Redis has set the key.
Lock(c) ==
  /\ pc[c] = "lock"
  /\ \/ /\ CallWorks(c)
        /\ lock' = IF lock = None THEN c ELSE lock
        /\ Goto(c, IF lock = None THEN "pend" ELSE "get")
     \/ /\ CallFails(c)
        /\ lock' \in IF lock = None /\ ~gone[c] THEN {None, c} ELSE {lock}
        /\ Goto(c, "get")
  /\ UNCHANGED <<rows, pending, stored, gone, reply, earlier, expiries, crashes>>

Pend(c) ==
  /\ pc[c] = "pend"
  /\ \/ Applied(c) /\ pending' = [id |-> c, under |-> lock]
     \/ CallFails(c) /\ UNCHANGED pending
  /\ Goto(c, "insert_locked")
  /\ UNCHANGED <<rows, lock, stored, gone, reply, earlier, expiries, crashes>>

\* createJobWithTask: row and task, or neither.  A COMMIT that is cut off
\* may have happened although it is reported as an error.
Inserted(c, ok) ==
  \/ CallWorks(c) /\ ok /\ rows' = [rows EXCEPT ![c] = "active"]
  \/ CallFails(c) /\ ~ok /\ ~gone[c] /\ rows' = [rows EXCEPT ![c] = "active"]
  \/ CallFails(c) /\ ~ok /\ UNCHANGED rows

InsertLocked(c) ==
  /\ pc[c] = "insert_locked"
  /\ \E ok \in BOOLEAN :
       /\ Inserted(c, ok)
       /\ stored' = [stored EXCEPT ![c] = ok]
  /\ Goto(c, "release")
  /\ UNCHANGED <<lock, pending, gone, reply, earlier, expiries, crashes>>

\* Without the pending key.
LockDeleted == lock' = None /\ UNCHANGED pending

\* The keys the handler deletes: one DEL, whoever set them.
KeysDeleted == lock' = None /\ pending' = NoPending

OutcomeUnchecked(c, ok) == Answer(c, "created", c)
OutcomeAsStatus(c, ok) == Answer(c, IF ok THEN "created" ELSE "failed", c)
Outcome(c, ok) ==
  IF ok THEN Answer(c, "created", c) ELSE Answer(c, "error", None)

\* DEL, its error ignored; then the error of the transaction, if any.
Release(c) ==
  /\ pc[c] = "release"
  /\ \/ Applied(c) /\ KeysDeleted
     \/ CallFails(c) /\ UNCHANGED <<lock, pending>>
  /\ Outcome(c, stored[c])
  /\ UNCHANGED <<rows, stored, gone, earlier, expiries, crashes>>

\* Waiting for the key to appear.
PendingAwaited(c) ==
  /\ pc[c] = "get"
  /\ CallWorks(c)
  /\ pending # NoPending
  /\ Answer(c, "attached", pending.id)
  /\ UNCHANGED <<rows, lock, pending, stored, gone, earlier, expiries, crashes>>

\* GET of the pending key: a uuid is attached to unseen, nothing or an error
\* makes the request create a job of its own.
GetPending(c) ==
  /\ pc[c] = "get"
  /\ \/ /\ CallWorks(c)
        /\ IF pending = NoPending
           THEN Goto(c, "insert") /\ UNCHANGED reply
           ELSE Answer(c, "attached", pending.id)
     \/ CallFails(c) /\ Goto(c, "insert") /\ UNCHANGED reply
  /\ UNCHANGED <<rows, lock, pending, stored, gone, earlier, expiries, crashes>>

InsertUnlocked(c) ==
  /\ pc[c] = "insert"
  /\ \E ok \in BOOLEAN : Inserted(c, ok) /\ Outcome(c, ok)
  /\ UNCHANGED <<lock, pending, stored, gone, earlier, expiries, crashes>>

Handler(c) ==
  \/ Find(c) \/ Lock(c) \/ Pend(c) \/ InsertLocked(c) \/ Release(c)
  \/ GetPending(c) \/ InsertUnlocked(c)

-----------------------------------------------------------------------------
(* Around the handler.                                                     *)

\* The client closes the connection: net/http cancels the context.
Disconnect(c) ==
  /\ c \in Impatient
  /\ pc[c] \notin {"idle", "closed"}
  /\ ~gone[c]
  /\ gone' = [gone EXCEPT ![c] = TRUE]
  /\ UNCHANGED <<rows, lock, pending, pc, stored, reply, earlier, expiries, faults, crashes>>

\* jobLockTTL of the lock is over.
LockExpires ==
  /\ lock # None
  /\ lock' = None
  /\ expiries' = expiries + 1
  /\ UNCHANGED <<rows, pending, pc, stored, gone, reply, earlier, faults, crashes>>

\* jobLockTTL of the pending key is over: later than that of a lock that was
\* there when the key was set.
PendingExpires ==
  /\ pending # NoPending
  /\ lock = None \/ lock # pending.under
  /\ pending' = NoPending
  /\ UNCHANGED <<rows, lock, pc, stored, gone, reply, earlier, expiries, faults, crashes>>

\* The worker brings a job to its terminal state.
WorkerEnds(c) ==
  /\ rows[c] = "active"
  /\ rows' = [rows EXCEPT ![c] = "ended"]
  /\ UNCHANGED <<lock, pending, pc, stored, gone, reply, earlier, expiries, faults, crashes>>

\* The API process dies and comes back: requests in progress are lost, what
\* Postgres and Redis hold is not.
Crash ==
  /\ crashes < MaxCrashes
  /\ crashes' = crashes + 1
  /\ gone' = [c \in Clients |-> gone[c] \/ pc[c] \notin {"idle", "closed"}]
  /\ pc' = [c \in Clients |-> IF pc[c] = "idle" THEN "idle" ELSE "closed"]
  /\ UNCHANGED <<rows, lock, pending, stored, reply, earlier, expiries, faults>>

Init ==
  /\ rows = [c \in Clients |-> "none"]
  /\ lock = None
  /\ pending = NoPending
  /\ pc = [c \in Clients |-> "idle"]
  /\ stored = [c \in Clients |-> FALSE]
  /\ gone = [c \in Clients |-> FALSE]
  /\ reply = [c \in Clients |-> NoReply]
  /\ earlier = [c \in Clients |-> {}]
  /\ expiries = 0
  /\ faults = 0
  /\ crashes = 0

Next ==
  \/ \E c \in Clients : Request(c) \/ Handler(c) \/ Disconnect(c) \/ WorkerEnds(c)
  \/ LockExpires
  \/ PendingExpires
  \/ Crash

\* Handlers run, the worker works, and time passes for every key.
Fairness ==
  /\ \A c \in Clients : WF_vars(Handler(c)) /\ WF_vars(WorkerEnds(c))
  /\ WF_vars(LockExpires)
  /\ WF_vars(PendingExpires)

Spec == Init /\ [][Next]_vars
FairSpec == Spec /\ Fairness

-----------------------------------------------------------------------------
(* Properties.                                                             *)

\* Every variable has the type of what it stands for.
TypeOK ==
  /\ rows \in [Clients -> {"none", "active", "ended"}]
  /\ lock \in Clients \cup {None}
  /\ pending \in [id : Clients, under : Clients \cup {None}] \cup {NoPending}
  /\ pc \in [Clients -> Steps]
  /\ stored \in [Clients -> BOOLEAN]
  /\ gone \in [Clients -> BOOLEAN]
  /\ reply \in [Clients -> [kind : {"none", "created", "attached", "error"},
                            id : Clients \cup {None}]]
  /\ earlier \in [Clients -> SUBSET Clients]
  /\ expiries \in Nat
  /\ faults \in Nat
  /\ crashes \in Nat

\* The lock keeps creators apart up to its TTL: each lock that expires under
\* its owner lets in one more, and DEL, which does not look at the owner,
\* lets in no more than that.
LockExcludes == Cardinality(Section) <= 1 + expiries

\* The job with uuid c is still to be inserted by the request that made it up.
ToBeInserted(c) == pc[c] \in {"pend", "insert_locked"}

\* A client that is answered with a job has one: "created" means it is
\* stored; "attached" means that it is stored, or about to be by a request in
\* progress, or that this request failed, was left by its client or crashed.
ReplyIsBacked ==
  \A c \in Clients :
    /\ reply[c].kind = "created" => rows[c] # "none"
    /\ reply[c].kind = "attached" =>
         LET d == reply[c].id
         IN  \/ rows[d] # "none"
             \/ ToBeInserted(d)
             \/ gone[d]
             \/ ~stored[d] /\ (pc[d] = "release" \/ reply[d].kind = "error")

\* A request that begins while a job of its spelling is stored and active
\* does not put a second one beside it, unless Postgres failed.
AttachesToEarlier ==
  faults = 0 =>
    \A c, d \in Clients :
      rows[c] = "active" /\ d \in earlier[c] => rows[d] # "active"

\* Redis keys are left to their TTL only by requests that were cut off between
\* the keys and the DEL, because their client left or the process died, unless
\* a call to Redis or Postgres failed: otherwise a key that is there has its
\* request in progress, whoever else deleted keys in between.
KeysAreManned ==
  faults = 0 =>
    /\ lock # None => lock \in Section \/ gone[lock]
    /\ pending # NoPending => pending.id \in Section \/ gone[pending.id]

\* Every request is answered, or its client is gone.
RequestEnds ==
  \A c \in Clients :
    []<>(\/ pc[c] = "idle"
         \/ pc[c] = "closed" /\ (gone[c] \/ reply[c] # NoReply))

-----------------------------------------------------------------------------
(* What the repository says of the handler and the code does not do.       *)

\* progress.md:252 "identical requests attach to an active job instead of
\* launching duplicate scans".
OneActiveJob ==
  \A c, d \in Clients :
    rows[c] = "active" /\ rows[d] = "active" /\ Spelling[c] = Spelling[d] => c = d
=============================================================================
