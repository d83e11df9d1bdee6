---------------------------- MODULE Repository ----------------------------
(***************************************************************************)
(* InMemoryRepository[T] (pkg/storage/repository.go) step by step.         *)
(*                                                                         *)
(* Each operation first gets the lock of its resource type from a table    *)
(* that another lock protects.  The lock is made at the first use: getLock *)
(* looks under the read lock of the table, and again under its write lock  *)
(* before it makes one.  Then the operation holds the type's lock, shared  *)
(* or exclusively, while it looks at the resources and while it accesses   *)
(* them.  A repository has one resource type, so the table one entry.      *)
(*                                                                         *)
(* The lock a goroutine makes is named after the goroutine.                *)
(***************************************************************************)
EXTENDS FiniteSets, Naturals

CONSTANTS Procs, Ids, Bodies, Calls, None,
          Nil,      \* the map of a resource type that was never written
          NoLock    \* no entry in the table of locks

VARIABLES
    table,       \* r.locks[resourceType]
    locksMutex,  \* r.locksMutex
    rw,          \* the read-write locks made for the type
    resources,   \* r.resources[resourceType]
    pc,          \* where each goroutine is,
    call,        \*   the call it makes,
    mine,        \*   the lock getLock gave it,
    reply        \*   and what the call answers

vars == <<table, locksMutex, rw, resources, pc, call, mine, reply>>

\* The resources as one store, whether or not their map was made.
Stored == IF resources = Nil THEN [i \in Ids |-> None] ELSE resources

\* Where a call has taken effect.
Over == {"release", "answered"}

\* What a caller sees of each goroutine.
Client == [p \in Procs |->
             [pc    |-> IF pc[p] = "idle" THEN "idle"
                        ELSE IF pc[p] \in Over THEN "answered" ELSE "called",
              call  |-> call[p],
              reply |-> reply[p]]]

Abstract == INSTANCE Store WITH store <- Stored, client <- Client

ASSUME RepositoryAssumption ==
    /\ None \notin Ids \cup Bodies \cup Procs
    /\ NoLock \notin Procs
    /\ Nil \notin [Ids -> Bodies \cup {None}]
    /\ Calls \subseteq Abstract!Call
    /\ \A c \in Calls :
         /\ c.op \in {"createWithID", "get", "update", "delete", "exists"}
              => c.id \in Ids
         /\ c.op \in {"create", "createWithID", "update"} => c.body \in Bodies

---------------------------------------------------------------------------
(* sync.RWMutex: a goroutine that calls Lock first keeps new readers out,  *)
(* then waits for those inside to leave.                                   *)

Unlocked == [writer |-> None, readers |-> {}]

RWMutex == [writer : Procs \cup {None}, readers : SUBSET Procs]

Open(m) == m.writer = None

RLocked(m, p) == [m EXCEPT !.readers = @ \cup {p}]
Claimed(m, p) == [m EXCEPT !.writer = p]
Drained(m)    == m.readers = {}

\* Given up by p, however p holds it.
Freed(m, p) == [writer  |-> IF m.writer = p THEN None ELSE m.writer,
                readers |-> m.readers \ {p}]

---------------------------------------------------------------------------

Pcs == {"idle", "rlock", "peek", "wlock", "drainTable", "make", "acquire",
        "drain", "check", "access", "release", "answered"}

Init == /\ table = NoLock
        /\ locksMutex = Unlocked
        /\ rw = [p \in Procs |-> Unlocked]
        /\ resources = Nil
        /\ pc = [p \in Procs |-> "idle"]
        /\ call = [p \in Procs |-> None]
        /\ mine = [p \in Procs |-> NoLock]
        /\ reply = [p \in Procs |-> Abstract!NoReply]

Creators == {"create", "createWithID"}

\* Bound: an id is left for every call that creates a resource.
Creating == {p \in Procs : pc[p] \notin {"idle"} \cup Over /\ call[p].op \in Creators}

Room == Cardinality({i \in Ids : Stored[i] # None}) + Cardinality(Creating)
          < Cardinality(Ids)

\* Goroutine p calls an operation of the repository ...
Invoke(p, c) ==
    /\ pc[p] = "idle"
    /\ c.op \in Creators => Room
    /\ pc' = [pc EXCEPT ![p] = "rlock"]
    /\ call' = [call EXCEPT ![p] = c]
    /\ reply' = [reply EXCEPT ![p] = Abstract!NoReply]
    /\ UNCHANGED <<table, locksMutex, rw, resources, mine>>

\* ... and goes on with what it answered.
Return(p) ==
    /\ pc[p] = "answered"
    /\ pc' = [pc EXCEPT ![p] = "idle"]
    /\ call' = [call EXCEPT ![p] = None]
    /\ reply' = [reply EXCEPT ![p] = Abstract!NoReply]
    /\ UNCHANGED <<table, locksMutex, rw, resources, mine>>

---------------------------------------------------------------------------
(* getLock.                                                                *)

RLockTable(p) ==
    /\ pc[p] = "rlock"
    /\ Open(locksMutex)
    /\ locksMutex' = RLocked(locksMutex, p)
    /\ pc' = [pc EXCEPT ![p] = "peek"]
    /\ UNCHANGED <<table, rw, resources, call, mine, reply>>

Peek(p) ==
    /\ pc[p] = "peek"
    /\ mine' = [mine EXCEPT ![p] = table]
    /\ locksMutex' = Freed(locksMutex, p)
    /\ pc' = [pc EXCEPT ![p] = IF table = NoLock THEN "wlock" ELSE "acquire"]
    /\ UNCHANGED <<table, rw, resources, call, reply>>

LockTable(p) ==
    /\ pc[p] = "wlock"
    /\ Open(locksMutex)
    /\ locksMutex' = Claimed(locksMutex, p)
    /\ pc' = [pc EXCEPT ![p] = "drainTable"]
    /\ UNCHANGED <<table, rw, resources, call, mine, reply>>

DrainTable(p) ==
    /\ pc[p] = "drainTable"
    /\ Drained(locksMutex)
    /\ pc' = [pc EXCEPT ![p] = "make"]
    /\ UNCHANGED <<table, locksMutex, rw, resources, call, mine, reply>>

\* Faulty: the table is not looked at a second time.
MakeUnchecked(p) ==
    /\ pc[p] = "make"
    /\ table' = p
    /\ mine' = [mine EXCEPT ![p] = p]
    /\ locksMutex' = Freed(locksMutex, p)
    /\ pc' = [pc EXCEPT ![p] = "acquire"]
    /\ UNCHANGED <<rw, resources, call, reply>>

Make(p) ==
    LET lock == IF table = NoLock THEN p ELSE table
    IN  /\ pc[p] = "make"
        /\ table' = lock
        /\ mine' = [mine EXCEPT ![p] = lock]
        /\ locksMutex' = Freed(locksMutex, p)
        /\ pc' = [pc EXCEPT ![p] = "acquire"]
        /\ UNCHANGED <<rw, resources, call, reply>>

---------------------------------------------------------------------------
(* The operations.                                                         *)

\* Those that take the write lock.
WritersButDelete == {"create", "createWithID", "update", "clear"}  \* faulty
Writers == {"create", "createWithID", "update", "delete", "clear"}

Exclusive(p) == call[p].op \in Writers

Acquire(p) ==
    LET l == mine[p]
    IN  /\ pc[p] = "acquire"
        /\ Open(rw[l])
        /\ \/ /\ Exclusive(p)
              /\ rw' = [rw EXCEPT ![l] = Claimed(@, p)]
              /\ pc' = [pc EXCEPT ![p] = "drain"]
           \/ /\ ~Exclusive(p)
              /\ rw' = [rw EXCEPT ![l] = RLocked(@, p)]
              /\ pc' = [pc EXCEPT ![p] = "check"]
        /\ UNCHANGED <<table, locksMutex, resources, call, mine, reply>>

Drain(p) ==
    /\ pc[p] = "drain"
    /\ Drained(rw[mine[p]])
    /\ pc' = [pc EXCEPT ![p] = "check"]
    /\ UNCHANGED <<table, locksMutex, rw, resources, call, mine, reply>>

\* Returning with an error, or with the answer of Exists.
Refuses(p) ==
    \/ /\ call[p].op \in {"get", "update", "delete", "exists"}
       /\ Stored[call[p].id] = None
    \/ /\ call[p].op = "createWithID"
       /\ Stored[call[p].id] # None

Refusal(p) == IF call[p].op = "createWithID"
              THEN Abstract!Answer("alreadyExists", {})
              ELSE Abstract!Answer("notFound", {})

\* Faulty: the unlock is not deferred, and an operation that refuses omits it.
CheckKeepingLock(p) ==
    /\ pc[p] = "check"
    /\ resources' = IF call[p].op \in Creators THEN Stored
                    ELSE resources
    /\ \/ /\ Refuses(p)
          /\ reply' = [reply EXCEPT ![p] = Refusal(p)]
          /\ pc' = [pc EXCEPT ![p] = "answered"]
       \/ /\ ~Refuses(p)
          /\ pc' = [pc EXCEPT ![p] = "access"]
          /\ UNCHANGED reply
    /\ UNCHANGED <<table, locksMutex, rw, call, mine>>

\* The checks made before the access; the operations that create resources
\* make the map first if there is none.
Check(p) ==
    /\ pc[p] = "check"
    /\ resources' = IF call[p].op \in Creators THEN Stored
                    ELSE resources
    /\ \/ /\ Refuses(p)
          /\ reply' = [reply EXCEPT ![p] = Refusal(p)]
          /\ pc' = [pc EXCEPT ![p] = "release"]
       \/ /\ ~Refuses(p)
          /\ pc' = [pc EXCEPT ![p] = "access"]
          /\ UNCHANGED reply
    /\ UNCHANGED <<table, locksMutex, rw, call, mine>>

Answers(p, r) == reply' = [reply EXCEPT ![p] = r]

\* The id Create generates is not one that is in use: its random part makes
\* that all but impossible, and Create does not check it.
Create(p) ==
    /\ call[p].op = "create"
    /\ \E i \in Ids : /\ resources[i] = None
                      /\ resources' = [resources EXCEPT ![i] = call[p].body]
                      /\ Answers(p, Abstract!Answer("ok", {<<i, call[p].body>>}))

CreateWithID(p) ==
    /\ call[p].op = "createWithID"
    /\ resources' = [resources EXCEPT ![call[p].id] = call[p].body]
    /\ Answers(p, Abstract!NoReply)

Update(p) ==
    /\ call[p].op = "update"
    /\ resources' = [resources EXCEPT ![call[p].id] = call[p].body]
    /\ Answers(p, Abstract!NoReply)

Delete(p) ==
    /\ call[p].op = "delete"
    /\ resources' = [resources EXCEPT ![call[p].id] = None]
    /\ Answers(p, Abstract!NoReply)

Clear(p) ==
    /\ call[p].op = "clear"
    /\ resources' = [i \in Ids |-> None]
    /\ Answers(p, Abstract!NoReply)

Get(p) ==
    /\ call[p].op = "get"
    /\ Answers(p, Abstract!Answer("ok", {<<call[p].id, Stored[call[p].id]>>}))
    /\ UNCHANGED resources

Exists(p) ==
    /\ call[p].op = "exists"
    /\ Answers(p, Abstract!NoReply)
    /\ UNCHANGED resources

List(p) ==
    /\ call[p].op = "list"
    /\ Answers(p, Abstract!Answer("ok", Abstract!Contents(Stored)))
    /\ UNCHANGED resources

Access(p) ==
    /\ pc[p] = "access"
    /\ \/ Create(p) \/ CreateWithID(p) \/ Update(p) \/ Delete(p) \/ Clear(p)
       \/ Get(p) \/ Exists(p) \/ List(p)
    /\ pc' = [pc EXCEPT ![p] = "release"]
    /\ UNCHANGED <<table, locksMutex, rw, call, mine>>

\* The deferred unlock.
Release(p) ==
    /\ pc[p] = "release"
    /\ rw' = [rw EXCEPT ![mine[p]] = Freed(@, p)]
    /\ pc' = [pc EXCEPT ![p] = "answered"]
    /\ UNCHANGED <<table, locksMutex, resources, call, mine, reply>>

---------------------------------------------------------------------------

GetLock(p) == \/ RLockTable(p) \/ Peek(p)
              \/ LockTable(p) \/ DrainTable(p) \/ Make(p)

Operation(p) == \/ Acquire(p) \/ Drain(p)
                \/ Check(p) \/ Access(p) \/ Release(p)

Next == \E p \in Procs : \/ \E c \in Calls : Invoke(p, c)
                         \/ GetLock(p)
                         \/ Operation(p)
                         \/ Return(p)

Spec == Init /\ [][Next]_vars

\* Goroutines keep running.  Fairness is strong for an RWMutex lets the
\* readers that wait in when a writer leaves it, and the waiting writers one
\* after another; nobody need make a call.
Fairness == \A p \in Procs : SF_vars(GetLock(p) \/ Operation(p))

FairSpec == Spec /\ Fairness

---------------------------------------------------------------------------

\* Every variable has its type, and nobody assigns to an entry of a map that
\* was never made, which would panic.
TypeOK ==
    /\ table \in Procs \cup {NoLock}
    /\ locksMutex \in RWMutex
    /\ rw \in [Procs -> RWMutex]
    /\ resources \in [Ids -> Bodies \cup {None}] \cup {Nil}
    /\ pc \in [Procs -> Pcs]
    /\ call \in [Procs -> Calls \cup {None}]
    /\ mine \in [Procs -> Procs \cup {NoLock}]
    /\ reply \in [Procs -> Abstract!Reply]
    /\ \A p \in Procs :
         /\ pc[p] # "idle" => call[p] \in Calls
         /\ pc[p] = "access" /\ call[p].op \in Creators => resources # Nil

Inside(p) == pc[p] \in {"check", "access"}

(* No goroutine writes a map another one reads or writes: neither the map  *)
(* of resources nor the table of locks, although each goroutine looks its  *)
(* lock up in a table that others are filling.                             *)
NoDataRace ==
    \A p, q \in Procs : p # q =>
        /\ ~(Inside(p) /\ Exclusive(p) /\ Inside(q))
        /\ ~(pc[p] = "make" /\ pc[q] \in {"peek", "make"})

(* Every operation takes effect at one moment.                             *)
Linearizable == Abstract!Spec

(* Every call returns: no goroutine keeps a lock that others wait for.     *)
CallsReturn == \A p \in Procs : pc[p] = "rlock" ~> pc[p] = "answered"
=============================================================================
