------------------------- MODULE RepositoryProofs -------------------------
(***************************************************************************)
(* Proofs about Repository: the two locks keep every goroutine that writes *)
(* one of the two maps alone with it, so that every operation takes effect *)
(* at one moment, and nobody waits for them in a circle.                   *)
(***************************************************************************)
EXTENDS Repository, TLAPS

USE DEF Pcs, RWMutex

\* What the argument needs to know of the types.
LockTypes ==
    /\ table \in Procs \cup {NoLock}
    /\ locksMutex \in RWMutex
    /\ rw \in [Procs -> RWMutex]
    /\ pc \in [Procs -> Pcs]
    /\ call \in [Procs -> Calls \cup {None}]
    /\ mine \in [Procs -> Procs \cup {NoLock}]

\* Who is at the table of locks holds locksMutex in the right mode.
TableGuarded ==
    \A p \in Procs :
        /\ pc[p] = "peek" => p \in locksMutex.readers
        /\ pc[p] \in {"drainTable", "make"} => locksMutex.writer = p
        /\ pc[p] = "make" => locksMutex.readers = {}

\* getLock gives everybody the one lock there is.
OneLock ==
    \A p \in Procs :
        pc[p] \in {"acquire", "drain", "check", "access", "release"} =>
            /\ mine[p] \in Procs
            /\ mine[p] = table

\* Who is at the resources holds that lock in the right mode.
MapGuarded ==
    \A p \in Procs :
        /\ pc[p] = "drain" => Exclusive(p) /\ rw[mine[p]].writer = p
        /\ pc[p] \in {"check", "access", "release"} =>
             IF Exclusive(p)
             THEN rw[mine[p]].writer = p /\ rw[mine[p]].readers = {}
             ELSE p \in rw[mine[p]].readers

LockInv == LockTypes /\ TableGuarded /\ OneLock /\ MapGuarded

LEMMA LockInvInit == Init => LockInv
  BY RepositoryAssumption
  DEF Init, LockInv, LockTypes, TableGuarded, OneLock, MapGuarded, Unlocked

\* A step at the table leaves the resources' lock alone, and the other way
\* round.
LEMMA TableStep ==
    ASSUME NEW p \in Procs, LockInv, GetLock(p)
    PROVE  LockInv'
<1> USE RepositoryAssumption DEF LockInv
<1>1. CASE RLockTable(p)
  BY <1>1 DEF RLockTable, RLocked, Open, LockTypes, TableGuarded, OneLock,
              MapGuarded, Exclusive
<1>2. CASE Peek(p)
  BY <1>2 DEF Peek, Freed, LockTypes, TableGuarded, OneLock, MapGuarded, Exclusive
<1>3. CASE LockTable(p)
  BY <1>3 DEF LockTable, Claimed, Open, LockTypes, TableGuarded, OneLock,
              MapGuarded, Exclusive
<1>4. CASE DrainTable(p)
  BY <1>4 DEF DrainTable, Drained, LockTypes, TableGuarded, OneLock,
              MapGuarded, Exclusive
<1>5. CASE Make(p)
  BY <1>5 DEF Make, Freed, LockTypes, TableGuarded, OneLock, MapGuarded, Exclusive
<1> QED BY <1>1, <1>2, <1>3, <1>4, <1>5 DEF GetLock

LEMMA ResourceStep ==
    ASSUME NEW p \in Procs, LockInv, Operation(p)
    PROVE  LockInv'
<1> USE RepositoryAssumption DEF LockInv
<1>1. CASE Acquire(p)
  BY <1>1 DEF Acquire, Open, Claimed, RLocked, LockTypes, TableGuarded, OneLock,
              MapGuarded, Exclusive
<1>2. CASE Drain(p)
  BY <1>2 DEF Drain, Drained, LockTypes, TableGuarded, OneLock, MapGuarded, Exclusive
<1>3. CASE Check(p)
  BY <1>3 DEF Check, LockTypes, TableGuarded, OneLock, MapGuarded, Exclusive
<1>4. CASE Access(p)
  BY <1>4 DEF Access, LockTypes, TableGuarded, OneLock, MapGuarded, Exclusive
<1>5. CASE Release(p)
  BY <1>5 DEF Release, Freed, LockTypes, TableGuarded, OneLock, MapGuarded, Exclusive
<1> QED BY <1>1, <1>2, <1>3, <1>4, <1>5 DEF Operation

LEMMA ClientStep ==
    ASSUME NEW p \in Procs, LockInv,
           Return(p) \/ \E c \in Calls : Invoke(p, c)
    PROVE  LockInv'
  BY RepositoryAssumption
  DEF LockInv, Return, Invoke, LockTypes, TableGuarded, OneLock, MapGuarded, Exclusive

LEMMA LockInvStep == LockInv /\ [Next]_vars => LockInv'
<1> SUFFICES ASSUME LockInv, [Next]_vars PROVE LockInv'
  OBVIOUS
<1>1. CASE UNCHANGED vars
  BY <1>1 DEF vars, LockInv, LockTypes, TableGuarded, OneLock, MapGuarded, Exclusive
<1>2. CASE Next
  BY <1>2, TableStep, ResourceStep, ClientStep DEF Next
<1> QED BY <1>1, <1>2

LEMMA LockInvRaceFree == LockInv => NoDataRace
  BY DEF LockInv, LockTypes, TableGuarded, OneLock, MapGuarded, NoDataRace, Inside

\* In every execution, with any number of goroutines and ids, nobody reads or
\* writes a map of the repository while another goroutine writes it.
THEOREM RaceFree == Spec => []NoDataRace
  BY LockInvInit, LockInvStep, LockInvRaceFree, PTL DEF Spec

---------------------------------------------------------------------------
(* Nobody is stuck.                                                        *)

\* Whoever has locksMutex is between its lock and its unlock, ...
TableHeld ==
    /\ \A p \in Procs :
         locksMutex.writer = p => pc[p] \in {"drainTable", "make"}
    /\ \A p \in locksMutex.readers : pc[p] = "peek"

\* ... and so is whoever has the lock of the resources, in the mode of its
\* call.
MapHeld ==
    \A l \in Procs :
        /\ \A p \in Procs : rw[l].writer = p =>
             /\ mine[p] = l
             /\ pc[p] \in {"drain", "check", "access", "release"}
             /\ Exclusive(p)
        /\ \A p \in rw[l].readers :
             /\ mine[p] = l
             /\ pc[p] \in {"check", "access", "release"}
             /\ ~Exclusive(p)

HeldInv == TableHeld /\ MapHeld

LEMMA HeldInit == Init => HeldInv
  BY RepositoryAssumption DEF Init, HeldInv, TableHeld, MapHeld, Unlocked

LEMMA TableStepHeld ==
    ASSUME NEW p \in Procs, LockInv, HeldInv, GetLock(p)
    PROVE  HeldInv'
<1> USE RepositoryAssumption DEF LockInv, LockTypes, HeldInv
<1>1. CASE RLockTable(p)
  BY <1>1 DEF RLockTable, RLocked, TableHeld, MapHeld, Exclusive
<1>2. CASE Peek(p)
  BY <1>2 DEF Peek, Freed, TableHeld, MapHeld, Exclusive
<1>3. CASE LockTable(p)
  BY <1>3 DEF LockTable, Claimed, TableHeld, MapHeld, Exclusive
<1>4. CASE DrainTable(p)
  BY <1>4 DEF DrainTable, TableHeld, MapHeld, Exclusive
<1>5. CASE Make(p)
  BY <1>5 DEF Make, Freed, TableGuarded, TableHeld, MapHeld, Exclusive
<1> QED BY <1>1, <1>2, <1>3, <1>4, <1>5 DEF GetLock

LEMMA ResourceStepHeld ==
    ASSUME NEW p \in Procs, LockInv, HeldInv, Operation(p)
    PROVE  HeldInv'
<1> USE RepositoryAssumption DEF LockInv, LockTypes, HeldInv
<1>1. CASE Acquire(p)
  BY <1>1 DEF Acquire, Open, Claimed, RLocked, OneLock, TableHeld, MapHeld, Exclusive
<1>2. CASE Drain(p)
  BY <1>2 DEF Drain, TableHeld, MapHeld, Exclusive
<1>3. CASE Check(p)
  BY <1>3 DEF Check, TableHeld, MapHeld, Exclusive
<1>4. CASE Access(p)
  BY <1>4 DEF Access, TableHeld, MapHeld, Exclusive
<1>5. CASE Release(p)
  BY <1>5 DEF Release, Freed, OneLock, TableHeld, MapHeld, Exclusive
<1> QED BY <1>1, <1>2, <1>3, <1>4, <1>5 DEF Operation

LEMMA HeldStep == LockInv /\ HeldInv /\ [Next]_vars => HeldInv'
<1> SUFFICES ASSUME LockInv, HeldInv, [Next]_vars PROVE HeldInv'
  OBVIOUS
<1>1. CASE UNCHANGED vars
  BY <1>1 DEF vars, HeldInv, TableHeld, MapHeld, Exclusive
<1>2. ASSUME NEW p \in Procs, Return(p) \/ \E c \in Calls : Invoke(p, c)
      PROVE  HeldInv'
  BY <1>2 DEF LockInv, LockTypes, HeldInv, TableHeld, MapHeld, Return, Invoke, Exclusive
<1> QED BY <1>1, <1>2, TableStepHeld, ResourceStepHeld DEF Next

\* Goroutine p is at a lock that it does not get as things are.
Waits(p) ==
    \/ pc[p] \in {"rlock", "wlock"} /\ ~Open(locksMutex)
    \/ pc[p] = "drainTable" /\ ~Drained(locksMutex)
    \/ pc[p] = "acquire" /\ ~Open(rw[mine[p]])
    \/ pc[p] = "drain" /\ ~Drained(rw[mine[p]])

\* If anybody waits, somebody inside a call does not.
SomebodyRuns ==
    (\E p \in Procs : Waits(p)) =>
        \E q \in Procs : pc[q] \notin {"idle", "answered"} /\ ~Waits(q)

\* Behind a lock somebody waits for there is a reader, or a writer that
\* waits for readers at most, and readers wait for nobody.
LEMMA HeldRuns == LockInv /\ HeldInv => SomebodyRuns
<1> SUFFICES ASSUME LockInv, HeldInv, NEW p \in Procs, Waits(p)
             PROVE  \E q \in Procs : pc[q] \notin {"idle", "answered"} /\ ~Waits(q)
  BY DEF SomebodyRuns
<1> USE RepositoryAssumption DEF LockInv, LockTypes, HeldInv
<1>1. CASE locksMutex.readers # {}
  <2>1. PICK q \in locksMutex.readers : TRUE
    BY <1>1
  <2> QED BY <2>1 DEF TableHeld, Waits
<1>2. CASE locksMutex.readers = {} /\ ~Open(locksMutex)
  <2>1. locksMutex.writer \in Procs
    BY <1>2 DEF Open
  <2> QED BY <1>2, <2>1 DEF TableHeld, Waits, Drained
<1>3. CASE locksMutex.readers = {} /\ Open(locksMutex)
  <2> DEFINE m == rw[mine[p]]
  <2>1. /\ \/ pc[p] = "acquire" /\ ~Open(m)
           \/ pc[p] = "drain" /\ ~Drained(m)
        /\ mine[p] \in Procs /\ m \in RWMutex
    BY <1>3 DEF Waits, OneLock, Drained
  <2>2. CASE m.readers # {}
    <3>1. PICK q \in m.readers : TRUE
      BY <2>2
    <3> QED BY <2>1, <3>1 DEF MapHeld, Waits
  <2>3. CASE m.readers = {}
    <3>1. m.writer \in Procs
      BY <2>1, <2>3 DEF Open, Drained
    <3> QED BY <2>1, <2>3, <3>1 DEF MapHeld, Waits, Drained
  <2> QED BY <2>2, <2>3
<1> QED BY <1>1, <1>2, <1>3

\* Goroutines never wait for each other in a circle, however many they are
\* and whatever they call: while one waits for a lock of the repository,
\* another one inside a call can take its next step.
THEOREM NobodyIsStuck == Spec => []SomebodyRuns
<1>1. LockInv /\ HeldInv /\ [Next]_vars => LockInv' /\ HeldInv'
  BY LockInvStep, HeldStep
<1> QED BY LockInvInit, HeldInit, HeldRuns, <1>1, PTL DEF Spec

---------------------------------------------------------------------------

\* What a goroutine found when it checked still holds when it accesses the
\* resources: nobody changed them between the two.
CheckedStill ==
    \A p \in Procs : pc[p] = "access" =>
        /\ ~Refuses(p)
        /\ call[p].op \in Creators => resources # Nil

StoreInv == LockInv /\ NoDataRace /\ TypeOK /\ CheckedStill

LEMMA StoredType ==
    ASSUME TypeOK
    PROVE  /\ Stored \in [Ids -> Bodies \cup {None}]
           /\ resources # Nil => resources = Stored
  BY RepositoryAssumption DEF TypeOK, Stored

LEMMA CallTypes ==
    ASSUME NEW c \in Calls
    PROVE  /\ c.op \in Abstract!Operations
           /\ c.op \in {"createWithID", "get", "update", "delete", "exists"}
                => c.id \in Ids
           /\ c.op \in {"create", "createWithID", "update"} => c.body \in Bodies
  BY RepositoryAssumption DEF Abstract!Call

LEMMA ReplyTypes ==
    /\ Abstract!NoReply \in Abstract!Reply
    /\ Abstract!Answer("notFound", {}) \in Abstract!Reply
    /\ Abstract!Answer("alreadyExists", {}) \in Abstract!Reply
    /\ \A f \in SUBSET (Ids \X Bodies) : Abstract!Answer("ok", f) \in Abstract!Reply
  BY DEF Abstract!NoReply, Abstract!Answer, Abstract!Reply

LEMMA ContentsType ==
    ASSUME TypeOK
    PROVE  Abstract!Contents(Stored) \in SUBSET (Ids \X Bodies)
  BY StoredType DEF Abstract!Contents

LEMMA StoreInvInit == Init => TypeOK /\ CheckedStill
  BY ReplyTypes, RepositoryAssumption
  DEF Init, TypeOK, CheckedStill, Unlocked

\* A goroutine alone with the resources keeps what the others have checked.
LEMMA OthersUnchecked ==
    ASSUME NEW p \in Procs, NoDataRace, Inside(p), Exclusive(p)
    PROVE  \A q \in Procs \ {p} : pc[q] # "access"
  BY DEF NoDataRace, Inside

LEMMA AccessTypes ==
    ASSUME NEW p \in Procs, StoreInv, Access(p)
    PROVE  /\ resources' \in [Ids -> Bodies \cup {None}] \cup {Nil}
           /\ reply' \in [Procs -> Abstract!Reply]
<1> USE DEF StoreInv
<1>. /\ pc[p] = "access" /\ call[p] \in Calls
     /\ resources \in [Ids -> Bodies \cup {None}] \cup {Nil}
     /\ reply \in [Procs -> Abstract!Reply]
  BY DEF Access, TypeOK
<1>. call[p].op \in Creators => resources \in [Ids -> Bodies \cup {None}]
  BY DEF TypeOK
<1>1. CASE Create(p)
  BY <1>1, CallTypes, ReplyTypes DEF Create, Answers, Creators
<1>2. CASE CreateWithID(p)
  BY <1>2, CallTypes, ReplyTypes DEF CreateWithID, Answers, Creators
<1>3. CASE Update(p) \/ Delete(p)
  <2>1. resources # Nil
    BY <1>3, CallTypes DEF CheckedStill, Refuses, Stored, Update, Delete
  <2> QED BY <1>3, <2>1, CallTypes, ReplyTypes DEF Update, Delete, Answers
<1>4. CASE Clear(p)
  BY <1>4, ReplyTypes DEF Clear, Answers
<1>5. CASE Get(p)
  <2>1. <<call[p].id, Stored[call[p].id]>> \in Ids \X Bodies
    BY <1>5, CallTypes, StoredType DEF Get, CheckedStill, Refuses
  <2> QED BY <1>5, <2>1, ReplyTypes DEF Get, Answers
<1>6. CASE Exists(p) \/ List(p)
  BY <1>6, ReplyTypes, ContentsType DEF Exists, List, Answers
<1> QED BY <1>1, <1>2, <1>3, <1>4, <1>5, <1>6 DEF Access

\* Making the map does not change what is stored.
LEMMA CheckKeepsStore ==
    ASSUME NEW p \in Procs, TypeOK, Check(p)
    PROVE  Stored' = Stored /\ resources' \in [Ids -> Bodies \cup {None}] \cup {Nil}
  BY StoredType, RepositoryAssumption DEF Check, Stored, TypeOK

LEMMA TypeStep ==
    ASSUME StoreInv, Next
    PROVE  TypeOK'
<1> USE RepositoryAssumption DEF StoreInv
<1>1. ASSUME NEW p \in Procs, GetLock(p) PROVE TypeOK'
  BY <1>1 DEF GetLock, RLockTable, Peek, LockTable, DrainTable, Make, RLocked,
              Claimed, Freed, TypeOK
<1>2. ASSUME NEW p \in Procs, Return(p) \/ \E c \in Calls : Invoke(p, c) PROVE TypeOK'
  BY <1>2, ReplyTypes DEF Return, Invoke, TypeOK
<1>3. ASSUME NEW p \in Procs, Acquire(p) \/ Drain(p) \/ Release(p) PROVE TypeOK'
  <2>1. mine[p] \in Procs
    BY <1>3 DEF Acquire, Drain, Release, LockInv, OneLock
  <2> QED BY <1>3, <2>1 DEF Acquire, Drain, Release, RLocked, Claimed, Freed, TypeOK
<1>4. ASSUME NEW p \in Procs, Check(p) PROVE TypeOK'
  <2>1. reply' \in [Procs -> Abstract!Reply] /\ pc' \in [Procs -> Pcs]
    BY <1>4, ReplyTypes DEF Check, Refusal, TypeOK
  <2>2. ASSUME NEW q \in Procs, pc'[q] = "access", call[q].op \in Creators
        PROVE  resources' # Nil
    BY <1>4, <2>2, StoredType, CheckKeepsStore DEF Check, TypeOK
  <2> QED BY <1>4, <2>1, <2>2, CheckKeepsStore DEF Check, TypeOK
<1>5. ASSUME NEW p \in Procs, Access(p) PROVE TypeOK'
  <2>1. ASSUME NEW q \in Procs, pc'[q] = "access", call[q].op \in Creators
        PROVE  resources' # Nil
    <3>1. q # p /\ pc[q] = "access"
      BY <1>5, <2>1 DEF Access, TypeOK
    <3>2. Exclusive(q) /\ Inside(q) /\ Inside(p)
      BY <1>5, <2>1, <3>1 DEF Exclusive, Writers, Creators, Inside, Access
    <3> QED BY <3>1, <3>2 DEF NoDataRace
  <2> QED BY <1>5, <2>1, AccessTypes DEF Access, TypeOK
<1> QED BY <1>1, <1>2, <1>3, <1>4, <1>5 DEF Next, Operation

LEMMA CheckedStep ==
    ASSUME StoreInv, Next
    PROVE  CheckedStill'
<1> USE RepositoryAssumption DEF StoreInv
<1>1. ASSUME NEW p \in Procs,
             GetLock(p) \/ Return(p) \/ (\E c \in Calls : Invoke(p, c))
               \/ Acquire(p) \/ Drain(p) \/ Release(p)
      PROVE  CheckedStill'
  <2>1. /\ Stored' = Stored /\ resources' = resources
        /\ \A q \in Procs : pc'[q] = "access" => pc[q] = "access" /\ call'[q] = call[q]
    BY <1>1 DEF GetLock, RLockTable, Peek, LockTable, DrainTable, Make, Return,
                Invoke, Acquire, Drain, Release, Stored, TypeOK
  <2> QED BY <2>1 DEF CheckedStill, Refuses
<1>2. ASSUME NEW p \in Procs, Check(p) PROVE CheckedStill'
  <2>1. \A q \in Procs : pc'[q] = "access" =>
            pc[q] = "access" \/ (q = p /\ ~Refuses(p))
    BY <1>2 DEF Check, TypeOK
  <2>2. resources # Nil => resources' # Nil
    BY <1>2, StoredType DEF Check
  <2>3. call[p].op \in Creators => resources' # Nil
    BY <1>2, StoredType DEF Check
  <2>4. Stored' = Stored /\ call' = call
    BY <1>2, CheckKeepsStore DEF Check
  <2> QED BY <2>1, <2>2, <2>3, <2>4 DEF CheckedStill, Refuses
<1>3. ASSUME NEW p \in Procs, Access(p) PROVE CheckedStill'
  <2>1. \A q \in Procs : pc'[q] = "access" => q # p /\ pc[q] = "access"
    BY <1>3 DEF Access, TypeOK
  <2>2. CASE Exclusive(p)
    <3>1. \A q \in Procs : pc'[q] # "access"
      BY <1>3, <2>1, <2>2, OthersUnchecked DEF Access, Inside
    <3> QED BY <3>1 DEF CheckedStill
  <2>3. CASE ~Exclusive(p)
    <3>1. Stored' = Stored /\ resources' = resources /\ call' = call
      BY <1>3, <2>3 DEF Access, Exclusive, Writers, Create, CreateWithID, Update,
                        Delete, Clear, Get, Exists, List, Stored
    <3> QED BY <2>1, <3>1 DEF CheckedStill, Refuses
  <2> QED BY <2>2, <2>3
<1> QED BY <1>1, <1>2, <1>3 DEF Next, Operation

LEMMA StoreInvAlways == Spec => []StoreInv
<1>1. Init => StoreInv
  BY LockInvInit, StoreInvInit DEF StoreInv, Init, NoDataRace, Inside
<1>2. StoreInv /\ [Next]_vars => StoreInv'
  <2> SUFFICES ASSUME StoreInv, [Next]_vars PROVE StoreInv'
    OBVIOUS
  <2>1. LockInv' /\ NoDataRace'
    BY LockInvStep, LockInvRaceFree, PTL DEF StoreInv
  <2>2. CASE Next
    BY <2>1, <2>2, TypeStep, CheckedStep DEF StoreInv
  <2>3. CASE UNCHANGED vars
    BY <2>1, <2>3 DEF vars, StoreInv, TypeOK, CheckedStill, Refuses, Stored
  <2> QED BY <2>2, <2>3
<1> QED BY <1>1, <1>2, PTL DEF Spec

\* In every execution every variable has its type, and nobody assigns to an
\* entry of a map that was not made.
THEOREM TypeCorrect == Spec => []TypeOK
<1>1. StoreInv => TypeOK
  BY DEF StoreInv
<1> QED BY <1>1, StoreInvAlways, PTL

---------------------------------------------------------------------------

\* Before its access a call has done nothing; at its access, or when it is
\* refused, it does all it does.
LEMMA StutterSteps ==
    ASSUME NEW p \in Procs, StoreInv,
           GetLock(p) \/ Acquire(p) \/ Drain(p) \/ Release(p)
    PROVE  UNCHANGED Abstract!vars
  BY DEF StoreInv, TypeOK, GetLock, RLockTable, Peek, LockTable, DrainTable, Make,
         Acquire, Drain, Release, Stored, Client, Over, Abstract!vars

LEMMA CallerSteps ==
    ASSUME NEW p \in Procs, StoreInv
    PROVE  /\ Return(p) => Abstract!Return(p)
           /\ \A c \in Calls : Invoke(p, c) => Abstract!Invoke(p, c)
<1> USE DEF StoreInv
<1>1. ASSUME Return(p) PROVE Abstract!Return(p)
  <2>1. Client' = [Client EXCEPT ![p] = [pc |-> "idle", call |-> None,
                                         reply |-> Abstract!NoReply]]
    BY <1>1 DEF Return, TypeOK, Client, Over
  <2> QED BY <1>1, <2>1 DEF Return, Stored, Client, Over, Abstract!Return, Abstract!NoReply
<1>2. ASSUME NEW c \in Calls, Invoke(p, c) PROVE Abstract!Invoke(p, c)
  <2>1. Client' = [Client EXCEPT ![p] = [pc |-> "called", call |-> c,
                                         reply |-> Abstract!NoReply]]
    BY <1>2 DEF Invoke, TypeOK, Client, Over
  <2> QED BY <1>2, <2>1 DEF Invoke, Stored, Client, Over, Abstract!Invoke, Abstract!NoReply
<1> QED BY <1>1, <1>2

LEMMA CheckSteps ==
    ASSUME NEW p \in Procs, StoreInv, Check(p)
    PROVE  Abstract!Do(p) \/ UNCHANGED Abstract!vars
<1> USE DEF StoreInv
<1>1. Stored' = Stored
  BY CheckKeepsStore
<1>2. CASE Refuses(p) /\ reply' = [reply EXCEPT ![p] = Refusal(p)]
                     /\ pc' = [pc EXCEPT ![p] = "release"]
  <2>1. Abstract!Effect(call[p], Stored, Stored', Refusal(p))
    BY <1>1, <1>2 DEF Refuses, Refusal, Abstract!Effect
  <2>2. Refusal(p) \in Abstract!Reply
    BY ReplyTypes DEF Refusal
  <2>3. Client' = [Client EXCEPT ![p].pc = "answered", ![p].reply = Refusal(p)]
    BY <1>2 DEF Check, Client, Over, TypeOK
  <2>4. Client[p].pc = "called" /\ Client[p].call = call[p]
    BY DEF Check, Client, Over
  <2> QED BY <2>1, <2>2, <2>3, <2>4 DEF Abstract!Do
<1>3. CASE pc' = [pc EXCEPT ![p] = "access"] /\ UNCHANGED reply
  BY <1>1, <1>3 DEF Check, Client, Over, TypeOK, Abstract!vars
<1> QED BY <1>2, <1>3 DEF Check

LEMMA AccessSteps ==
    ASSUME NEW p \in Procs, StoreInv, Access(p)
    PROVE  Abstract!Do(p)
<1> USE DEF StoreInv
<1>1. \E r \in Abstract!Reply : /\ reply' = [reply EXCEPT ![p] = r]
                                /\ Abstract!Effect(call[p], Stored, Stored', r)
  <2>1. /\ pc[p] = "access" /\ call[p] \in Calls /\ ~Refuses(p)
        /\ call[p].op \in Creators => resources # Nil
    BY DEF Access, TypeOK, CheckedStill
  <2>2. CASE Create(p)
    <3>1. call[p].body \in Bodies /\ resources = Stored
      BY <2>1, <2>2, CallTypes, StoredType DEF Create, Creators
    <3>2. PICK i \in Ids : /\ resources[i] = None
                          /\ resources' = [resources EXCEPT ![i] = call[p].body]
                          /\ reply' = [reply EXCEPT ![p] =
                               Abstract!Answer("ok", {<<i, call[p].body>>})]
      BY <2>2 DEF Create, Answers
    <3>3. Abstract!Answer("ok", {<<i, call[p].body>>}) \in Abstract!Reply
      BY <3>1, ReplyTypes
    <3>4. Stored' = [Stored EXCEPT ![i] = call[p].body]
      <4>1. Stored \in [Ids -> Bodies \cup {None}]
        BY StoredType
      <4>2. resources' \in [Ids -> Bodies \cup {None}]
        BY <3>1, <3>2, <4>1
      <4>3. resources' # Nil
        BY <4>2, RepositoryAssumption
      <4> QED BY <3>1, <3>2, <4>3 DEF Stored
    <3> QED BY <2>2, <3>1, <3>2, <3>3, <3>4 DEF Create, Abstract!Effect
  <2>3. CASE CreateWithID(p)
    <3>1. call[p].id \in Ids /\ call[p].body \in Bodies /\ resources = Stored
      BY <2>1, <2>3, CallTypes, StoredType DEF CreateWithID, Creators
    <3>2. Stored' = [Stored EXCEPT ![call[p].id] = call[p].body]
      BY <2>3, <3>1, StoredType, RepositoryAssumption DEF CreateWithID, Stored
    <3> QED BY <2>1, <2>3, <3>1, <3>2, ReplyTypes
            DEF CreateWithID, Refuses, Answers, Abstract!Effect
  <2>4. CASE Update(p)
    <3>1. call[p].id \in Ids /\ call[p].body \in Bodies /\ resources = Stored
      BY <2>1, <2>4, CallTypes, StoredType DEF Update, Refuses, Stored
    <3>2. Stored' = [Stored EXCEPT ![call[p].id] = call[p].body]
      BY <2>4, <3>1, StoredType, RepositoryAssumption DEF Update, Stored
    <3> QED BY <2>1, <2>4, <3>1, <3>2, ReplyTypes
            DEF Update, Refuses, Answers, Abstract!Effect
  <2>5. CASE Delete(p)
    <3>1. call[p].id \in Ids /\ resources = Stored
      BY <2>1, <2>5, CallTypes, StoredType DEF Delete, Refuses, Stored
    <3>2. Stored' = [Stored EXCEPT ![call[p].id] = None]
      BY <2>5, <3>1, StoredType, RepositoryAssumption DEF Delete, Stored
    <3> QED BY <2>1, <2>5, <3>1, <3>2, ReplyTypes
            DEF Delete, Refuses, Answers, Abstract!Effect
  <2>6. CASE Clear(p)
    BY <2>6, ReplyTypes, RepositoryAssumption
    DEF Clear, Stored, Answers, Abstract!Effect, Abstract!Empty
  <2>7. CASE Get(p)
    <3>1. <<call[p].id, Stored[call[p].id]>> \in Ids \X Bodies
      BY <2>1, <2>7, CallTypes, StoredType DEF Get, Refuses
    <3>2. Stored' = Stored
      BY <2>7 DEF Get, Stored
    <3> QED BY <2>1, <2>7, <3>1, <3>2, ReplyTypes
            DEF Get, Refuses, Answers, Abstract!Effect
  <2>8. CASE Exists(p)
    BY <2>1, <2>8, ReplyTypes DEF Exists, Refuses, Answers, Stored, Abstract!Effect
  <2>9. CASE List(p)
    BY <2>9, ReplyTypes, ContentsType DEF List, Answers, Stored, Abstract!Effect
  <2> QED BY <2>2, <2>3, <2>4, <2>5, <2>6, <2>7, <2>8, <2>9 DEF Access
<1>2. PICK r \in Abstract!Reply : /\ reply' = [reply EXCEPT ![p] = r]
                                 /\ Abstract!Effect(call[p], Stored, Stored', r)
  BY <1>1
<1>3. Client' = [Client EXCEPT ![p].pc = "answered", ![p].reply = r]
  BY <1>2 DEF Access, Client, Over, TypeOK
<1>4. Client[p].pc = "called" /\ Client[p].call = call[p]
  BY DEF Access, Client, Over
<1> QED BY <1>2, <1>3, <1>4 DEF Abstract!Do

\* In every execution, with any number of goroutines, ids and resources, the
\* repository behaves like one whose operations happen at one moment each.
THEOREM Atomic == Spec => Linearizable
<1>1. Init => Abstract!Init
  BY DEF Init, Abstract!Init, Abstract!Empty, Stored, Client, Over
<1>2. StoreInv /\ [Next]_vars => [Abstract!Next]_(Abstract!vars)
  <2> SUFFICES ASSUME StoreInv, [Next]_vars PROVE [Abstract!Next]_(Abstract!vars)
    OBVIOUS
  <2>1. CASE Next
    BY <2>1, StutterSteps, CallerSteps, CheckSteps, AccessSteps
    DEF Next, Operation, Abstract!Next
  <2>2. CASE UNCHANGED vars
    BY <2>2 DEF vars, Stored, Client, Over, Abstract!vars
  <2> QED BY <2>1, <2>2
<1> QED BY <1>1, <1>2, StoreInvAlways, PTL DEF Spec, Linearizable, Abstract!Spec
=============================================================================
