------------------------------- MODULE Store -------------------------------
(***************************************************************************)
(* What a repository promises the goroutines that share it                 *)
(* (Repository[T] of pkg/storage/repository.go): every call takes effect   *)
(* at one moment between its invocation and its return, as if the calls    *)
(* had been made one after the other.                                      *)
(*                                                                         *)
(* A resource is its body; the metadata Create adds to it are left out.    *)
(***************************************************************************)

CONSTANTS Procs,    \* goroutines
          Ids,      \* resource ids
          Bodies,   \* resources
          Calls,    \* the calls they make
          None      \* no resource, no call

Operations == {"create", "createWithID", "get", "update", "delete", "list",
               "exists", "clear"}

\* id and body are None where an operation has no such parameter.
Call == [op : Operations, id : Ids \cup {None}, body : Bodies \cup {None}]

\* What a call returns: an error or the boolean of Exists as a status, and
\* the resources, or the one created.
Reply == [status : {"ok", "notFound", "alreadyExists"},
          found  : SUBSET (Ids \X Bodies)]

Answer(status, found) == [status |-> status, found |-> found]

NoReply == Answer("ok", {})

VARIABLES store,    \* the resource under each id, or None
          client    \* what each goroutine is about

Empty == [i \in Ids |-> None]

Contents(s) == {<<i, s[i]>> : i \in {i \in Ids : s[i] # None}}

Init == /\ store = Empty
        /\ client = [p \in Procs |->
                       [pc |-> "idle", call |-> None, reply |-> NoReply]]

Invoke(p, c) ==
    /\ client[p].pc = "idle"
    /\ client' = [client EXCEPT ![p] = [pc |-> "called", call |-> c,
                                        reply |-> NoReply]]
    /\ UNCHANGED store

\* What call c does to the resources s, and what it answers.
Effect(c, s, t, r) ==
    \/ /\ c.op = "create"
       /\ \E i \in Ids : /\ s[i] = None
                         /\ t = [s EXCEPT ![i] = c.body]
                         /\ r = Answer("ok", {<<i, c.body>>})
    \/ /\ c.op = "createWithID"
       /\ s[c.id] = None
       /\ t = [s EXCEPT ![c.id] = c.body]
       /\ r = NoReply
    \/ /\ c.op = "createWithID"
       /\ s[c.id] # None
       /\ t = s
       /\ r = Answer("alreadyExists", {})
    \/ /\ c.op \in {"get", "update", "delete", "exists"}
       /\ s[c.id] = None
       /\ t = s
       /\ r = Answer("notFound", {})
    \/ /\ c.op = "get"
       /\ s[c.id] # None
       /\ t = s
       /\ r = Answer("ok", {<<c.id, s[c.id]>>})
    \/ /\ c.op = "exists"
       /\ s[c.id] # None
       /\ t = s
       /\ r = NoReply
    \/ /\ c.op = "update"
       /\ s[c.id] # None
       /\ t = [s EXCEPT ![c.id] = c.body]
       /\ r = NoReply
    \/ /\ c.op = "delete"
       /\ s[c.id] # None
       /\ t = [s EXCEPT ![c.id] = None]
       /\ r = NoReply
    \/ /\ c.op = "list"
       /\ t = s
       /\ r = Answer("ok", Contents(s))
    \/ /\ c.op = "clear"
       /\ t = Empty
       /\ r = NoReply

Do(p) ==
    /\ client[p].pc = "called"
    /\ \E r \in Reply :
         /\ Effect(client[p].call, store, store', r)
         /\ client' = [client EXCEPT ![p].pc = "answered", ![p].reply = r]

Return(p) ==
    /\ client[p].pc = "answered"
    /\ client' = [client EXCEPT ![p] = [pc |-> "idle", call |-> None,
                                        reply |-> NoReply]]
    /\ UNCHANGED store

Next == \E p \in Procs : \/ \E c \in Calls : Invoke(p, c)
                         \/ Do(p)
                         \/ Return(p)

vars == <<store, client>>

Spec == Init /\ [][Next]_vars
=============================================================================
