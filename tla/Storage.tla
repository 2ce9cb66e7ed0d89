------------------------------ MODULE Storage ------------------------------
(***************************************************************************)
(* The storages of the processing cache (data_storage/): several storage   *)
(* objects over one back end, each with a namespace, a lock and the flag   *)
(* `raise_on_error', shared by several threads.                            *)
(*                                                                         *)
(* `backend' is the class: "memory", "redis", "sql" or "mongo".  (The      *)
(* methods of NullStorage do nothing.)  Data is left out: an entry is      *)
(* absent, kept for good, or kept until it expires.  A command sent to the *)
(* back end is one step and may fail; the memory is a dictionary of the    *)
(* storage object and does not.  An entry stands at the namespace and the  *)
(* key that _prefix() makes of the caller's key, whether or not the caller *)
(* has prefixed it already; a missing namespace is a namespace.            *)
(***************************************************************************)
EXTENDS Integers, FiniteSets

CONSTANTS Threads, NoThread,
          Storages,     \* the storage objects
          Space,        \* storage |-> its namespace
          Longer,       \* pairs <<n, m>>: m is another namespace beginning with n
          TTL,          \* storage |-> was it given a ttl?
          Keys,
          Backends,     \* the classes to consider
          Flags         \* the values of raise_on_error: storage |-> BOOLEAN

Spaces == {Space[s] : s \in Storages}

ASSUME StorageAssumption ==
    /\ NoThread \notin Threads
    /\ Space \in [Storages -> Spaces] /\ TTL \in [Storages -> BOOLEAN]
    /\ Longer \subseteq Spaces \X Spaces
    /\ Storages \cap Spaces = {}
    /\ Backends \subseteq {"memory", "redis", "sql", "mongo"}
    /\ Flags \subseteq [Storages -> BOOLEAN]
    /\ Keys # {} /\ Storages # {}

VARIABLES
    backend,
    db,             \* <<namespace, key>> |-> "absent", "kept" or "expiring"
    configured,     \* storage |-> raise_on_error as given to __init__
    raise_on_error, \* storage |-> the attribute
    lock,           \* storage |-> owner of its lock, or NoThread
    pc,             \* where each thread is
    call,           \* its method, storage and key
    original_value, \* local of with_raise_on_error
    found,          \* what the verification found: "yes", "no" or "unknown"
    failed,         \* did the command inside with_raise_on_error raise?
    todo,           \* entries a Redis delete_all has listed and not deleted
    overlapped,     \* history: storages where two with_raise_on_error overlapped
    torn            \* history: entries whose expiry could not be set

flags   == <<configured, raise_on_error, overlapped>>
locals  == <<call, original_value, found, failed, todo>>
vars    == <<backend, db, flags, lock, pc, locals, torn>>

Methods == {"retrieve", "verify_cache", "update", "delete", "delete_all"}

\* Between calls; "silent": the last one returned without having done what it
\* was made for.
Rest == {"idle", "silent"}
PCs == Rest \cup {"save", "set", "look", "inner", "restore", "verifier",
                   "command", "expire", "drain", "handler"}

\* A dictionary of its own, or one database for all.
Place(s)    == IF backend = "memory" THEN s ELSE Space[s]
Entries     == (Spaces \cup Storages) \X Keys
Entry(t)    == <<Place(call[t].storage), call[t].key>>
Of(t)       == call[t].storage

\* Redis and MongoDB take a ttl; SQLAlchemyStorage and InMemoryStorage drop it.
Expires(s) == TTL[s] /\ backend \in {"redis", "mongo"}

\* The locals of a call that has ended are forgotten.
NoCall == CHOOSE c \in [method : {"retrieve"}, storage : Storages, key : Keys] : TRUE

Init ==
    /\ backend \in Backends
    /\ db = [e \in Entries |-> "absent"]
    /\ configured \in IF backend = "memory" THEN {[s \in Storages |-> FALSE]} ELSE Flags
    /\ raise_on_error = configured
    /\ lock = [s \in Storages |-> NoThread]
    /\ pc = [t \in Threads |-> "idle"]
    /\ call = [t \in Threads |-> NoCall]
    /\ original_value = [t \in Threads |-> FALSE]
    /\ found = [t \in Threads |-> "unknown"]
    /\ failed = [t \in Threads |-> FALSE]
    /\ todo = [t \in Threads |-> {}]
    /\ overlapped = {} /\ torn = {}

Goto(t, from, to) == pc[t] = from /\ pc' = [pc EXCEPT ![t] = to]

\* A step that may fail only when there is something to fail.
MayFail == backend # "memory"

Free(t) == lock[Of(t)] = NoThread

\* The call ends.
Return(t, from, how) ==
    /\ Goto(t, from, how)
    /\ call' = [call EXCEPT ![t] = NoCall]
    /\ original_value' = [original_value EXCEPT ![t] = FALSE]
    /\ found' = [found EXCEPT ![t] = "unknown"]
    /\ failed' = [failed EXCEPT ![t] = FALSE]
    /\ todo' = [todo EXCEPT ![t] = {}]

----------------------------------------------------------------------------
\* Which methods verify first, inside with_raise_on_error().
Guarded(method) == \/ method = "verify_cache" /\ backend \in {"sql", "mongo"}
                   \/ method = "update" /\ backend = "mongo"
                   \/ method = "delete" /\ backend = "redis"

Call(t, m, s, k) ==
    /\ pc[t] \in Rest
    /\ pc' = [pc EXCEPT ![t] = IF Guarded(m) THEN "save" ELSE "command"]
    /\ call' = [call EXCEPT ![t] = [method |-> m, storage |-> s, key |-> k]]
    /\ UNCHANGED <<backend, db, flags, lock, original_value, found, failed, todo, torn>>

----------------------------------------------------------------------------
(* with_raise_on_error(): verify_cache inside it *)

\* Threads between the read of the flag and its restoration.
InBlock(s) == {t \in Threads : Of(t) = s /\ pc[t] \in {"set", "look", "inner", "restore"}}

\* original_value = self.raise_on_error
SaveFlag(t) ==
    /\ Goto(t, "save", "set")
    /\ original_value' = [original_value EXCEPT ![t] = raise_on_error[Of(t)]]
    /\ overlapped' = IF InBlock(Of(t)) = {} THEN overlapped ELSE overlapped \cup {Of(t)}
    /\ UNCHANGED <<backend, db, configured, raise_on_error, lock, call, found, failed,
                   todo, torn>>

\* Mutant: with_raise_on_error(False), errors are suppressed while verifying.
SetFlagLowered(t) ==
    /\ Goto(t, "set", "look")
    /\ raise_on_error' = [raise_on_error EXCEPT ![Of(t)] = FALSE]
    /\ UNCHANGED <<backend, db, configured, overlapped, lock, locals, torn>>

\* self.raise_on_error = value
SetFlag(t) ==
    /\ Goto(t, "set", "look")
    /\ raise_on_error' = [raise_on_error EXCEPT ![Of(t)] = TRUE]
    /\ UNCHANGED <<backend, db, configured, overlapped, lock, locals, torn>>

\* The back end is asked for the entry, or the command fails.
Look(t) ==
    /\ Free(t)
    /\ \/ /\ Goto(t, "look", "restore")
          /\ found' = [found EXCEPT ![t] = IF db[Entry(t)] = "absent" THEN "no" ELSE "yes"]
       \/ /\ Goto(t, "look", "inner")
          /\ UNCHANGED found
    /\ UNCHANGED <<backend, db, flags, lock, call, original_value, failed, todo, torn>>

\* The handler inside the block: raise, or take the entry for absent.
Inner(t) ==
    /\ Goto(t, "inner", "restore")
    /\ failed' = [failed EXCEPT ![t] = raise_on_error[Of(t)]]
    /\ UNCHANGED <<backend, db, flags, lock, call, original_value, found, todo,
                   torn>>

\* After the verification: update writes, delete removes what is there.
GoesOn(t) == \/ call[t].method = "update"
             \/ call[t].method = "delete" /\ found[t] = "yes"

\* Where a command that raised inside the block leads.
Raised(t) == IF call[t].method = "update" THEN "verifier" ELSE "handler"

\* Mutant: no `finally', a command that raised leaves the flag set.
RestoreFlagUnlessRaised(t) ==
    /\ raise_on_error' = IF failed[t] THEN raise_on_error
                         ELSE [raise_on_error EXCEPT ![Of(t)] = original_value[t]]
    /\ \/ failed[t] /\ Goto(t, "restore", Raised(t)) /\ UNCHANGED locals
       \/ ~failed[t] /\ GoesOn(t) /\ Goto(t, "restore", "command") /\ UNCHANGED locals
       \/ /\ ~failed[t] /\ ~GoesOn(t)
          /\ Return(t, "restore", IF found[t] = "unknown" THEN "silent" ELSE "idle")
    /\ UNCHANGED <<backend, db, configured, overlapped, lock, torn>>

\* finally: self.raise_on_error = original_value.  What follows is the handler
\* of the method, the handler of the verify_cache that update called, the
\* command itself, or the return.
RestoreFlag(t) ==
    /\ raise_on_error' = [raise_on_error EXCEPT ![Of(t)] = original_value[t]]
    /\ \/ failed[t] /\ Goto(t, "restore", Raised(t)) /\ UNCHANGED locals
       \/ ~failed[t] /\ GoesOn(t) /\ Goto(t, "restore", "command") /\ UNCHANGED locals
       \/ /\ ~failed[t] /\ ~GoesOn(t)
          /\ Return(t, "restore", IF found[t] = "unknown" THEN "silent" ELSE "idle")
    /\ UNCHANGED <<backend, db, configured, overlapped, lock, torn>>

\* verify_cache's own handler inside MongoDB's update.
Verifier(t) ==
    /\ Goto(t, "verifier", IF raise_on_error[Of(t)] THEN "handler" ELSE "command")
    /\ UNCHANGED <<backend, db, flags, lock, locals, torn>>

----------------------------------------------------------------------------
(* The command of the method *)

\* retrieve, and verify_cache where it is one command.
Read(t) ==
    /\ call[t].method \in {"retrieve", "verify_cache"}
    /\ Free(t) /\ Return(t, "command", "idle")
    /\ UNCHANGED <<backend, db, flags, lock, torn>>

\* Mutant: a new entry is written without its expiry.
WriteNewForGood(t) ==
    /\ call[t].method = "update" /\ backend # "redis"
    /\ Free(t) /\ Return(t, "command", "idle")
    /\ db' = [db EXCEPT ![Entry(t)] =
                 IF Expires(Of(t)) /\ found[t] = "yes" THEN "expiring" ELSE "kept"]
    /\ torn' = torn \ {Entry(t)}
    /\ UNCHANGED <<backend, flags, lock>>

\* update: the assignment, the committed row, or the document with `expireAt'.
\* ($set of a document another thread inserted meanwhile keeps its expireAt.)
Write(t) ==
    /\ call[t].method = "update" /\ backend # "redis"
    /\ Free(t) /\ Return(t, "command", "idle")
    /\ db' = [db EXCEPT ![Entry(t)] =
                 IF \/ Expires(Of(t))
                    \/ backend = "mongo" /\ found[t] # "yes" /\ @ = "expiring"
                 THEN "expiring" ELSE "kept"]
    /\ torn' = torn \ {Entry(t)}
    /\ UNCHANGED <<backend, flags, lock>>

\* Redis' update: SET drops an expiry, EXPIRE follows under the same lock.
RedisSet(t) ==
    /\ call[t].method = "update" /\ backend = "redis"
    /\ Free(t)
    /\ db' = [db EXCEPT ![Entry(t)] = "kept"]
    /\ torn' = torn \ {Entry(t)}
    /\ \/ /\ Expires(Of(t))
          /\ Goto(t, "command", "expire")
          /\ lock' = [lock EXCEPT ![Of(t)] = t]
          /\ UNCHANGED locals
       \/ /\ ~Expires(Of(t))
          /\ Return(t, "command", "idle")
          /\ UNCHANGED lock
    /\ UNCHANGED <<backend, flags>>

\* EXPIRE of an entry another client has deleted meanwhile does nothing.
RedisExpire(t) ==
    /\ Return(t, "expire", "idle")
    /\ db' = [db EXCEPT ![Entry(t)] = IF @ = "absent" THEN @ ELSE "expiring"]
    /\ torn' = torn \ {Entry(t)}
    /\ lock' = [lock EXCEPT ![Of(t)] = NoThread]
    /\ UNCHANGED <<backend, flags>>

\* EXPIRE fails: the entry has been set all the same.
RedisExpireFails(t) ==
    /\ Goto(t, "expire", "handler")
    /\ torn' = torn \cup {Entry(t)}
    /\ lock' = [lock EXCEPT ![Of(t)] = NoThread]
    /\ UNCHANGED <<backend, db, flags, locals>>

Remove(t) ==
    /\ call[t].method = "delete"
    /\ Free(t) /\ Return(t, "command", "idle")
    /\ db' = [db EXCEPT ![Entry(t)] = "absent"]
    /\ torn' = torn \ {Entry(t)}
    /\ UNCHANGED <<backend, flags, lock>>

\* Mutant of InNamespace: nothing is asked about the namespace.
InNamespaceAny(s, e) == TRUE

\* The entries delete_all takes for those of its namespace: by the prefix with
\* its colon (Redis), without it (SQL), or all of them (MongoDB).
InNamespace(s, e) ==
    \/ e[1] = Place(s)
    \/ backend = "sql" /\ <<Place(s), e[1]>> \in Longer
    \/ backend = "mongo"

RemoveAll(t) ==
    /\ call[t].method = "delete_all" /\ backend # "redis"
    /\ Free(t) /\ Return(t, "command", "idle")
    /\ db' = [e \in Entries |-> IF InNamespace(Of(t), e) THEN "absent" ELSE db[e]]
    /\ torn' = {e \in torn : ~InNamespace(Of(t), e)}
    /\ UNCHANGED <<backend, flags, lock>>

\* Redis lists the keys and deletes them one by one, under the lock.
RedisScan(t) ==
    /\ call[t].method = "delete_all" /\ backend = "redis"
    /\ Free(t) /\ Goto(t, "command", "drain")
    /\ lock' = [lock EXCEPT ![Of(t)] = t]
    /\ todo' = [todo EXCEPT ![t] =
                   {e \in Entries : InNamespace(Of(t), e) /\ db[e] # "absent"}]
    /\ UNCHANGED <<backend, db, flags, call, original_value, found, failed, torn>>

RedisDrain(t) ==
    /\ pc[t] = "drain"
    /\ \E e \in todo[t] :
          /\ db' = [db EXCEPT ![e] = "absent"]
          /\ torn' = torn \ {e}
          /\ todo' = [todo EXCEPT ![t] = @ \ {e}]
    /\ UNCHANGED <<backend, flags, lock, pc, call, original_value, found, failed>>

RedisDrained(t) ==
    /\ todo[t] = {} /\ Return(t, "drain", "idle")
    /\ lock' = [lock EXCEPT ![Of(t)] = NoThread]
    /\ UNCHANGED <<backend, db, flags, torn>>

RedisDrainFails(t) ==
    /\ todo[t] # {} /\ Goto(t, "drain", "handler")
    /\ lock' = [lock EXCEPT ![Of(t)] = NoThread]
    /\ UNCHANGED <<backend, db, flags, locals, torn>>

\* Mutant: the exception leaves the lock taken.
CommandFailsLocked(t) ==
    /\ MayFail
    /\ Free(t) /\ Goto(t, "command", "handler")
    /\ lock' = [lock EXCEPT ![Of(t)] = t]
    /\ UNCHANGED <<backend, db, flags, locals, torn>>

\* The command fails (a failed SQL transaction is rolled back).
CommandFails(t) ==
    /\ MayFail
    /\ Free(t) /\ Goto(t, "command", "handler")
    /\ UNCHANGED <<backend, db, flags, lock, locals, torn>>

\* _handle_storage_exception: raise when the flag is set now, or return
\* nothing, an empty list or False as if all were well.
Handle(t) ==
    /\ Return(t, "handler", IF raise_on_error[Of(t)] THEN "idle" ELSE "silent")
    /\ UNCHANGED <<backend, db, flags, lock, torn>>

----------------------------------------------------------------------------
\* The back end drops an entry whose time has come.
Expire(e) ==
    /\ db[e] = "expiring"
    /\ db' = [db EXCEPT ![e] = "absent"]
    /\ UNCHANGED <<backend, flags, lock, pc, locals, torn>>

Verifying(t) == SaveFlag(t) \/ SetFlag(t) \/ Look(t) \/ Inner(t) \/ RestoreFlag(t)
                \/ Verifier(t)
Commanding(t) == \/ Read(t) \/ Write(t) \/ RedisSet(t) \/ RedisExpire(t)
                 \/ RedisExpireFails(t) \/ Remove(t) \/ RemoveAll(t) \/ RedisScan(t)
                 \/ RedisDrain(t) \/ RedisDrained(t) \/ RedisDrainFails(t)
                 \/ CommandFails(t)
Running(t) == Verifying(t) \/ Commanding(t) \/ Handle(t)

Next == \/ \E t \in Threads : \/ Running(t)
                              \/ \E m \in Methods, s \in Storages, k \in Keys :
                                    Call(t, m, s, k)
        \/ \E e \in Entries : Expire(e)

Spec == Init /\ [][Next]_vars

\* Threads are scheduled and the back end answers or fails; who gets a lock
\* next is left open.
FairSpec == Spec /\ \A t \in Threads : WF_vars(Running(t))

----------------------------------------------------------------------------
(* Properties *)

TypeOK ==
    /\ backend \in Backends
    /\ db \in [Entries -> {"absent", "kept", "expiring"}]
    /\ configured \in [Storages -> BOOLEAN] /\ raise_on_error \in [Storages -> BOOLEAN]
    /\ lock \in [Storages -> Threads \cup {NoThread}]
    /\ pc \in [Threads -> PCs]
    /\ call \in [Threads -> [method : Methods, storage : Storages, key : Keys]]
    /\ original_value \in [Threads -> BOOLEAN]
    /\ found \in [Threads -> {"yes", "no", "unknown"}] /\ failed \in [Threads -> BOOLEAN]
    /\ todo \in [Threads -> SUBSET Entries]
    /\ overlapped \subseteq Storages /\ torn \subseteq Entries

\* A storage built with raise_on_error=True never swallows a failure, whatever
\* other threads do to the flag they share: a call that returns has read,
\* written or deleted what it was asked to.
DoneWhenReturned ==
    [][\A t \in Threads :
          (pc[t] \notin Rest /\ pc'[t] = "silent") => ~configured[Of(t)]]_vars

\* with_raise_on_error() is temporary as long as no two of its blocks overlap
\* on a storage, whichever commands fail inside (with the types).
FlagRestored ==
    TypeOK /\ \A s \in Storages :
        s \notin overlapped /\ InBlock(s) = {} => raise_on_error[s] = configured[s]

\* When the storages of a namespace agree on the ttl, an entry stays without
\* expiry only while its update is between SET and EXPIRE or when EXPIRE failed,
\* and no entry expires that was not meant to.
ExpiryKept ==
    \A s \in Storages : \A k \in Keys :
        LET e == <<Place(s), k>>
        IN  (\A r \in Storages : Place(r) = Place(s) => TTL[r] = TTL[s]) =>
            /\ Expires(s) /\ db[e] = "kept"
                  => e \in torn \/ \E t \in Threads : pc[t] = "expire" /\ Entry(t) = e
            /\ ~Expires(s) => db[e] # "expiring"

\* Only delete_all of MongoDB, and of SQL where namespaces begin alike, reaches
\* entries outside the namespace of the storage it is called on.
OnlyOwnNamespace ==
    [][\A e \in Entries :
          db'[e] # db[e] =>
             \/ db[e] = "expiring" /\ db'[e] = "absent" /\ UNCHANGED pc
             \/ \E t \in Threads :
                   /\ pc[t] \in {"command", "expire", "drain"}
                   /\ \/ Place(Of(t)) = e[1]
                      \/ call[t].method = "delete_all" /\ backend = "mongo"
                      \/ /\ call[t].method = "delete_all" /\ backend = "sql"
                         /\ <<Place(Of(t)), e[1]>> \in Longer]_vars

\* Nobody keeps the lock of a storage.
LockReleased ==
    \A s \in Storages : \A t \in Threads : (lock[s] = t) ~> (lock[s] # t)
=============================================================================
