--------------------------- MODULE StorageProofs ---------------------------
(***************************************************************************)
(* Proofs about Storage, for any threads, storages, namespaces and keys.   *)
(* FlagInv carries the flag: while no two blocks of with_raise_on_error    *)
(* overlap on a storage its one block holds the configured value           *)
(* (Temporary), and where the flag was given it stays up however they do   *)
(* (StaysUp).  EntryInv carries the entries: ExpiryKept, and where Redis   *)
(* is between two commands of one method (Between).                        *)
(***************************************************************************)
EXTENDS Storage, TLAPS

\* The call that stands for "none" is a call.
LEMMA NoCallIsACall == NoCall \in [method : Methods, storage : Storages, key : Keys]
<1>1. PICK s \in Storages, k \in Keys : TRUE
  BY StorageAssumption
<1>2. [method |-> "retrieve", storage |-> s, key |-> k]
         \in [method : {"retrieve"}, storage : Storages, key : Keys]
  OBVIOUS
<1>3. NoCall \in [method : {"retrieve"}, storage : Storages, key : Keys]
  BY <1>2 DEF NoCall
<1> QED
  BY <1>3 DEF Methods

\* An entry a call is about is one of the back end's.
LEMMA EntryIsAnEntry ==
    ASSUME TypeOK, NEW t \in Threads
    PROVE  Of(t) \in Storages /\ Place(Of(t)) \in Spaces \cup Storages /\ Entry(t) \in Entries
<1>1. Of(t) \in Storages /\ call[t].key \in Keys
  BY DEF TypeOK, Of
<1>2. Space[Of(t)] \in Spaces
  BY <1>1 DEF Spaces
<1> QED
  BY <1>1, <1>2 DEF Place, Entry, Entries, Of

LEMMA InitTypeOK == Init => TypeOK
<1> SUFFICES ASSUME Init PROVE TypeOK
  OBVIOUS
<1>1. configured \in [Storages -> BOOLEAN]
  BY StorageAssumption DEF Init
<1> QED
  BY <1>1, NoCallIsACall DEF Init, TypeOK, PCs, Rest

\* What the end of a call leaves is well typed.
LEMMA ReturnTypes ==
    ASSUME TypeOK, NEW t \in Threads, NEW from, NEW how \in Rest, Return(t, from, how)
    PROVE  /\ pc' \in [Threads -> PCs]
           /\ call' \in [Threads -> [method : Methods, storage : Storages, key : Keys]]
           /\ original_value' \in [Threads -> BOOLEAN]
           /\ found' \in [Threads -> {"yes", "no", "unknown"}]
           /\ failed' \in [Threads -> BOOLEAN]
           /\ todo' \in [Threads -> SUBSET Entries]
<1>1. pc' \in [Threads -> PCs]
  BY DEF TypeOK, Return, Goto, PCs
<1>2. call' \in [Threads -> [method : Methods, storage : Storages, key : Keys]]
  BY NoCallIsACall DEF TypeOK, Return
<1> QED
  BY <1>1, <1>2 DEF TypeOK, Return

LEMMA VerifyingTypes ==
    ASSUME TypeOK, NEW t \in Threads, Verifying(t)
    PROVE  TypeOK'
<1> Of(t) \in Storages
  BY EntryIsAnEntry
<1>1. CASE SaveFlag(t)
  BY <1>1 DEF TypeOK, SaveFlag, Goto, PCs
<1>2. CASE SetFlag(t)
  BY <1>2 DEF TypeOK, SetFlag, Goto, PCs, locals
<1>3. CASE Look(t)
  BY <1>3 DEF TypeOK, Look, Goto, PCs, flags
<1>4. CASE Inner(t)
  BY <1>4 DEF TypeOK, Inner, Goto, PCs, flags
<1>5. CASE RestoreFlag(t)
  <2>1. raise_on_error' \in [Storages -> BOOLEAN]
    BY <1>5 DEF TypeOK, RestoreFlag
  <2>2. CASE failed[t] /\ Goto(t, "restore", Raised(t)) /\ UNCHANGED locals
    BY <1>5, <2>1, <2>2 DEF TypeOK, RestoreFlag, Goto, Raised, PCs, locals
  <2>3. CASE ~failed[t] /\ GoesOn(t) /\ Goto(t, "restore", "command") /\ UNCHANGED locals
    BY <1>5, <2>1, <2>3 DEF TypeOK, RestoreFlag, Goto, PCs, locals
  <2>4. CASE Return(t, "restore", IF found[t] = "unknown" THEN "silent" ELSE "idle")
    <3>1. (IF found[t] = "unknown" THEN "silent" ELSE "idle") \in Rest
      BY DEF Rest
    <3> QED
      BY <1>5, <2>1, <2>4, <3>1, ReturnTypes DEF TypeOK, RestoreFlag
  <2> QED
    BY <1>5, <2>2, <2>3, <2>4 DEF RestoreFlag
<1>6. CASE Verifier(t)
  BY <1>6 DEF TypeOK, Verifier, Goto, PCs, flags, locals
<1> QED
  BY <1>1, <1>2, <1>3, <1>4, <1>5, <1>6 DEF Verifying

LEMMA CommandingTypes ==
    ASSUME TypeOK, NEW t \in Threads, Commanding(t)
    PROVE  TypeOK'
<1> /\ Of(t) \in Storages /\ Place(Of(t)) \in Spaces \cup Storages /\ Entry(t) \in Entries
    /\ "idle" \in Rest
  BY EntryIsAnEntry DEF Rest
<1>1. CASE Read(t)
  BY <1>1, ReturnTypes DEF TypeOK, Read, flags
<1>2. CASE Write(t)
  <2>1. Return(t, "command", "idle") /\ torn' \subseteq Entries
    BY <1>2 DEF Write, TypeOK
  <2>2. db' \in [Entries -> {"absent", "kept", "expiring"}]
    BY <1>2 DEF TypeOK, Write
  <2> QED
    BY <1>2, <2>1, <2>2, ReturnTypes DEF TypeOK, Write, flags
<1>3. CASE RedisSet(t)
  <2>1. /\ db' \in [Entries -> {"absent", "kept", "expiring"}] /\ torn' \subseteq Entries
        /\ lock' \in [Storages -> Threads \cup {NoThread}]
    BY <1>3 DEF TypeOK, RedisSet
  <2>2. CASE Goto(t, "command", "expire") /\ UNCHANGED locals
    BY <1>3, <2>1, <2>2 DEF TypeOK, RedisSet, Goto, PCs, flags, locals
  <2>3. CASE Return(t, "command", "idle")
    BY <1>3, <2>1, <2>3, ReturnTypes DEF TypeOK, RedisSet, flags
  <2> QED
    BY <1>3, <2>2, <2>3 DEF RedisSet
<1>4. CASE RedisExpire(t)
  <2>1. /\ db' \in [Entries -> {"absent", "kept", "expiring"}] /\ torn' \subseteq Entries
        /\ lock' \in [Storages -> Threads \cup {NoThread}]
    BY <1>4 DEF TypeOK, RedisExpire
  <2> QED
    BY <1>4, <2>1, ReturnTypes DEF TypeOK, RedisExpire, flags
<1>5. CASE RedisExpireFails(t)
  BY <1>5 DEF TypeOK, RedisExpireFails, Goto, PCs, flags, locals
<1>6. CASE Remove(t)
  <2>1. db' \in [Entries -> {"absent", "kept", "expiring"}] /\ torn' \subseteq Entries
    BY <1>6 DEF TypeOK, Remove
  <2> QED
    BY <1>6, <2>1, ReturnTypes DEF TypeOK, Remove, flags
<1>7. CASE RemoveAll(t)
  <2>1. db' \in [Entries -> {"absent", "kept", "expiring"}] /\ torn' \subseteq Entries
    BY <1>7 DEF TypeOK, RemoveAll
  <2> QED
    BY <1>7, <2>1, ReturnTypes DEF TypeOK, RemoveAll, flags
<1>8. CASE RedisScan(t)
  BY <1>8 DEF TypeOK, RedisScan, Goto, PCs, flags
<1>9. CASE RedisDrain(t)
  BY <1>9 DEF TypeOK, RedisDrain, flags
<1>10. CASE RedisDrained(t)
  <2>1. lock' \in [Storages -> Threads \cup {NoThread}]
    BY <1>10 DEF TypeOK, RedisDrained
  <2> QED
    BY <1>10, <2>1, ReturnTypes DEF TypeOK, RedisDrained, flags
<1>11. CASE RedisDrainFails(t)
  BY <1>11 DEF TypeOK, RedisDrainFails, Goto, PCs, flags, locals
<1>12. CASE CommandFails(t)
  BY <1>12 DEF TypeOK, CommandFails, Goto, PCs, flags, locals
<1> QED
  BY <1>1, <1>2, <1>3, <1>4, <1>5, <1>6, <1>7, <1>8, <1>9, <1>10, <1>11, <1>12
     DEF Commanding

LEMMA NextTypeOK == TypeOK /\ [Next]_vars => TypeOK'
<1> SUFFICES ASSUME TypeOK, [Next]_vars PROVE TypeOK'
  OBVIOUS
<1>1. ASSUME NEW t \in Threads, Running(t) PROVE TypeOK'
  <2>1. CASE Handle(t)
    <3>1. (IF raise_on_error[Of(t)] THEN "idle" ELSE "silent") \in Rest
      BY DEF Rest
    <3> QED
      BY <2>1, <3>1, ReturnTypes DEF TypeOK, Handle, flags
  <2> QED
    BY <1>1, <2>1, VerifyingTypes, CommandingTypes DEF Running
<1>2. ASSUME NEW t \in Threads, NEW m \in Methods, NEW s \in Storages, NEW k \in Keys,
             Call(t, m, s, k)
      PROVE  TypeOK'
  BY <1>2 DEF TypeOK, Call, PCs, flags
<1>3. ASSUME NEW e \in Entries, Expire(e) PROVE TypeOK'
  BY <1>3 DEF TypeOK, Expire, flags, locals
<1>4. CASE UNCHANGED vars
  BY <1>4 DEF TypeOK, vars, flags, locals
<1> QED
  BY <1>1, <1>2, <1>3, <1>4 DEF Next

\* The storages' variables keep their types.
THEOREM TypeCorrect == Spec => []TypeOK
<1> QED
  BY InitTypeOK, NextTypeOK, PTL DEF Spec

----------------------------------------------------------------------------
(* The flag *)

Block == {"set", "look", "inner", "restore"}

\* While no two blocks overlap on a storage, its one block holds the configured
\* value, and the attribute has it until the block sets it.
Temporary ==
    \A s \in Storages \ overlapped :
        /\ \A t, u \in InBlock(s) : t = u
        /\ \A t \in InBlock(s) : original_value[t] = configured[s]
        /\ (\A t \in InBlock(s) : pc[t] = "set") => raise_on_error[s] = configured[s]

\* Where the flag was given, it is up and every block will leave it up, however
\* the blocks overlap, and a verification that ends unknown ends in a failure.
StaysUp ==
    \A s \in Storages :
        configured[s] =>
            /\ raise_on_error[s]
            /\ \A t \in InBlock(s) : original_value[t]
            /\ \A t \in Threads :
                  (Of(t) = s /\ pc[t] = "restore" /\ found[t] = "unknown") => failed[t]

FlagInv == TypeOK /\ Temporary /\ StaysUp

\* A step of t before or after its block, seen from the flag.
Outside(t) ==
    /\ UNCHANGED flags
    /\ pc[t] \notin Block /\ pc'[t] \notin Block
    /\ \A u \in Threads \ {t} :
          /\ pc'[u] = pc[u] /\ call'[u] = call[u] /\ original_value'[u] = original_value[u]
          /\ found'[u] = found[u] /\ failed'[u] = failed[u]

LEMMA InitFlagInv == Init => FlagInv
<1> SUFFICES ASSUME Init PROVE FlagInv
  OBVIOUS
<1>1. \A s \in Storages : InBlock(s) = {}
  BY DEF Init, InBlock
<1>2. \A t \in Threads : pc[t] = "idle"
  BY DEF Init
<1>3. Temporary
  BY <1>1 DEF Init, Temporary
<1>4. StaysUp
  BY <1>1, <1>2 DEF Init, StaysUp
<1> QED
  BY <1>3, <1>4, InitTypeOK DEF FlagInv

\* What the others do before and after their blocks leaves the flag alone.
LEMMA OutsideKeeps ==
    ASSUME FlagInv, NEW t \in Threads, Outside(t)
    PROVE  Temporary' /\ StaysUp'
<1>1. \A s \in Storages : InBlock(s)' = InBlock(s)
  BY DEF Outside, InBlock, Block, Of
<1>2. \A s \in Storages : \A u \in InBlock(s) : u \in Threads \ {t}
  BY DEF Outside, InBlock, Block
<1>3. \A s \in Storages : \A u \in InBlock(s) :
         pc'[u] = pc[u] /\ original_value'[u] = original_value[u]
  BY <1>2 DEF Outside
<1>4. Temporary'
  BY <1>1, <1>3 DEF FlagInv, Temporary, Outside, flags
<1>5. \A u \in Threads : pc'[u] = "restore" =>
         pc[u] = "restore" /\ Of(u)' = Of(u) /\ found'[u] = found[u] /\ failed'[u] = failed[u]
  BY DEF Outside, Block, Of
<1>6. StaysUp'
  BY <1>1, <1>3, <1>5 DEF FlagInv, StaysUp, Outside, flags
<1> QED
  BY <1>4, <1>6

\* The end of a call outside a block.
LEMMA ReturnOutside ==
    ASSUME TypeOK, NEW t \in Threads, NEW from, NEW how \in Rest, Return(t, from, how),
           from \notin Block, UNCHANGED flags
    PROVE  Outside(t)
  BY DEF TypeOK, Return, Goto, Outside, Rest, Block

\* A step outside a block that goes on with the call.
LEMMA GotoOutside ==
    ASSUME TypeOK, NEW t \in Threads, NEW from, NEW to \in PCs, Goto(t, from, to),
           from \notin Block, to \notin Block,
           UNCHANGED <<flags, call, original_value, found, failed>>
    PROVE  Outside(t)
  BY DEF TypeOK, Goto, Outside

LEMMA CommandingOutside ==
    ASSUME TypeOK, NEW t \in Threads, Commanding(t)
    PROVE  Outside(t)
<1> /\ "idle" \in Rest
    /\ {"command", "expire", "drain", "handler"} \subseteq PCs
    /\ {"command", "expire", "drain", "handler"} \cap Block = {}
  BY DEF Rest, PCs, Block
<1>1. CASE Read(t)
  BY <1>1, ReturnOutside DEF Read
<1>2. CASE Write(t)
  BY <1>2, ReturnOutside DEF Write
<1>3. CASE RedisSet(t)
  <2>1. CASE Goto(t, "command", "expire") /\ UNCHANGED locals
    BY <1>3, <2>1, GotoOutside DEF RedisSet, locals
  <2>2. CASE Return(t, "command", "idle")
    BY <1>3, <2>2, ReturnOutside DEF RedisSet
  <2> QED
    BY <1>3, <2>1, <2>2 DEF RedisSet
<1>4. CASE RedisExpire(t)
  BY <1>4, ReturnOutside DEF RedisExpire
<1>5. CASE RedisExpireFails(t)
  BY <1>5, GotoOutside DEF RedisExpireFails, locals
<1>6. CASE Remove(t)
  BY <1>6, ReturnOutside DEF Remove
<1>7. CASE RemoveAll(t)
  BY <1>7, ReturnOutside DEF RemoveAll
<1>8. CASE RedisScan(t)
  BY <1>8, GotoOutside DEF RedisScan
<1>9. CASE RedisDrain(t)
  BY <1>9 DEF RedisDrain, Outside, flags, Block
<1>10. CASE RedisDrained(t)
  BY <1>10, ReturnOutside DEF RedisDrained
<1>11. CASE RedisDrainFails(t)
  BY <1>11, GotoOutside DEF RedisDrainFails, locals
<1>12. CASE CommandFails(t)
  BY <1>12, GotoOutside DEF CommandFails, locals
<1> QED
  BY <1>1, <1>2, <1>3, <1>4, <1>5, <1>6, <1>7, <1>8, <1>9, <1>10, <1>11, <1>12
     DEF Commanding

\* A step inside a block, seen from the flag: t stays in its block and leaves
\* what the block saved.
Inside(t) ==
    /\ UNCHANGED <<configured, overlapped, call, original_value>>
    /\ pc[t] \in Block /\ pc'[t] \in Block \ {"set"}
    /\ \A u \in Threads \ {t} :
          pc'[u] = pc[u] /\ found'[u] = found[u] /\ failed'[u] = failed[u]
    /\ \A s \in Storages \ {Of(t)} : raise_on_error'[s] = raise_on_error[s]

LEMMA InsideKeeps ==
    ASSUME FlagInv, NEW t \in Threads, Inside(t),
           configured[Of(t)] =>
              /\ raise_on_error'[Of(t)]
              /\ (pc'[t] = "restore" /\ found'[t] = "unknown") => failed'[t]
    PROVE  Temporary' /\ StaysUp'
<1>1. \A s \in Storages : InBlock(s)' = InBlock(s)
  BY DEF Inside, InBlock, Block, Of
<1>2. \A u \in Threads : Of(u)' = Of(u)
  BY DEF Inside, Of
<1>3. ASSUME NEW s \in Storages \ overlapped',
             \A u \in InBlock(s)' : pc'[u] = "set"
      PROVE  raise_on_error'[s] = configured'[s]
  <2>1. s # Of(t)
    BY <1>1, <1>3 DEF Inside, InBlock, Block
  <2>2. \A u \in InBlock(s) : pc[u] = "set"
    BY <1>1, <1>3, <2>1 DEF Inside, InBlock
  <2> QED
    BY <2>1, <2>2 DEF FlagInv, Temporary, Inside
<1>4. Temporary'
  BY <1>1, <1>3 DEF FlagInv, Temporary, Inside
<1>5. ASSUME NEW s \in Storages, configured'[s]
      PROVE  raise_on_error'[s]
  BY <1>5 DEF FlagInv, StaysUp, Inside
<1>6. ASSUME NEW s \in Storages, configured'[s], NEW u \in Threads,
             Of(u)' = s, pc'[u] = "restore", found'[u] = "unknown"
      PROVE  failed'[u]
  BY <1>2, <1>6 DEF FlagInv, StaysUp, Inside
<1>7. StaysUp'
  BY <1>1, <1>5, <1>6 DEF FlagInv, StaysUp, Inside
<1> QED
  BY <1>4, <1>7

LEMMA SavingKeeps ==
    ASSUME FlagInv, NEW t \in Threads, SaveFlag(t)
    PROVE  Temporary' /\ StaysUp'
<1> DEFINE s == Of(t)
<1>1. s \in Storages
  BY EntryIsAnEntry DEF FlagInv
<1>2. /\ pc[t] = "save" /\ pc' = [pc EXCEPT ![t] = "set"] /\ pc \in [Threads -> PCs]
      /\ original_value' = [original_value EXCEPT ![t] = raise_on_error[s]]
      /\ original_value \in [Threads -> BOOLEAN]
      /\ UNCHANGED <<configured, raise_on_error, call, found, failed>>
  BY DEF SaveFlag, Goto, FlagInv, TypeOK
<1>3. \A u \in Threads : Of(u)' = Of(u)
  BY <1>2 DEF Of
<1>4. \A r \in Storages : InBlock(r)' = IF r = s THEN InBlock(r) \cup {t} ELSE InBlock(r)
  BY <1>2, <1>3 DEF InBlock
<1>5. \A r \in Storages : t \notin InBlock(r)
  BY <1>2 DEF InBlock
<1>6. overlapped' = IF InBlock(s) = {} THEN overlapped ELSE overlapped \cup {s}
  BY DEF SaveFlag
<1>7. \A r \in Storages : \A u \in InBlock(r) :
         u \in Threads \ {t} /\ pc'[u] = pc[u] /\ original_value'[u] = original_value[u]
  BY <1>2, <1>5 DEF InBlock
<1>8. ASSUME NEW r \in Storages \ overlapped'
      PROVE  /\ \A v, u \in InBlock(r)' : v = u
             /\ \A u \in InBlock(r)' : original_value'[u] = configured'[r]
             /\ (\A u \in InBlock(r)' : pc'[u] = "set") => raise_on_error'[r] = configured'[r]
  <2>1. CASE r = s
    <3>1. InBlock(s) = {} /\ s \notin overlapped
      BY <1>6, <1>8, <2>1
    <3>2. InBlock(r)' = {t}
      BY <1>1, <1>4, <2>1, <3>1
    <3>3. raise_on_error[s] = configured[s]
      BY <1>1, <3>1 DEF FlagInv, Temporary
    <3>4. original_value'[t] = raise_on_error[s]
      BY <1>2
    <3> QED
      BY <1>2, <2>1, <3>2, <3>3, <3>4
  <2>2. CASE r # s
    <3>1. InBlock(r)' = InBlock(r) /\ r \notin overlapped
      BY <1>4, <1>6, <1>8, <2>2
    <3> QED
      BY <1>2, <1>7, <3>1 DEF FlagInv, Temporary
  <2> QED
    BY <2>1, <2>2
<1>9. Temporary'
  BY <1>8 DEF Temporary
<1>10. ASSUME NEW r \in Storages, configured'[r], NEW u \in InBlock(r)'
       PROVE  original_value'[u]
  <2>1. CASE u = t
    <3>1. r = s
      BY <1>4, <1>5, <1>10, <2>1
    <3> QED
      BY <1>1, <1>2, <1>10, <2>1, <3>1 DEF FlagInv, StaysUp
  <2>2. CASE u # t
    BY <1>2, <1>4, <1>7, <1>10, <2>2 DEF FlagInv, StaysUp
  <2> QED
    BY <2>1, <2>2
<1>11. \A u \in Threads : pc'[u] = "restore" => pc[u] = "restore"
  BY <1>2
<1>12. StaysUp'
  BY <1>2, <1>3, <1>10, <1>11 DEF FlagInv, StaysUp
<1> QED
  BY <1>9, <1>12

\* What a thread is left with after its block is over.
LEMMA RestoringLeaves ==
    ASSUME TypeOK, NEW t \in Threads, RestoreFlag(t)
    PROVE  /\ pc[t] = "restore" /\ pc'[t] \notin Block
           /\ pc'[t] = "silent" => ~failed[t] /\ found[t] = "unknown"
           /\ \A u \in Threads \ {t} :
                 /\ pc'[u] = pc[u] /\ call'[u] = call[u]
                 /\ original_value'[u] = original_value[u]
                 /\ found'[u] = found[u] /\ failed'[u] = failed[u]
<1>1. CASE failed[t] /\ Goto(t, "restore", Raised(t)) /\ UNCHANGED locals
  BY <1>1 DEF TypeOK, Goto, Raised, locals, Block
<1>2. CASE ~failed[t] /\ GoesOn(t) /\ Goto(t, "restore", "command") /\ UNCHANGED locals
  BY <1>2 DEF TypeOK, Goto, locals, Block
<1>3. CASE /\ ~failed[t]
           /\ Return(t, "restore", IF found[t] = "unknown" THEN "silent" ELSE "idle")
  BY <1>3 DEF TypeOK, Return, Goto, Block
<1> QED
  BY <1>1, <1>2, <1>3 DEF RestoreFlag

LEMMA RestoringKeeps ==
    ASSUME FlagInv, NEW t \in Threads, RestoreFlag(t)
    PROVE  Temporary' /\ StaysUp'
<1> DEFINE s == Of(t)
<1>1. s \in Storages
  BY EntryIsAnEntry DEF FlagInv
<1>2. /\ pc[t] = "restore" /\ pc'[t] \notin Block
      /\ \A u \in Threads \ {t} :
            /\ pc'[u] = pc[u] /\ call'[u] = call[u] /\ original_value'[u] = original_value[u]
            /\ found'[u] = found[u] /\ failed'[u] = failed[u]
  BY RestoringLeaves DEF FlagInv
<1>3. /\ raise_on_error' = [raise_on_error EXCEPT ![s] = original_value[t]]
      /\ raise_on_error \in [Storages -> BOOLEAN]
      /\ UNCHANGED <<configured, overlapped>>
  BY DEF RestoreFlag, FlagInv, TypeOK
<1>4. t \in InBlock(s)
  BY <1>2 DEF InBlock
<1>5. \A r \in Storages : InBlock(r)' = InBlock(r) \ {t}
  BY <1>2 DEF InBlock, Of, Block
<1>6. \A r \in Storages : \A u \in InBlock(r)' :
         u \in Threads \ {t} /\ pc'[u] = pc[u] /\ original_value'[u] = original_value[u]
  BY <1>2, <1>5 DEF InBlock
<1>7. ASSUME NEW r \in Storages \ overlapped',
             \A u \in InBlock(r)' : pc'[u] = "set"
      PROVE  raise_on_error'[r] = configured'[r]
  <2>1. CASE r = s
    BY <1>1, <1>3, <1>4, <1>7, <2>1 DEF FlagInv, Temporary
  <2>2. CASE r # s
    <3>1. t \notin InBlock(r)
      BY <2>2 DEF InBlock
    <3>2. \A u \in InBlock(r) : pc[u] = "set"
      BY <1>5, <1>6, <1>7, <3>1
    <3> QED
      BY <1>3, <1>7, <2>2, <3>2 DEF FlagInv, Temporary
  <2> QED
    BY <2>1, <2>2
<1>8. Temporary'
  BY <1>3, <1>5, <1>6, <1>7 DEF FlagInv, Temporary
<1>9. ASSUME NEW r \in Storages, configured'[r]
      PROVE  raise_on_error'[r]
  BY <1>1, <1>3, <1>4, <1>9 DEF FlagInv, StaysUp
<1>10. \A u \in Threads : pc'[u] = "restore" =>
          u # t /\ pc[u] = "restore" /\ Of(u)' = Of(u)
          /\ found'[u] = found[u] /\ failed'[u] = failed[u]
  BY <1>2 DEF Block, Of
<1>11. StaysUp'
  BY <1>3, <1>5, <1>6, <1>9, <1>10 DEF FlagInv, StaysUp
<1> QED
  BY <1>8, <1>11

LEMMA NextFlagInv == FlagInv /\ [Next]_vars => FlagInv'
<1> SUFFICES ASSUME FlagInv, [Next]_vars PROVE Temporary' /\ StaysUp'
  BY NextTypeOK DEF FlagInv
<1>types. TypeOK /\ StaysUp
  BY DEF FlagInv
<1>1. ASSUME NEW t \in Threads, Running(t) PROVE Temporary' /\ StaysUp'
  <2> Of(t) \in Storages
    BY <1>types, EntryIsAnEntry
  <2>1. CASE SetFlag(t)
    <3>1. Inside(t)
      BY <2>1, <1>types DEF SetFlag, Goto, Inside, Block, locals, TypeOK
    <3>2. raise_on_error'[Of(t)] /\ pc'[t] # "restore"
      BY <2>1, <1>types DEF SetFlag, Goto, TypeOK
    <3> QED
      BY <3>1, <3>2, InsideKeeps
  <2>2. CASE Look(t)
    <3>1. Inside(t)
      BY <2>2, <1>types DEF Look, Goto, Inside, Block, flags, TypeOK
    <3>2. pc'[t] = "restore" => found'[t] # "unknown"
      BY <2>2, <1>types DEF Look, Goto, TypeOK
    <3>3. configured[Of(t)] => raise_on_error'[Of(t)]
      BY <2>2, <1>types DEF Look, flags, StaysUp
    <3> QED
      BY <3>1, <3>2, <3>3, InsideKeeps
  <2>3. CASE Inner(t)
    <3>1. Inside(t)
      BY <2>3, <1>types DEF Inner, Goto, Inside, Block, flags, TypeOK
    <3>2. configured[Of(t)] => raise_on_error'[Of(t)] /\ failed'[t]
      BY <2>3, <1>types DEF Inner, flags, StaysUp, TypeOK
    <3> QED
      BY <3>1, <3>2, InsideKeeps
  <2>4. CASE Verifier(t)
    <3>1. (IF raise_on_error[Of(t)] THEN "handler" ELSE "command") \in PCs \ Block
      BY DEF PCs, Block
    <3>2. Outside(t)
      BY <2>4, <3>1, <1>types, GotoOutside DEF Verifier, locals, Block
    <3> QED
      BY <3>2, OutsideKeeps
  <2>5. CASE Handle(t)
    <3>1. (IF raise_on_error[Of(t)] THEN "idle" ELSE "silent") \in Rest
      BY DEF Rest
    <3>2. Outside(t)
      BY <2>5, <3>1, <1>types, ReturnOutside DEF Handle, Block
    <3> QED
      BY <3>2, OutsideKeeps
  <2>6. CASE Commanding(t)
    BY <2>6, <1>types, CommandingOutside, OutsideKeeps
  <2> QED
    BY <1>1, <2>1, <2>2, <2>3, <2>4, <2>5, <2>6, SavingKeeps, RestoringKeeps
       DEF Running, Verifying
<1>2. ASSUME NEW t \in Threads, NEW m \in Methods, NEW s \in Storages, NEW k \in Keys,
             Call(t, m, s, k)
      PROVE  Temporary' /\ StaysUp'
  <2>1. Outside(t)
    BY <1>2, <1>types DEF Call, Outside, Block, Rest, TypeOK
  <2> QED
    BY <2>1, OutsideKeeps
<1>3. CASE UNCHANGED <<flags, pc, locals>>
  <2>1. \A s \in Storages : InBlock(s)' = InBlock(s)
    BY <1>3 DEF InBlock, Of, locals
  <2>2. Temporary'
    BY <1>3, <2>1 DEF FlagInv, Temporary, flags, locals
  <2>3. StaysUp'
    BY <1>3, <2>1 DEF FlagInv, StaysUp, flags, locals, Of
  <2> QED
    BY <2>2, <2>3
<1> QED
  BY <1>1, <1>2, <1>3 DEF Next, Expire, vars

LEMMA FlagInvariant == Spec => []FlagInv
<1> QED
  BY InitFlagInv, NextFlagInv, PTL DEF Spec

\* with_raise_on_error() gives the flag back, whichever commands fail inside, for
\* any number of threads, as long as no two of its blocks overlap on a storage.
THEOREM FlagIsRestored == Spec => []FlagRestored
<1>1. FlagInv => FlagRestored
  <2> SUFFICES ASSUME FlagInv, NEW s \in Storages, s \notin overlapped, InBlock(s) = {}
               PROVE  raise_on_error[s] = configured[s]
    BY DEF FlagInv, FlagRestored
  <2> QED
    BY DEF FlagInv, Temporary
<1> QED
  BY <1>1, FlagInvariant, PTL

LEMMA StepDone ==
    FlagInv /\ [Next]_vars =>
       [\A t \in Threads : (pc[t] \notin Rest /\ pc'[t] = "silent") => ~configured[Of(t)]]_vars
<1> SUFFICES ASSUME FlagInv, Next, NEW t \in Threads, pc[t] \notin Rest, pc'[t] = "silent"
             PROVE  ~configured[Of(t)]
  OBVIOUS
<1>types. TypeOK /\ StaysUp
  BY DEF FlagInv
<1>1. Of(t) \in Storages
  BY <1>types, EntryIsAnEntry
<1>2. ASSUME NEW u \in Threads, Running(u) PROVE ~configured[Of(t)]
  <2>1. CASE RestoreFlag(u)
    <3>1. pc[t] = "restore" /\ ~failed[t] /\ found[t] = "unknown"
      BY <2>1, <1>types, RestoringLeaves DEF Rest
    <3> QED
      BY <1>1, <3>1, <1>types DEF StaysUp
  <2>2. CASE Handle(u)
    <3>1. ~raise_on_error[Of(t)]
      BY <2>2, <1>types DEF Handle, Return, Goto, TypeOK, Rest
    <3> QED
      BY <1>1, <3>1, <1>types DEF StaysUp
  <2>3. CASE SaveFlag(u) \/ SetFlag(u) \/ Look(u) \/ Inner(u) \/ Verifier(u)
    BY <2>3, <1>types DEF SaveFlag, SetFlag, Look, Inner, Verifier, Goto, TypeOK, Rest
  <2>4. CASE Commanding(u)
    BY <2>4, <1>types
       DEF Commanding, Read, Write, RedisSet, RedisExpire, RedisExpireFails, Remove, RemoveAll,
           RedisScan, RedisDrain, RedisDrained, RedisDrainFails, CommandFails, Return, Goto,
           TypeOK, Rest
  <2> QED
    BY <1>2, <2>1, <2>2, <2>3, <2>4 DEF Running, Verifying
<1>3. ASSUME NEW u \in Threads, NEW m \in Methods, NEW s \in Storages, NEW k \in Keys,
             Call(u, m, s, k)
      PROVE  ~configured[Of(t)]
  BY <1>3, <1>types DEF Call, TypeOK, Rest
<1>4. ASSUME NEW e \in Entries, Expire(e) PROVE ~configured[Of(t)]
  BY <1>4 DEF Expire, Rest
<1> QED
  BY <1>2, <1>3, <1>4 DEF Next

\* A storage built with raise_on_error=True swallows no failure, whatever other
\* threads do to the flag: a call that returns has done what it was made for.
THEOREM NoFailureIsSwallowed == Spec => DoneWhenReturned
<1> QED
  BY FlagInvariant, StepDone, PTL DEF Spec, DoneWhenReturned

----------------------------------------------------------------------------
(* The entries *)

\* Where Redis is between two commands of one method: an expiry follows where a
\* ttl was given, and what a delete_all has listed is of its own namespace.
Between ==
    \A t \in Threads :
        /\ pc[t] = "expire" => backend = "redis" /\ Expires(Of(t))
        /\ pc[t] = "drain" => /\ backend = "redis"
                              /\ \A e \in todo[t] : e[1] = Place(Of(t))

EntryInv == TypeOK /\ Between /\ ExpiryKept

LEMMA InitEntryInv == Init => EntryInv
<1> SUFFICES ASSUME Init PROVE EntryInv
  OBVIOUS
<1>1. TypeOK
  BY InitTypeOK
<1>2. Between
  BY DEF Init, Between
<1>3. \A s \in Storages, k \in Keys : <<Place(s), k>> \in Entries
  BY DEF Place, Entries, Spaces
<1>4. \A e \in Entries : db[e] = "absent"
  BY DEF Init
<1>5. ExpiryKept
  BY <1>3, <1>4 DEF ExpiryKept
<1> QED
  BY <1>1, <1>2, <1>5 DEF EntryInv

\* A call concerns the thread that runs it, and Redis' two-command methods are
\* entered by their first command.
LEMMA StepOfOne ==
    ASSUME TypeOK, NEW t \in Threads, Running(t)
    PROVE  /\ backend' = backend
           /\ \A u \in Threads \ {t} : pc'[u] = pc[u] /\ call'[u] = call[u] /\ todo'[u] = todo[u]
           /\ pc'[t] = "expire" => RedisSet(t)
           /\ pc'[t] = "drain" => RedisScan(t) \/ RedisDrain(t)
<1>1. CASE SaveFlag(t) \/ SetFlag(t) \/ Look(t) \/ Inner(t) \/ Verifier(t)
  BY <1>1 DEF SaveFlag, SetFlag, Look, Inner, Verifier, Goto, TypeOK, locals
<1>2. CASE RestoreFlag(t)
  BY <1>2 DEF RestoreFlag, Goto, Return, Raised, TypeOK, locals
<1>3. CASE Read(t) \/ Write(t) \/ Remove(t) \/ RemoveAll(t) \/ RedisExpire(t) \/ RedisDrained(t)
  <2>1. CASE Read(t) \/ Write(t)
    BY <2>1 DEF Read, Write, Goto, Return, TypeOK
  <2>2. CASE Remove(t) \/ RemoveAll(t)
    BY <2>2 DEF Remove, RemoveAll, Goto, Return, TypeOK
  <2>3. CASE RedisExpire(t) \/ RedisDrained(t)
    BY <2>3 DEF RedisExpire, RedisDrained, Goto, Return, TypeOK
  <2> QED BY <1>3, <2>1, <2>2, <2>3
<1>4. CASE RedisSet(t) \/ RedisScan(t) \/ RedisDrain(t)
  <2>1. CASE RedisSet(t)
    BY <2>1 DEF RedisSet, Goto, Return, TypeOK, locals
  <2>2. CASE RedisScan(t)
    BY <2>2 DEF RedisScan, Goto, Return, TypeOK, locals
  <2>3. CASE RedisDrain(t)
    BY <2>3 DEF RedisDrain, Goto, Return, TypeOK, locals
  <2> QED BY <1>4, <2>1, <2>2, <2>3
<1>5. CASE RedisExpireFails(t) \/ RedisDrainFails(t) \/ CommandFails(t)
  BY <1>5 DEF RedisExpireFails, RedisDrainFails, CommandFails, Goto, TypeOK, locals
<1>6. CASE Handle(t)
  BY <1>6 DEF Handle, Goto, Return, TypeOK
<1> QED
  BY <1>1, <1>2, <1>3, <1>4, <1>5, <1>6 DEF Running, Verifying, Commanding

LEMMA NextBetween ==
    ASSUME TypeOK, Between, [Next]_vars
    PROVE  Between'
<1>1. ASSUME NEW t \in Threads, Running(t) PROVE Between'
  <2>1. /\ backend' = backend
        /\ \A u \in Threads \ {t} : pc'[u] = pc[u] /\ call'[u] = call[u] /\ todo'[u] = todo[u]
        /\ pc'[t] = "expire" => RedisSet(t)
        /\ pc'[t] = "drain" => RedisScan(t) \/ RedisDrain(t)
    BY <1>1, StepOfOne
  <2>2. ASSUME NEW u \in Threads \ {t}
        PROVE  /\ pc'[u] = "expire" => backend' = "redis" /\ Expires(Of(u))'
               /\ pc'[u] = "drain" => /\ backend' = "redis"
                                      /\ \A e \in todo'[u] : e[1] = Place(Of(u))'
    BY <2>1 DEF Between, Of, Expires, Place
  <2>3. ASSUME pc'[t] = "expire" PROVE backend' = "redis" /\ Expires(Of(t))'
    BY <2>1, <2>3 DEF RedisSet, Return, Goto, TypeOK, Expires, Of, locals
  <2>4. ASSUME pc'[t] = "drain"
        PROVE  backend' = "redis" /\ \A e \in todo'[t] : e[1] = Place(Of(t))'
    <3>1. CASE RedisScan(t)
      <4>1. backend = "redis" /\ call' = call /\ backend' = backend
        BY <3>1 DEF RedisScan
      <4>2. todo'[t] = {e \in Entries : InNamespace(Of(t), e) /\ db[e] # "absent"}
        BY <3>1 DEF RedisScan, TypeOK
      <4> QED
        BY <4>1, <4>2 DEF InNamespace, Place, Of
    <3>2. CASE RedisDrain(t)
      BY <3>2 DEF RedisDrain, Between, TypeOK, Place, Of
    <3> QED
      BY <2>1, <2>4, <3>1, <3>2
  <2> QED
    BY <2>2, <2>3, <2>4 DEF Between
<1>2. ASSUME NEW t \in Threads, NEW m \in Methods, NEW s \in Storages, NEW k \in Keys,
             Call(t, m, s, k)
      PROVE  Between'
  <2>1. /\ backend' = backend /\ todo' = todo /\ pc'[t] \notin {"expire", "drain"}
        /\ \A u \in Threads \ {t} : pc'[u] = pc[u] /\ call'[u] = call[u]
    BY <1>2 DEF Call, TypeOK
  <2> QED
    BY <2>1 DEF Between, Of, Expires, Place
<1>3. CASE UNCHANGED <<backend, pc, locals>>
  BY <1>3 DEF Between, Of, Expires, Place, locals
<1> QED
  BY <1>1, <1>2, <1>3 DEF Next, Expire, vars

\* ExpiryKept for one entry.
KeptRight(s, k) ==
    LET e == <<Place(s), k>>
    IN  (\A r \in Storages : Place(r) = Place(s) => TTL[r] = TTL[s]) =>
        /\ Expires(s) /\ db[e] = "kept"
              => e \in torn \/ \E t \in Threads : pc[t] = "expire" /\ Entry(t) = e
        /\ ~Expires(s) => db[e] # "expiring"

LEMMA KeptByEntry == ExpiryKept <=> \A s \in Storages, k \in Keys : KeptRight(s, k)
  BY DEF ExpiryKept, KeptRight

\* An entry no step touches is as right as before.
LEMMA UntouchedKept ==
    ASSUME NEW s \in Storages, NEW k \in Keys, KeptRight(s, k), backend' = backend,
           db'[<<Place(s), k>>] = db[<<Place(s), k>>],
           <<Place(s), k>> \in torn => <<Place(s), k>> \in torn',
           \A u \in Threads : (pc[u] = "expire" /\ Entry(u) = <<Place(s), k>>)
                                 => pc'[u] = "expire" /\ Entry(u)' = <<Place(s), k>>
    PROVE  KeptRight(s, k)'
<1>1. Place(s)' = Place(s) /\ Expires(s)' = Expires(s)
      /\ \A r \in Storages : Place(r)' = Place(r)
  BY DEF Place, Expires
<1> QED
  BY <1>1 DEF KeptRight

\* Two storages of one place, where the place agrees on the ttl.
LEMMA Agree ==
    ASSUME NEW s \in Storages, NEW r \in Storages, Place(r) = Place(s),
           \A q \in Storages : Place(q) = Place(s) => TTL[q] = TTL[s]
    PROVE  Expires(r) = Expires(s)
  BY DEF Expires

LEMMA RunningKept ==
    ASSUME EntryInv, NEW t \in Threads, Running(t), NEW s \in Storages, NEW k \in Keys
    PROVE  KeptRight(s, k)'
<1> DEFINE e == <<Place(s), k>>
<1>types. TypeOK /\ Between /\ KeptRight(s, k)
  BY KeptByEntry DEF EntryInv
<1>1. /\ backend' = backend
      /\ \A u \in Threads \ {t} : pc'[u] = pc[u] /\ call'[u] = call[u]
  BY <1>types, StepOfOne
<1>2. e \in Entries /\ Of(t) \in Storages /\ Entry(t) \in Entries
  BY <1>types, EntryIsAnEntry DEF Entries, Place, Spaces
<1>3. \A r \in Storages : Place(r)' = Place(r) /\ Expires(r)' = Expires(r)
  BY <1>1 DEF Place, Expires
<1>4. \A u \in Threads \ {t} : Entry(u)' = Entry(u) /\ pc'[u] = pc[u]
  BY <1>1 DEF Entry, Place
<1>5. Entry(t) = e => Place(Of(t)) = Place(s)
  BY DEF Entry, Of
<1>6. ASSUME pc[t] # "expire", db'[e] = db[e], e \in torn => e \in torn'
      PROVE  KeptRight(s, k)'
  BY <1>1, <1>4, <1>6, <1>types, UntouchedKept
<1>7. ASSUME db'[e] = "absent" PROVE KeptRight(s, k)'
  BY <1>3, <1>7 DEF KeptRight
<1>8. CASE Verifying(t) \/ Read(t) \/ RedisScan(t) \/ RedisDrained(t) \/ RedisDrainFails(t)
           \/ CommandFails(t) \/ Handle(t)
  <2>1. pc[t] # "expire" /\ db' = db /\ torn' = torn
    BY <1>8 DEF Verifying, SaveFlag, SetFlag, Look, Inner, RestoreFlag, Verifier, Read,
                RedisScan, RedisDrained, RedisDrainFails, CommandFails, Handle, Goto, Return
  <2> QED
    BY <1>6, <2>1
<1>9. CASE Write(t)
  <2>1. /\ pc[t] = "command" /\ torn' = torn \ {Entry(t)}
        /\ db' = [db EXCEPT ![Entry(t)] =
                     IF \/ Expires(Of(t))
                        \/ backend = "mongo" /\ found[t] # "yes" /\ @ = "expiring"
                     THEN "expiring" ELSE "kept"]
    BY <1>9 DEF Write, Return, Goto
  <2>2. CASE Entry(t) # e
    BY <1>2, <1>6, <2>1, <2>2 DEF EntryInv, TypeOK
  <2>3. CASE Entry(t) = e
    <3>1. db'[e] = IF \/ Expires(Of(t))
                      \/ backend = "mongo" /\ found[t] # "yes" /\ db[e] = "expiring"
                   THEN "expiring" ELSE "kept"
      BY <1>2, <1>types, <2>1, <2>3 DEF TypeOK
    <3>2. SUFFICES ASSUME \A r \in Storages : Place(r) = Place(s) => TTL[r] = TTL[s]
                   PROVE  /\ Expires(s) => db'[e] # "kept"
                          /\ ~Expires(s) => db'[e] # "expiring"
      BY <1>3 DEF KeptRight
    <3>3. Expires(Of(t)) = Expires(s)
      BY <1>2, <1>5, <2>3, <3>2, Agree
    <3>4. ~Expires(s) => db[e] # "expiring"
      BY <1>types, <3>2 DEF KeptRight
    <3> QED
      BY <3>1, <3>3, <3>4
  <2> QED
    BY <2>2, <2>3
<1>10. CASE RedisSet(t)
  <2>1. /\ pc[t] = "command" /\ torn' = torn \ {Entry(t)}
        /\ db' = [db EXCEPT ![Entry(t)] = "kept"]
    BY <1>10 DEF RedisSet, Return, Goto
  <2>2. CASE Entry(t) # e
    BY <1>2, <1>6, <2>1, <2>2 DEF EntryInv, TypeOK
  <2>3. CASE Entry(t) = e
    <3>1. db'[e] = "kept"
      BY <1>2, <1>types, <2>1, <2>3 DEF TypeOK
    <3>2. SUFFICES ASSUME \A r \in Storages : Place(r) = Place(s) => TTL[r] = TTL[s],
                          Expires(s)
                   PROVE  pc'[t] = "expire" /\ Entry(t)' = e
      BY <1>3, <3>1 DEF KeptRight
    <3>3. Expires(Of(t))
      BY <1>2, <1>5, <2>3, <3>2, Agree
    <3>4. Goto(t, "command", "expire") /\ UNCHANGED locals
      BY <1>10, <3>3 DEF RedisSet
    <3> QED
      BY <1>1, <1>types, <2>3, <3>4 DEF Goto, locals, TypeOK, Entry, Place
  <2> QED
    BY <2>2, <2>3
<1>11. CASE RedisExpire(t)
  <2>1. /\ pc[t] = "expire" /\ torn' = torn \ {Entry(t)}
        /\ db' = [db EXCEPT ![Entry(t)] = IF @ = "absent" THEN @ ELSE "expiring"]
    BY <1>11 DEF RedisExpire, Return, Goto
  <2>2. CASE Entry(t) # e
    <3>1. db'[e] = db[e] /\ (e \in torn => e \in torn')
      BY <1>2, <1>types, <2>1, <2>2 DEF TypeOK
    <3> QED
      BY <1>1, <1>4, <1>types, <2>2, <3>1, UntouchedKept
  <2>3. CASE Entry(t) = e
    <3>1. db'[e] # "kept"
      BY <1>2, <1>types, <2>1, <2>3 DEF TypeOK
    <3>2. SUFFICES ASSUME \A r \in Storages : Place(r) = Place(s) => TTL[r] = TTL[s],
                          ~Expires(s)
                   PROVE  FALSE
      BY <1>3, <3>1 DEF KeptRight
    <3>3. Expires(Of(t))
      BY <1>types, <2>1 DEF Between
    <3> QED
      BY <1>2, <1>5, <2>3, <3>2, <3>3, Agree
  <2> QED
    BY <2>2, <2>3
<1>12. CASE RedisExpireFails(t)
  <2>1. torn' = torn \cup {Entry(t)} /\ db' = db
    BY <1>12 DEF RedisExpireFails
  <2>2. CASE Entry(t) # e
    BY <1>1, <1>4, <1>types, <2>1, <2>2, UntouchedKept
  <2>3. CASE Entry(t) = e
    BY <1>3, <1>types, <2>1, <2>3 DEF KeptRight
  <2> QED
    BY <2>2, <2>3
<1>13. CASE Remove(t)
  <2>1. /\ pc[t] = "command" /\ torn' = torn \ {Entry(t)}
        /\ db' = [db EXCEPT ![Entry(t)] = "absent"]
    BY <1>13 DEF Remove, Return, Goto
  <2> QED
    BY <1>2, <1>6, <1>7, <1>types, <2>1 DEF TypeOK
<1>14. CASE RemoveAll(t)
  <2>1. /\ pc[t] = "command"
        /\ db' = [f \in Entries |-> IF InNamespace(Of(t), f) THEN "absent" ELSE db[f]]
        /\ torn' = {f \in torn : ~InNamespace(Of(t), f)}
    BY <1>14 DEF RemoveAll, Return, Goto
  <2>2. CASE InNamespace(Of(t), e)
    BY <1>2, <1>7, <2>1, <2>2
  <2>3. CASE ~InNamespace(Of(t), e)
    BY <1>2, <1>6, <2>1, <2>3
  <2> QED
    BY <2>2, <2>3
<1>15. CASE RedisDrain(t)
  <2>1. PICK f \in todo[t] : db' = [db EXCEPT ![f] = "absent"] /\ torn' = torn \ {f}
    BY <1>15 DEF RedisDrain
  <2>2. pc[t] # "expire"
    BY <1>15 DEF RedisDrain
  <2> QED
    BY <1>2, <1>6, <1>7, <1>types, <2>1, <2>2 DEF TypeOK
<1> QED
  BY <1>8, <1>9, <1>10, <1>11, <1>12, <1>13, <1>14, <1>15 DEF Running, Commanding

LEMMA NextEntryInv == EntryInv /\ [Next]_vars => EntryInv'
<1> SUFFICES ASSUME EntryInv, [Next]_vars PROVE ExpiryKept'
  BY NextTypeOK, NextBetween DEF EntryInv
<1>types. TypeOK /\ \A s \in Storages, k \in Keys : KeptRight(s, k)
  BY KeptByEntry DEF EntryInv
<1> SUFFICES ASSUME NEW s \in Storages, NEW k \in Keys PROVE KeptRight(s, k)'
  BY DEF ExpiryKept, KeptRight
<1>1. ASSUME NEW t \in Threads, Running(t) PROVE KeptRight(s, k)'
  BY <1>1, RunningKept
<1>2. ASSUME NEW t \in Threads, NEW m \in Methods, NEW r \in Storages, NEW i \in Keys,
             Call(t, m, r, i)
      PROVE  KeptRight(s, k)'
  <2>1. /\ backend' = backend /\ db' = db /\ torn' = torn /\ pc[t] # "expire"
        /\ \A u \in Threads \ {t} : pc'[u] = pc[u] /\ call'[u] = call[u]
    BY <1>2, <1>types DEF Call, TypeOK, Rest
  <2>2. \A u \in Threads : (pc[u] = "expire" /\ Entry(u) = <<Place(s), k>>)
                              => pc'[u] = "expire" /\ Entry(u)' = <<Place(s), k>>
    BY <2>1 DEF Entry, Place
  <2> QED
    BY <1>types, <2>1, <2>2, UntouchedKept
<1>3. ASSUME NEW e \in Entries, Expire(e) PROVE KeptRight(s, k)'
  <2>1. backend' = backend /\ pc' = pc /\ call' = call /\ torn' = torn
        /\ db' = [db EXCEPT ![e] = "absent"]
    BY <1>3 DEF Expire, locals
  <2>2. \A u \in Threads : Entry(u)' = Entry(u)
    BY <2>1 DEF Entry, Place
  <2>3. CASE e # <<Place(s), k>>
    <3>1. <<Place(s), k>> \in Entries
      BY DEF Entries, Place, Spaces
    <3>2. db'[<<Place(s), k>>] = db[<<Place(s), k>>]
      BY <1>types, <2>1, <2>3, <3>1 DEF TypeOK
    <3> QED
      BY <1>types, <2>1, <2>2, <3>2, UntouchedKept
  <2>4. CASE e = <<Place(s), k>>
    <3>1. db'[<<Place(s), k>>] = "absent" /\ Place(s)' = Place(s)
      BY <1>types, <2>1, <2>4 DEF TypeOK, Place
    <3> QED
      BY <3>1 DEF KeptRight
  <2> QED
    BY <2>3, <2>4
<1>4. CASE UNCHANGED vars
  BY <1>4, <1>types, UntouchedKept DEF vars, locals, Entry, Place
<1> QED
  BY <1>1, <1>2, <1>3, <1>4 DEF Next

LEMMA EntryInvariant == Spec => []EntryInv
<1> QED
  BY InitEntryInv, NextEntryInv, PTL DEF Spec

\* Entries expire where they should and only there: one stays without an expiry
\* only while its update is between SET and EXPIRE, or when EXPIRE failed.
THEOREM ExpiryIsKept == Spec => []ExpiryKept
<1>1. EntryInv => ExpiryKept
  BY DEF EntryInv
<1> QED
  BY <1>1, EntryInvariant, PTL

\* An entry that a call changes is of the namespace that the call's method
\* reaches.
LEMMA StepReach ==
    ASSUME EntryInv, NEW t \in Threads, Running(t), NEW e \in Entries, db'[e] # db[e]
    PROVE  /\ pc[t] \in {"command", "expire", "drain"}
           /\ \/ Place(Of(t)) = e[1]
              \/ call[t].method = "delete_all" /\ backend = "mongo"
              \/ /\ call[t].method = "delete_all" /\ backend = "sql"
                 /\ <<Place(Of(t)), e[1]>> \in Longer
<1>types. TypeOK /\ Between
  BY DEF EntryInv
<1>1. Entry(t)[1] = Place(Of(t)) /\ Entry(t) \in Entries
  BY <1>types, EntryIsAnEntry DEF Entry, Of
<1>2. CASE Write(t) \/ RedisSet(t) \/ RedisExpire(t) \/ Remove(t)
  <2>1. pc[t] \in {"command", "expire"} /\ \A f \in Entries : f # Entry(t) => db'[f] = db[f]
    BY <1>2, <1>types DEF Write, RedisSet, RedisExpire, Remove, Return, Goto, TypeOK
  <2> QED
    BY <1>1, <2>1
<1>3. CASE RemoveAll(t)
  <2>1. /\ pc[t] = "command" /\ call[t].method = "delete_all"
        /\ db' = [f \in Entries |-> IF InNamespace(Of(t), f) THEN "absent" ELSE db[f]]
    BY <1>3 DEF RemoveAll, Return, Goto
  <2>2. InNamespace(Of(t), e)
    BY <2>1
  <2> QED
    BY <2>1, <2>2 DEF InNamespace
<1>4. CASE RedisDrain(t)
  <2>1. PICK f \in todo[t] : db' = [db EXCEPT ![f] = "absent"]
    BY <1>4 DEF RedisDrain
  <2>2. pc[t] = "drain"
    BY <1>4 DEF RedisDrain
  <2> QED
    BY <1>types, <2>1, <2>2 DEF Between, TypeOK
<1>5. CASE db' = db
  BY <1>5
<1>6. CASE Verifying(t) \/ Read(t) \/ RedisExpireFails(t) \/ RedisScan(t) \/ RedisDrained(t)
           \/ RedisDrainFails(t) \/ CommandFails(t) \/ Handle(t)
  <2>1. db' = db
    BY <1>6 DEF Verifying, SaveFlag, SetFlag, Look, Inner, RestoreFlag, Verifier, Read,
                RedisExpireFails, RedisScan, RedisDrained, RedisDrainFails, CommandFails,
                Handle
  <2> QED
    BY <1>5, <2>1
<1> QED
  BY <1>2, <1>3, <1>4, <1>6 DEF Running, Commanding

\* Only delete_all of MongoDB, and of SQL where namespaces begin alike, reaches
\* entries outside the namespace of the storage it is called on.
THEOREM NamespacesAreSeparate == Spec => OnlyOwnNamespace
<1> DEFINE Reached(e) ==
      \/ db[e] = "expiring" /\ db'[e] = "absent" /\ UNCHANGED pc
      \/ \E t \in Threads :
            /\ pc[t] \in {"command", "expire", "drain"}
            /\ \/ Place(Of(t)) = e[1]
               \/ call[t].method = "delete_all" /\ backend = "mongo"
               \/ /\ call[t].method = "delete_all" /\ backend = "sql"
                  /\ <<Place(Of(t)), e[1]>> \in Longer
<1>1. EntryInv /\ [Next]_vars => [\A e \in Entries : db'[e] # db[e] => Reached(e)]_vars
  <2> SUFFICES ASSUME EntryInv, Next, NEW e \in Entries, db'[e] # db[e] PROVE Reached(e)
    OBVIOUS
  <2>1. ASSUME NEW t \in Threads, Running(t) PROVE Reached(e)
    BY <2>1, StepReach
  <2>2. ASSUME NEW t \in Threads, NEW m \in Methods, NEW s \in Storages, NEW k \in Keys,
               Call(t, m, s, k)
        PROVE  Reached(e)
    BY <2>2 DEF Call
  <2>3. ASSUME NEW f \in Entries, Expire(f) PROVE Reached(e)
    <3>1. db[f] = "expiring" /\ db' = [db EXCEPT ![f] = "absent"] /\ UNCHANGED pc
      BY <2>3 DEF Expire
    <3>2. db \in [Entries -> {"absent", "kept", "expiring"}]
      BY DEF EntryInv, TypeOK
    <3>3. e = f
      BY <3>1, <3>2
    <3> QED
      BY <3>1, <3>2, <3>3
  <2> QED
    BY <2>1, <2>2, <2>3 DEF Next
<1> QED
  BY <1>1, EntryInvariant, PTL DEF Spec, OnlyOwnNamespace
=============================================================================
