------------------------------ MODULE PoolProofs ------------------------------
(***************************************************************************)
(* Proofs about the two pools of src/util.                                 *)
(*                                                                         *)
(* SharedFilePool, for any number of threads and files and any limit: its  *)
(* tables keep to the limit; a handler sends from an open descriptor of    *)
(* the file it has asked for, unless get has used an erased entry; and     *)
(* that does not happen while the table has room for every file.           *)
(*                                                                         *)
(* ThreadPool, for any number of workers and tasks: no task is lost or run *)
(* twice, and the destructor comes back only when all have run.  The       *)
(* second does not follow from the first: it needs to know what a worker   *)
(* has seen when it returns, and that this stays true.                     *)
(***************************************************************************)
EXTENDS SharedFilePool, ThreadPool, FiniteSetTheorems, TLAPS

-----------------------------------------------------------------------------
(* The shared files: the tables. *)

(* One goes when the table is full, then one comes: the limit is kept.       *)
LEMMA OneForOne ==
  ASSUME NEW S, IsFiniteSet(S), Cardinality(S) <= MAX_SHARED_FILE, NEW f,
         NEW gone \in IF Full(Cardinality(S)) THEN {{x} : x \in S} ELSE {{}}
  PROVE  /\ IsFiniteSet((S \ gone) \cup {f})
         /\ Cardinality((S \ gone) \cup {f}) <= MAX_SHARED_FILE
<1>1. MAX_SHARED_FILE \in Nat \ {0} /\ Cardinality(S) \in Nat
  BY FilesAssumption, FS_CardinalityType
<1>2. IsFiniteSet(S \ gone) /\ Cardinality(S \ gone) \in Nat /\ Cardinality(S \ gone) < MAX_SHARED_FILE
  <2>1. CASE Full(Cardinality(S))
    <3>1. PICK x \in S : gone = {x}
      BY <2>1
    <3>2. IsFiniteSet(S \ {x}) /\ Cardinality(S \ {x}) = Cardinality(S) - 1
      BY <3>1, FS_RemoveElement
    <3>3. Cardinality(S \ {x}) \in Nat
      BY <3>2, FS_CardinalityType
    <3>. QED BY <1>1, <3>1, <3>2, <3>3
  <2>2. CASE ~Full(Cardinality(S))
    <3>1. S \ gone = S
      BY <2>2
    <3>. QED BY <1>1, <2>2, <3>1 DEF Full
  <2>. QED BY <2>1, <2>2
<1>3. /\ IsFiniteSet((S \ gone) \cup {f})
      /\ Cardinality((S \ gone) \cup {f}) <= Cardinality(S \ gone) + 1
  <2> DEFINE T == S \ gone
  <2>1. IsFiniteSet(T) /\ Cardinality(T) \in Nat
    BY <1>2
  <2>. HIDE DEF T
  <2>2. /\ IsFiniteSet(T \cup {f})
        /\ Cardinality(T \cup {f}) = IF f \in T THEN Cardinality(T) ELSE Cardinality(T) + 1
    BY <2>1, FS_AddElement, Zenon
  <2>3. Cardinality(T \cup {f}) <= Cardinality(T) + 1
    BY <2>1, <2>2
  <2>. QED BY <2>2, <2>3 DEF T
<1>4. Cardinality((S \ gone) \cup {f}) \in Nat
  BY <1>3, FS_CardinalityType
<1>. QED BY <1>1, <1>2, <1>3, <1>4

-----------------------------------------------------------------------------
(* The steps. *)

(* The part of the invariant that is about open files, and that about types  *)
(* and limits.                                                               *)
OpenFiles ==
  IF destroyed THEN \A t \in Threads : pc[t] = "idle"
               ELSE /\ \A f \in Names(m_pool) : IsOf(m_pool[f], f)
                    /\ \A t \in Threads : HoldsOpen(t)

Limits == Bounded /\ IsFiniteSet(Names(m_pool)) /\ IsFiniteSet(m_invalidPaths)

(* The other threads do not notice what becomes of thread t.                 *)
LEMMA OthersHold ==
  ASSUME OpenFiles, ~destroyed, UNCHANGED destroyed, NEW t \in Threads,
         \A u \in Threads \ {t} :
           /\ pc'[u] = pc[u] /\ file'[u] = file[u] /\ fileName'[u] = fileName[u]
           /\ ret'[u] = ret[u] /\ stale'[u] = stale[u],
         \A d \in DOMAIN opened : d \in DOMAIN opened' /\ opened'[d] = opened[d],
         \A f \in Names(m_pool)' : IsOf(m_pool[f], f)', HoldsOpen(t)'
  PROVE  OpenFiles'
<1>1. ASSUME NEW u \in Threads \ {t} PROVE HoldsOpen(u)'
  BY DEF OpenFiles, HoldsOpen, IsOf
<1>. QED BY <1>1 DEF OpenFiles

LEMMA FindInv ==
  ASSUME FilesInv, NEW t \in Threads, NEW f \in Files, Find(t, f)
  PROVE  FilesInv'
<1>. USE DEF Find
<1>1. TypeOK'
  BY DEF FilesInv, TypeOK, Names
<1>2. Limits'
  BY DEF FilesInv, Limits, Bounded, Names
<1>3. OpenFiles'
  <2>1. /\ ~destroyed /\ pc'[t] # "insert" /\ pc'[t] # "idle" /\ fileName'[t] = f
        /\ \A u \in Threads \ {t} : pc'[u] = pc[u] /\ stale'[u] = stale[u] /\ fileName'[u] = fileName[u]
        /\ UNCHANGED <<m_pool, file, ret, opened, destroyed>>
    BY DEF FilesInv, TypeOK
  <2>2. \A g \in Names(m_pool)' : IsOf(m_pool[g], g)'
    BY <2>1 DEF FilesInv, IsOf, Names
  <2>3. HoldsOpen(t)'
    BY <2>1 DEF HoldsOpen
  <2>4. OpenFiles
    BY DEF FilesInv, OpenFiles
  <2>. QED BY <2>1, <2>2, <2>3, <2>4, OthersHold
<1>. QED BY <1>1, <1>2, <1>3 DEF FilesInv, Limits, OpenFiles

LEMMA LookInv ==
  ASSUME FilesInv, NEW t \in Threads, Deref(t) \/ CheckInvalid(t) \/ OpenFails(t)
  PROVE  FilesInv'
<1>0. Deref(t) => ~destroyed /\ fileName[t] \in Names(m_pool) /\ m_pool[fileName[t]] \in 1..MaxFd
  BY FilesAssumption DEF Deref, EntryLives, FilesInv, TypeOK
<1>1. TypeOK'
  <2>1. CASE Deref(t)
    BY <1>0, <2>1 DEF Deref, FilesInv, TypeOK, Names
  <2>2. CASE CheckInvalid(t)
    BY <2>2 DEF CheckInvalid, FilesInv, TypeOK, Names
  <2>3. CASE OpenFails(t)
    BY <2>3 DEF OpenFails, FilesInv, TypeOK, Names
  <2>. QED BY <2>1, <2>2, <2>3
<1>2. Limits'
  BY DEF Deref, CheckInvalid, OpenFails, FilesInv, Limits, Bounded, Names
<1>3. OpenFiles'
  <2>1. /\ pc'[t] # "insert"
        /\ pc'[t] = "idle" => \/ ret'[t] = none
                              \/ fileName[t] \in Names(m_pool) /\ ret'[t] = m_pool[fileName[t]]
        /\ \A u \in Threads \ {t} : pc'[u] = pc[u] /\ ret'[u] = ret[u]
        /\ UNCHANGED <<m_pool, stale, file, fileName, opened, destroyed>>
    BY <1>0 DEF Deref, CheckInvalid, OpenFails, FilesInv, TypeOK
  <2>2. ~destroyed /\ OpenFiles
    BY DEF FilesInv, OpenFiles, Deref, CheckInvalid, OpenFails
  <2>3. \A g \in Names(m_pool)' : IsOf(m_pool[g], g)'
    BY <2>1, <2>2 DEF OpenFiles, IsOf, Names
  <2>4. HoldsOpen(t)'
    BY <2>1, <2>2 DEF OpenFiles, HoldsOpen, IsOf
  <2>. QED BY <2>1, <2>2, <2>3, <2>4, OthersHold
<1>. QED BY <1>1, <1>2, <1>3 DEF FilesInv, Limits, OpenFiles

(* The use of an erased entry spoils the reply of this thread, or ends the   *)
(* process; table and files stay as they are.                                *)
LEMMA ErasedInv ==
  ASSUME FilesInv, NEW t \in Threads, DerefErased(t)
  PROVE  FilesInv'
<1>1. UNCHANGED <<m_pool, m_invalidPaths, fileName, it, file, exists, opened, fds, changes, destroyed>>
  BY DEF DerefErased
<1>2. TypeOK'
  <2>1. /\ pc' \in [Threads -> {"idle", "deref", "check", "open", "insert", "reject", "terminated"}]
        /\ ret' \in [Threads -> 1..MaxFd \cup {none}]
        /\ stale' \in [Threads -> BOOLEAN]
    <3>1. /\ pc \in [Threads -> {"idle", "deref", "check", "open", "insert", "reject", "terminated"}]
          /\ ret \in [Threads -> 1..MaxFd \cup {none}] /\ stale \in [Threads -> BOOLEAN]
      BY DEF FilesInv, TypeOK
    <3>2. CASE UNCHANGED <<ret, stale>> /\ pc' = [u \in Threads |-> "terminated"]
      BY <3>1, <3>2
    <3>3. CASE /\ stale' = [stale EXCEPT ![t] = TRUE] /\ pc' = [pc EXCEPT ![t] = "idle"]
               /\ \E d \in 1..MaxFd : ret' = [ret EXCEPT ![t] = d]
      <4>1. PICK d \in 1..MaxFd : ret' = [ret EXCEPT ![t] = d]
        BY <3>3
      <4>2. ret' \in [Threads -> 1..MaxFd \cup {none}]
        BY <3>1, <4>1
      <4>3. stale' \in [Threads -> BOOLEAN]
        BY <3>1, <3>3
      <4>4. pc' \in [Threads -> {"idle", "deref", "check", "open", "insert", "reject", "terminated"}]
        BY <3>1, <3>3
      <4>. QED BY <4>2, <4>3, <4>4
    <3>. QED BY <3>2, <3>3 DEF DerefErased
  <2>. QED BY <1>1, <2>1 DEF FilesInv, TypeOK, Names
<1>3. Limits'
  BY <1>1 DEF FilesInv, Limits, Bounded, Names
<1>4. OpenFiles'
  <2>1. ~destroyed /\ OpenFiles
    <3>1. pc[t] = "deref"
      BY DEF DerefErased
    <3>. QED BY <3>1 DEF FilesInv, OpenFiles
  <2>2. \A g \in Names(m_pool)' : IsOf(m_pool[g], g)'
    BY <1>1, <2>1 DEF OpenFiles, IsOf, Names
  <2>3. CASE \A u \in Threads : pc'[u] = "terminated"
    BY <1>1, <2>1, <2>2, <2>3 DEF OpenFiles, HoldsOpen
  <2>4. CASE /\ pc'[t] = "idle" /\ stale'[t] /\ \A u \in Threads \ {t} : pc'[u] = pc[u]
             /\ \A u \in Threads \ {t} : ret'[u] = ret[u] /\ stale'[u] = stale[u]
    <3>1. HoldsOpen(t)'
      BY <2>4 DEF HoldsOpen
    <3>. QED BY <1>1, <2>1, <2>2, <2>4, <3>1, OthersHold
  <2>5. /\ pc \in [Threads -> {"idle", "deref", "check", "open", "insert", "reject", "terminated"}]
        /\ ret \in [Threads -> 1..MaxFd \cup {none}] /\ stale \in [Threads -> BOOLEAN]
    BY DEF FilesInv, TypeOK
  <2>. QED BY <2>3, <2>4, <2>5 DEF DerefErased
<1>. QED BY <1>2, <1>3, <1>4 DEF FilesInv, Limits, OpenFiles

(* A new descriptor is none that anybody knows.                              *)
LEMMA OpenInv ==
  ASSUME FilesInv, NEW t \in Threads, Open(t)
  PROVE  FilesInv'
<1>. USE FilesAssumption DEF Open
<1>1. /\ fds \in Nat /\ fds < MaxFd /\ fds' = fds + 1 /\ fds' \notin DOMAIN opened
      /\ opened' = With(opened, fds + 1, fileName[t]) /\ fileName[t] \in Files
  BY DEF FilesInv, TypeOK
<1>2. /\ DOMAIN opened' = DOMAIN opened \cup {fds + 1}
      /\ opened'[fds + 1] = fileName[t]
      /\ \A d \in DOMAIN opened : opened'[d] = opened[d]
  BY <1>1 DEF With
<1>3. \A d \in 1..fds : d \in 1..fds'
  BY <1>1
<1>4. TypeOK'
  <2>1. /\ \A d \in DOMAIN opened' : d \in 1..fds' /\ opened'[d] \in Files
        /\ fds' \in 0..MaxFd
    BY <1>1, <1>2, <1>3 DEF FilesInv, TypeOK
  <2>2. /\ \A u \in Threads : it[u] \in 1..fds' \cup {end}
        /\ \A f \in Names(m_pool) : m_pool[f] \in 1..fds'
    BY <1>1, <1>3 DEF FilesInv, TypeOK
  <2>3. it \in [Threads -> 1..fds' \cup {end}]
    BY <2>2 DEF FilesInv, TypeOK
  <2>4. file' \in [Threads -> 0..fds']
    <3>1. \A u \in Threads : file'[u] \in 0..fds'
      BY <1>1 DEF FilesInv, TypeOK
    <3>. QED BY <3>1 DEF FilesInv, TypeOK
  <2>. QED BY <2>1, <2>2, <2>3, <2>4 DEF FilesInv, TypeOK, Names
<1>5. Limits'
  BY DEF FilesInv, Limits, Bounded, Names
<1>6. OpenFiles'
  <2>1. /\ pc'[t] = "insert" /\ file'[t] = fds + 1 /\ fileName'[t] = fileName[t]
        /\ \A u \in Threads \ {t} : pc'[u] = pc[u] /\ file'[u] = file[u]
        /\ UNCHANGED <<m_pool, ret, stale, fileName, destroyed>>
    BY <1>1 DEF FilesInv, TypeOK
  <2>2. ~destroyed /\ OpenFiles
    BY DEF FilesInv, OpenFiles
  <2>3. \A g \in Names(m_pool)' : IsOf(m_pool[g], g)'
    BY <1>2, <2>1, <2>2 DEF OpenFiles, IsOf, Names
  <2>4. HoldsOpen(t)'
    BY <1>2, <2>1 DEF HoldsOpen, IsOf
  <2>. QED BY <1>2, <2>1, <2>2, <2>3, <2>4, OthersHold
<1>. QED BY <1>4, <1>5, <1>6 DEF FilesInv, Limits, OpenFiles

LEMMA RejectInv ==
  ASSUME FilesInv, NEW t \in Threads, Reject(t)
  PROVE  FilesInv'
<1>. USE DEF Reject
<1>1. PICK gone \in (IF Full(Cardinality(m_invalidPaths)) THEN {{x} : x \in m_invalidPaths} ELSE {{}}) :
        m_invalidPaths' = (m_invalidPaths \ gone) \cup {fileName[t]}
  OBVIOUS
<1>2. TypeOK'
  BY <1>1 DEF FilesInv, TypeOK, Names
<1>3. Limits'
  <2>1. IsFiniteSet(m_invalidPaths') /\ Cardinality(m_invalidPaths') <= MAX_SHARED_FILE
    BY <1>1, OneForOne DEF FilesInv, Bounded
  <2>. QED BY <2>1 DEF FilesInv, Limits, Bounded, Names
<1>4. OpenFiles'
  <2>1. /\ pc'[t] = "idle" /\ ret'[t] = none
        /\ \A u \in Threads \ {t} : pc'[u] = pc[u] /\ ret'[u] = ret[u]
        /\ UNCHANGED <<m_pool, file, stale, fileName, opened, destroyed>>
    BY DEF FilesInv, TypeOK
  <2>2. ~destroyed /\ OpenFiles
    BY DEF FilesInv, OpenFiles
  <2>3. \A g \in Names(m_pool)' : IsOf(m_pool[g], g)'
    BY <2>1, <2>2 DEF OpenFiles, IsOf, Names
  <2>4. HoldsOpen(t)'
    BY <2>1 DEF HoldsOpen
  <2>. QED BY <2>1, <2>2, <2>3, <2>4, OthersHold
<1>. QED BY <1>2, <1>3, <1>4 DEF FilesInv, Limits, OpenFiles

(* An eviction takes an entry and leaves its descriptor open; emplace adds   *)
(* the thread's own or finds another one of the same file.                   *)
LEMMA InsertInv ==
  ASSUME FilesInv, NEW t \in Threads, Insert(t)
  PROVE  FilesInv'
<1>. USE DEF Insert, Names
<1>1. PICK gone \in (IF Full(Cardinality(Names(m_pool))) THEN {{x} : x \in Names(m_pool)} ELSE {{}}) :
        m_pool' = Emplaced([y \in Names(m_pool) \ gone |-> m_pool[y]], fileName[t], file[t])
  OBVIOUS
<1>2. /\ Names(m_pool') = (Names(m_pool) \ gone) \cup {fileName[t]}
      /\ \A f \in Names(m_pool') :
           \/ f \in Names(m_pool) /\ m_pool'[f] = m_pool[f]
           \/ f = fileName[t] /\ m_pool'[f] = file[t]
  BY <1>1 DEF Emplaced, With
<1>3. UNCHANGED <<opened, fileName, it, file, stale, fds, destroyed>> /\ pc[t] = "insert" /\ ret'[t] = m_pool'[fileName[t]]
  BY DEF Evicted, FilesInv, TypeOK
<1>4. ~destroyed /\ file[t] \in 1..fds
  BY <1>3 DEF FilesInv, TypeOK, HoldsOpen, IsOf
<1>5. \A f \in Names(m_pool)' : IsOf(m_pool[f], f)'
  <2>1. IsOf(file[t], fileName[t]) /\ \A f \in Names(m_pool) : IsOf(m_pool[f], f)
    BY <1>3, <1>4 DEF FilesInv, HoldsOpen
  <2>. QED BY <1>2, <1>3, <2>1 DEF IsOf
<1>6. TypeOK'
  <2>1. /\ Names(m_pool') \subseteq Files
        /\ \A f \in Names(m_pool') : m_pool'[f] \in 1..fds
    BY <1>2, <1>4 DEF FilesInv, TypeOK
  <2>2. ret' \in [Threads -> 1..MaxFd \cup {none}]
    <3>1. m_pool'[fileName[t]] \in 1..fds /\ fds \in 0..MaxFd
      BY <1>2, <2>1 DEF FilesInv, TypeOK
    <3>2. m_pool'[fileName[t]] \in 1..MaxFd
      BY <3>1, FilesAssumption
    <3>. QED BY <1>3, <3>2 DEF FilesInv, TypeOK
  <2>. QED BY <1>3, <2>1, <2>2 DEF FilesInv, TypeOK
<1>7. Limits'
  <2> DEFINE S == Names(m_pool)
  <2>1. IsFiniteSet(S) /\ Cardinality(S) <= MAX_SHARED_FILE
    BY DEF FilesInv, Bounded
  <2>2. gone \in IF Full(Cardinality(S)) THEN {{x} : x \in S} ELSE {{}}
    OBVIOUS
  <2>3. /\ IsFiniteSet((S \ gone) \cup {fileName[t]})
        /\ Cardinality((S \ gone) \cup {fileName[t]}) <= MAX_SHARED_FILE
    <3>. HIDE DEF S
    <3>. QED BY <2>1, <2>2, OneForOne
  <2>. QED BY <1>2, <2>3 DEF FilesInv, Limits, Bounded
<1>8. OpenFiles'
  <2>1. /\ pc'[t] = "idle" /\ ret'[t] = m_pool'[fileName[t]]
        /\ \A u \in Threads \ {t} : pc'[u] = pc[u] /\ ret'[u] = ret[u]
    BY DEF FilesInv, TypeOK
  <2>2. HoldsOpen(t)'
    <3>. USE DEF IsOf
    <3>. HIDE DEF Insert
    <3>1. fileName[t] \in Names(m_pool')
      BY <1>2
    <3>2. ret'[t] \in DOMAIN opened' /\ opened'[ret'[t]] = fileName[t]
      BY <1>5, <2>1, <3>1
    <3>. QED BY <1>3, <2>1, <3>2 DEF HoldsOpen
  <2>3. OpenFiles
    BY DEF FilesInv, OpenFiles
  <2>. QED BY <1>3, <1>4, <1>5, <2>1, <2>2, <2>3, OthersHold
<1>. QED BY <1>6, <1>7, <1>8 DEF FilesInv, Limits, OpenFiles

LEMMA FinalInv ==
  ASSUME FilesInv, (\E t \in Threads : InsertThrows(t)) \/ Destroy
  PROVE  FilesInv'
<1>1. CASE \E t \in Threads : InsertThrows(t)
  <2>1. TypeOK'
    BY <1>1 DEF InsertThrows, FilesInv, TypeOK, Names
  <2>2. Limits'
    BY <1>1 DEF InsertThrows, FilesInv, Limits, Bounded, Names
  <2>3. ~destroyed /\ UNCHANGED <<destroyed, m_pool, opened>>
    BY <1>1 DEF InsertThrows, FilesInv
  <2>4. \A t \in Threads : pc'[t] = "terminated"
    BY <1>1 DEF InsertThrows
  <2>5. \A f \in Names(m_pool)' : IsOf(m_pool[f], f)'
    BY <2>3 DEF FilesInv, IsOf, Names
  <2>6. \A t \in Threads : HoldsOpen(t)'
    BY <2>4 DEF HoldsOpen
  <2>7. OpenFiles'
    BY <2>3, <2>5, <2>6 DEF OpenFiles
  <2>. QED BY <2>1, <2>2, <2>7 DEF FilesInv, Limits, OpenFiles
<1>2. CASE Destroy
  <2>1. /\ DOMAIN opened' \subseteq DOMAIN opened
        /\ \A d \in DOMAIN opened' : opened'[d] = opened[d]
        /\ UNCHANGED <<m_pool, m_invalidPaths, pc, fileName, it, file, ret, stale, exists, fds, changes>>
    BY <1>2 DEF Destroy, locals
  <2>2. TypeOK'
    BY <1>2, <2>1 DEF Destroy, FilesInv, TypeOK, Names
  <2>3. Limits'
    BY <2>1 DEF FilesInv, Limits, Bounded, Names
  <2>4. OpenFiles'
    BY <1>2, <2>1 DEF Destroy, OpenFiles
  <2>. QED BY <2>2, <2>3, <2>4 DEF FilesInv, Limits, OpenFiles
<1>. QED BY <1>1, <1>2

LEMMA ChangeInv ==
  ASSUME FilesInv, (\E f \in Files : Change(f)) \/ UNCHANGED vars
  PROVE  FilesInv'
<1>1. /\ UNCHANGED <<m_pool, m_invalidPaths, pc, fileName, it, file, ret, stale, opened, fds, destroyed>>
      /\ exists' \subseteq Files /\ changes' \in 0..MaxChanges
  BY FilesAssumption DEF Change, vars, locals, FilesInv, TypeOK
<1>2. TypeOK'
  BY <1>1 DEF FilesInv, TypeOK, Names
<1>. QED BY <1>1, <1>2 DEF FilesInv, Bounded, HoldsOpen, IsOf, Names

LEMMA FilesNext ==
  ASSUME FilesInv, [Next]_vars
  PROVE  FilesInv'
<1>1. ASSUME NEW t \in Threads, Get(t) PROVE FilesInv'
  BY <1>1, FindInv, LookInv, ErasedInv, OpenInv, RejectInv, InsertInv, FinalInv DEF Get
<1>. QED BY <1>1, FinalInv, ChangeInv DEF Next

(* The inductive invariant: the tables keep to their limits, and what the    *)
(* table and the threads that have just opened a file hold is open and that  *)
(* very file; a reply, too, unless it came from an erased entry.             *)
THEOREM FilesInvariant == Spec => []FilesInv
<1>1. Init => FilesInv
  <2>. SUFFICES ASSUME Init PROVE FilesInv
    OBVIOUS
  <2>1. Names(m_pool) = {} /\ m_invalidPaths = {} /\ DOMAIN opened = {}
    BY DEF Init, Names
  <2>2. TypeOK
    <3>1. fds \in 0..MaxFd /\ changes \in 0..MaxChanges
      BY FilesAssumption DEF Init
    <3>4. /\ destroyed \in BOOLEAN
          /\ pc \in [Threads -> {"idle", "deref", "check", "open", "insert", "reject", "terminated"}]
      BY DEF Init
    <3>2. /\ fileName \in [Threads -> Files] /\ exists \subseteq Files
          /\ it \in [Threads -> 1..fds \cup {end}] /\ ret \in [Threads -> 1..MaxFd \cup {none}]
          /\ stale \in [Threads -> BOOLEAN]
      BY DEF Init
    <3>3. file \in [Threads -> 0..fds]
      BY DEF Init
    <3>. QED BY <2>1, <3>1, <3>2, <3>3, <3>4 DEF TypeOK
  <2>3. Bounded /\ IsFiniteSet(Names(m_pool)) /\ IsFiniteSet(m_invalidPaths)
    BY <2>1, FS_EmptySet, FilesAssumption DEF Bounded
  <2>. QED BY <2>1, <2>2, <2>3 DEF Init, FilesInv, HoldsOpen
<1>2. FilesInv /\ [Next]_vars => FilesInv'
  BY FilesNext
<1>. QED BY <1>1, <1>2, PTL DEF Spec

(* sharedfilepool.cpp, MAX_SHARED_FILE: neither table outgrows its limit,    *)
(* however many threads find the same file missing at once.                  *)
THEOREM TablesAreBounded == Spec => []Bounded
<1>1. FilesInv => Bounded
  BY DEF FilesInv
<1>. QED BY <1>1, FilesInvariant, PTL

(* sharedfilepool.cpp, get: what it returns is an open descriptor of the     *)
(* file that was asked for and stays one while the handler sends, evictions  *)
(* and second openings by other threads or not - unless get has used the     *)
(* iterator of an erased entry (line 71).                                    *)
THEOREM HandlersSendTheRightFile == Spec => []ReturnedIsOpen
<1>1. FilesInv => ReturnedIsOpen
  BY DEF FilesInv, ReturnedIsOpen, Answered, HoldsOpen, IsOf
<1>. QED BY <1>1, FilesInvariant, PTL

(* A table with room for every file is never full.                           *)
LEMMA NeverFull ==
  ASSUME FilesInv, IsFiniteSet(Files), Cardinality(Files) < MAX_SHARED_FILE
  PROVE  ~Full(Cardinality(Names(m_pool)))
<1>1. Names(m_pool) \subseteq Files
  BY DEF FilesInv, TypeOK
<1>2. /\ Cardinality(Names(m_pool)) <= Cardinality(Files)
      /\ Cardinality(Names(m_pool)) \in Nat /\ Cardinality(Files) \in Nat
  BY <1>1, FS_Subset, FS_CardinalityType
<1>. QED BY <1>2, FilesAssumption DEF Full

(* sharedfilepool.cpp, lines 28 and 71: with more room in the table than     *)
(* there are files to ask for, no entry is ever erased, so that every        *)
(* iterator is good when it is used and every reply is right.  The limit of  *)
(* 128 entries is what the unlocked use of the iterator rests on.            *)
NoneErased == IteratorValid /\ \A t \in Threads : ~stale[t]

THEOREM SafeWhileNotFull ==
  ASSUME IsFiniteSet(Files), Cardinality(Files) < MAX_SHARED_FILE
  PROVE  Spec => [](IteratorValid /\ AlwaysReturnedIsOpen)
<1>1. Init => NoneErased
  BY DEF Init, NoneErased, IteratorValid
<1>2. FilesInv /\ NoneErased /\ [Next]_vars => NoneErased'
  <2>. SUFFICES ASSUME FilesInv, NoneErased, [Next]_vars PROVE NoneErased'
    OBVIOUS
  <2>1. ASSUME NEW t \in Threads, NEW f \in Files, Find(t, f) PROVE NoneErased'
    BY <2>1 DEF Find, NoneErased, IteratorValid, EntryLives, FilesInv, TypeOK, Names
  <2>2. ASSUME NEW t \in Threads, DerefErased(t) PROVE NoneErased'
    BY <2>2 DEF DerefErased, NoneErased, IteratorValid
  <2>3. ASSUME NEW t \in Threads,
               \/ Deref(t) \/ CheckInvalid(t) \/ Open(t)
               \/ OpenFails(t) \/ Reject(t) \/ InsertThrows(t)
        PROVE  NoneErased'
    <3>1. /\ UNCHANGED <<m_pool, fileName, it, stale>>
          /\ \A u \in Threads : pc'[u] = "deref" => pc[u] = "deref"
      BY <2>3 DEF Deref, CheckInvalid, Open, OpenFails, Reject, InsertThrows, FilesInv, TypeOK
    <3>. QED BY <3>1 DEF NoneErased, IteratorValid, EntryLives, Names
  <2>4. ASSUME NEW t \in Threads, Insert(t) PROVE NoneErased'
    <3>1. m_pool' = Emplaced([y \in Names(m_pool) \ {} |-> m_pool[y]], fileName[t], file[t])
      BY <2>4, NeverFull DEF Insert
    <3>2. \A f \in Names(m_pool) : f \in Names(m_pool') /\ m_pool'[f] = m_pool[f]
      BY <3>1 DEF Emplaced, With, Names
    <3>3. /\ UNCHANGED <<fileName, it, stale>>
          /\ \A u \in Threads : pc'[u] = "deref" => pc[u] = "deref"
      BY <2>4 DEF Insert, FilesInv, TypeOK
    <3>. QED BY <3>2, <3>3 DEF NoneErased, IteratorValid, EntryLives, Names
  <2>5. ASSUME Destroy \/ (\E f \in Files : Change(f)) \/ UNCHANGED vars PROVE NoneErased'
    BY <2>5 DEF Destroy, Change, vars, locals, NoneErased, IteratorValid, EntryLives, Names
  <2>. QED BY <2>1, <2>2, <2>3, <2>4, <2>5 DEF Next, Get
<1>3. FilesInv /\ NoneErased => IteratorValid /\ AlwaysReturnedIsOpen
  BY DEF FilesInv, NoneErased, AlwaysReturnedIsOpen, Answered, HoldsOpen
<1>. QED BY <1>1, <1>2, <1>3, FilesInvariant, PTL DEF Spec

-----------------------------------------------------------------------------
(* The thread pool. *)

(* The steps, one by one. *)
LEMMA PoolSteps ==
  ASSUME [PoolNext]_poolVars
  PROVE  \/ \E t \in Tasks : Enqueue(t)
         \/ Notify \/ Stop \/ NotifyAll \/ Join \/ UNCHANGED poolVars
         \/ \E w \in Workers : Lock(w) \/ TestFails(w) \/ Wait(w) \/ Return(w) \/ Take(w) \/ Run(w)
                               \/ WakeSpuriously(w)
BY Zenon DEF PoolNext, Owner, Worker

(* A task stays where it is unless queue, hands or results change.           *)
LEMMA OnceKept ==
  ASSUME TaskOnce, UNCHANGED <<m_tasks, task, enqueued, done>>
  PROVE  TaskOnce'
BY DEF TaskOnce, InOnePlace, Queued, Taken

LEMMA EnqueueOnce ==
  ASSUME PoolInv, NEW t \in Tasks, Enqueue(t)
  PROVE  TaskOnce' /\ m_tasks' \in Seq(Tasks)
<1>1. /\ m_tasks \in Seq(Tasks) /\ t \notin enqueued /\ enqueued' = enqueued \cup {t}
      /\ m_tasks' = Append(m_tasks, t) /\ UNCHANGED <<task, done>>
  BY DEF PoolInv, PoolTypeOK, Enqueue
<1> DEFINE n == Len(m_tasks)
<1>2. /\ n \in Nat /\ m_tasks' \in Seq(Tasks) /\ Len(m_tasks') = n + 1 /\ m_tasks'[n + 1] = t
      /\ \A i \in 1..n : m_tasks'[i] = m_tasks[i]
  BY <1>1
<1>3. Queued(t) = {} /\ Taken(t) = {} /\ done[t] = 0
  BY <1>1 DEF PoolInv, TaskOnce
<1>4. Queued(t)' = {n + 1}
  BY <1>2, <1>3 DEF Queued
<1>5. \A s \in Tasks : Taken(s)' = Taken(s)
  BY <1>1 DEF Taken
<1>6. InOnePlace(t)'
  BY <1>1, <1>3, <1>4, <1>5 DEF InOnePlace
<1>7. ASSUME NEW s \in Tasks \ {t}
      PROVE  IF s \in enqueued' THEN InOnePlace(s)' ELSE Queued(s)' = {} /\ Taken(s)' = {} /\ done'[s] = 0
  <2>1. Queued(s)' = Queued(s)
    BY <1>2 DEF Queued
  <2>. QED BY <1>1, <1>5, <2>1 DEF PoolInv, TaskOnce, InOnePlace
<1>. QED BY <1>1, <1>2, <1>6, <1>7 DEF TaskOnce

LEMMA TakeOnce ==
  ASSUME PoolInv, NEW w \in Workers, Take(w)
  PROVE  TaskOnce' /\ m_tasks' \in Seq(Tasks) /\ Head(m_tasks) \in Tasks
<1>0. m_tasks \in Seq(Tasks) /\ m_tasks # <<>>
  BY DEF PoolInv, PoolTypeOK, Take, MustWait, Exits
<1>. PICK h \in Tasks : h = Head(m_tasks)
  BY <1>0
<1>. PICK n \in Nat : n = Len(m_tasks)
  BY <1>0
<1>1. /\ m_tasks' = Tail(m_tasks)
      /\ task' = [task EXCEPT ![w] = {h}] /\ task \in [Workers -> SUBSET Tasks]
      /\ task[w] = {} /\ UNCHANGED <<enqueued, done>>
  BY DEF PoolInv, PoolTypeOK, Take, Popped
<1>2. /\ n > 0 /\ h = m_tasks[1]
      /\ m_tasks' \in Seq(Tasks) /\ Len(m_tasks') = n - 1
      /\ \A i \in 1..n - 1 : m_tasks'[i] = m_tasks[i + 1]
  BY <1>0, <1>1
<1>3. \A s \in Tasks : Queued(s)' = {i \in 1..n - 1 : i + 1 \in Queued(s)}
  BY <1>2 DEF Queued
<1>4. 1 \in Queued(h)
  BY <1>2 DEF Queued
<1>5. h \in enqueued /\ InOnePlace(h)
  BY <1>2, <1>4 DEF PoolInv, TaskOnce
<1>6. InOnePlace(h)'
  <2>1. Queued(h)' = {}
    <3>1. \A i \in Queued(h) : i = 1
      BY <1>4, <1>5 DEF InOnePlace
    <3>2. \A i \in 1..n - 1 : i + 1 # 1
      OBVIOUS
    <3>. QED BY <1>3, <3>1, <3>2
  <2>2. Taken(h)' = {w}
    <3>1. Taken(h) = {}
      BY <1>4, <1>5 DEF InOnePlace
    <3>. QED BY <1>1, <3>1 DEF Taken
  <2>3. done'[h] = 0
    BY <1>1, <1>4, <1>5 DEF InOnePlace
  <2>. QED BY <2>1, <2>2, <2>3 DEF InOnePlace
<1>7. ASSUME NEW s \in Tasks \ {h}
      PROVE  IF s \in enqueued' THEN InOnePlace(s)' ELSE Queued(s)' = {} /\ Taken(s)' = {} /\ done'[s] = 0
  <2>1. Taken(s)' = Taken(s)
    BY <1>1 DEF Taken
  <2>2. Queued(s) \subseteq 2..n
    BY <1>2 DEF Queued
  <2>3. \A i \in Queued(s) : i - 1 \in Queued(s)'
    BY <1>2, <1>3, <2>2
  <2>4. \A i \in Queued(s)' : i + 1 \in Queued(s) /\ i \in Nat
    BY <1>2, <1>3
  <2>5. CASE s \in enqueued
    <3>1. InOnePlace(s)
      BY <2>5 DEF PoolInv, TaskOnce
    <3>2. \A i, j \in Queued(s)' : i = j
      BY <2>4, <3>1 DEF InOnePlace
    <3>3. Queued(s)' = {} <=> Queued(s) = {}
      BY <2>3, <2>4
    <3>. QED BY <1>1, <2>1, <2>5, <3>1, <3>2, <3>3 DEF InOnePlace
  <2>6. CASE s \notin enqueued
    BY <1>1, <2>1, <2>4, <2>6 DEF PoolInv, TaskOnce
  <2>. QED BY <1>1, <2>5, <2>6
<1>. QED BY <1>1, <1>2, <1>5, <1>6, <1>7 DEF TaskOnce

LEMMA RunOnce ==
  ASSUME PoolInv, NEW w \in Workers, Run(w)
  PROVE  TaskOnce'
<1>1. /\ done' = [t \in Tasks |-> IF t \in task[w] THEN done[t] + 1 ELSE done[t]]
      /\ task' = [task EXCEPT ![w] = {}] /\ UNCHANGED <<m_tasks, enqueued>>
      /\ task \in [Workers -> SUBSET Tasks] /\ done \in [Tasks -> Nat]
  BY DEF PoolInv, PoolTypeOK, Run
<1>. SUFFICES ASSUME NEW t \in Tasks
             PROVE  IF t \in enqueued' THEN InOnePlace(t)' ELSE Queued(t)' = {} /\ Taken(t)' = {} /\ done'[t] = 0
  BY DEF TaskOnce
<1>2. Queued(t)' = Queued(t) /\ Taken(t)' = Taken(t) \ {w}
  BY <1>1 DEF Queued, Taken
<1>3. CASE t \in task[w]
  <2>1. w \in Taken(t)
    BY <1>3 DEF Taken
  <2>2. t \in enqueued /\ InOnePlace(t)
    BY <2>1 DEF PoolInv, TaskOnce
  <2>3. Taken(t)' = {} /\ Queued(t)' = {}
    BY <1>2, <2>1, <2>2 DEF InOnePlace
  <2>4. done[t] = 0
    BY <2>1, <2>2 DEF InOnePlace
  <2>5. done'[t] = 1
    BY <1>1, <1>3, <2>4
  <2>. QED BY <1>1, <2>2, <2>3, <2>5 DEF InOnePlace
<1>4. CASE t \notin task[w]
  <2>1. Taken(t)' = Taken(t) /\ done'[t] = done[t]
    BY <1>1, <1>2, <1>4 DEF Taken
  <2>. QED BY <1>1, <1>2, <2>1 DEF PoolInv, TaskOnce, InOnePlace
<1>. QED BY <1>3, <1>4

LEMMA PoolStepInv ==
  ASSUME PoolInv, [PoolNext]_poolVars
  PROVE  PoolInv'
<1>. USE PoolAssumption
<1>1. ASSUME UNCHANGED poolVars PROVE PoolInv'
  <2>1. TaskOnce'
    BY <1>1, OnceKept DEF poolVars, PoolInv
  <2>. QED BY <1>1, <2>1 DEF poolVars, PoolInv, PoolTypeOK
<1>2. ASSUME NEW t \in Tasks, Enqueue(t) PROVE PoolInv'
  <2>1. TaskOnce' /\ m_tasks' \in Seq(Tasks)
    BY <1>2, EnqueueOnce
  <2>2. PoolTypeOK'
    BY <1>2, <2>1 DEF Enqueue, PoolInv, PoolTypeOK
  <2>3. \A w \in Workers : at[w] # "returned"
    BY <1>2 DEF Enqueue, PoolInv
  <2>. QED BY <1>2, <2>1, <2>2, <2>3 DEF Enqueue, PoolInv
<1>3. ASSUME Notify \/ NotifyAll PROVE PoolInv'
  <2>1. TaskOnce'
    BY <1>3, OnceKept DEF Notify, NotifyAll, PoolInv
  <2>2. PICK W \in SUBSET m_condition :
          /\ m_condition' = m_condition \ W
          /\ at' = [w \in Workers |-> IF w \in W THEN "lock" ELSE at[w]]
    <3>1. CASE Notify
      BY <3>1 DEF Notify, Woken
    <3>2. CASE NotifyAll
      BY <3>2 DEF NotifyAll
    <3>. QED BY <1>3, <3>1, <3>2
  <2>3. \A w \in W : at[w] = "asleep"
    BY DEF PoolInv, PoolTypeOK
  <2>4. PoolTypeOK'
    BY <1>3, <2>2, <2>3 DEF Notify, NotifyAll, PoolInv, PoolTypeOK
  <2>. QED BY <1>3, <2>1, <2>2, <2>3, <2>4 DEF Notify, NotifyAll, PoolInv
<1>4. ASSUME Stop \/ Join PROVE PoolInv'
  <2>1. TaskOnce'
    BY <1>4, OnceKept DEF Stop, Join, PoolInv
  <2>2. PoolTypeOK'
    BY <1>4 DEF Stop, Join, PoolInv, PoolTypeOK
  <2>. QED BY <1>4, <2>1, <2>2 DEF Stop, Join, PoolInv
<1>5. ASSUME NEW w \in Workers, Lock(w) \/ TestFails(w) \/ Wait(w) \/ Return(w) \/ WakeSpuriously(w)
      PROVE  PoolInv'
  <2>1. TaskOnce'
    BY <1>5, OnceKept DEF Lock, TestFails, Wait, Return, WakeSpuriously, PoolInv
  <2>2. PoolTypeOK'
    <3>1. CASE Lock(w) \/ TestFails(w)
      BY <3>1 DEF Lock, TestFails, PoolInv, PoolTypeOK
    <3>2. CASE Wait(w)
      BY <3>2 DEF Wait, PoolInv, PoolTypeOK
    <3>3. CASE Return(w)
      BY <3>3 DEF Return, PoolInv, PoolTypeOK
    <3>4. CASE WakeSpuriously(w)
      BY <3>4 DEF WakeSpuriously, PoolInv, PoolTypeOK
    <3>. QED BY <1>5, <3>1, <3>2, <3>3, <3>4
  <2>3. /\ UNCHANGED <<m_tasks, m_stop, task, owner>>
        /\ at[w] \notin {"returned", "run"}
        /\ \A v \in Workers \ {w} : at'[v] = at[v]
        /\ at'[w] = "returned" => m_stop /\ m_tasks = <<>>
    <3>1. CASE Lock(w) \/ TestFails(w) \/ Wait(w)
      BY <3>1 DEF Lock, TestFails, Wait, PoolInv, PoolTypeOK
    <3>2. CASE Return(w)
      BY <3>2 DEF Return, Exits, PoolInv, PoolTypeOK
    <3>3. CASE WakeSpuriously(w)
      BY <3>3 DEF WakeSpuriously, PoolInv, PoolTypeOK
    <3>. QED BY <1>5, <3>1, <3>2, <3>3
  <2>. QED BY <2>1, <2>2, <2>3 DEF PoolInv
<1>6. ASSUME NEW w \in Workers, Take(w) PROVE PoolInv'
  <2>1. TaskOnce' /\ m_tasks' \in Seq(Tasks) /\ Head(m_tasks) \in Tasks
    BY <1>6, TakeOnce
  <2>2. PoolTypeOK'
    BY <1>6, <2>1 DEF Take, PoolInv, PoolTypeOK
  <2>3. /\ UNCHANGED <<m_stop, owner>> /\ at[w] = "test" /\ at'[w] = "run" /\ m_tasks # <<>>
        /\ \A v \in Workers \ {w} : at'[v] = at[v] /\ task'[v] = task[v]
    BY <1>6 DEF Take, MustWait, Exits, PoolInv, PoolTypeOK
  <2>. QED BY <2>1, <2>2, <2>3 DEF PoolInv
<1>7. ASSUME NEW w \in Workers, Run(w) PROVE PoolInv'
  <2>1. TaskOnce'
    BY <1>7, RunOnce
  <2>2. PoolTypeOK'
    <3>1. done' \in [Tasks -> Nat]
      BY <1>7 DEF Run, PoolInv, PoolTypeOK
    <3>. QED BY <1>7, <3>1 DEF Run, PoolInv, PoolTypeOK
  <2>3. /\ UNCHANGED <<m_tasks, m_stop, owner>> /\ at[w] = "run" /\ at'[w] = "lock" /\ task'[w] = {}
        /\ \A v \in Workers \ {w} : at'[v] = at[v] /\ task'[v] = task[v]
    BY <1>7 DEF Run, PoolInv, PoolTypeOK
  <2>. QED BY <2>1, <2>2, <2>3 DEF PoolInv
<1>. QED BY Zenon, PoolSteps, <1>1, <1>2, <1>3, <1>4, <1>5, <1>6, <1>7

(* The inductive invariant of the pool.                                      *)
THEOREM PoolInvariant == PoolSpec => []PoolInv
<1>1. PoolInit => PoolInv
  <2>1. ASSUME PoolInit PROVE PoolTypeOK
    <3>1. \A w \in Workers : m_mutex # w /\ at[w] = "lock"
      BY <2>1, PoolAssumption DEF PoolInit
    <3>2. m_tasks \in Seq(Tasks)
      <4>1. <<>> \in Seq(Tasks)
        OBVIOUS
      <4>. QED BY <2>1, <4>1 DEF PoolInit
    <3>5. m_stop \in BOOLEAN
      BY <2>1 DEF PoolInit
    <3>3. at \in [Workers -> {"lock", "test", "wait", "asleep", "run", "returned"}]
      BY <2>1 DEF PoolInit
    <3>4. task \in [Workers -> SUBSET Tasks] /\ done \in [Tasks -> Nat]
      BY <2>1 DEF PoolInit
    <3>. QED BY <2>1, <3>1, <3>2, <3>3, <3>4, <3>5 DEF PoolInit, PoolTypeOK
  <2>2. ASSUME PoolInit PROVE TaskOnce
    BY <2>2 DEF PoolInit, TaskOnce, Queued, Taken
  <2>. QED BY <2>1, <2>2 DEF PoolInit, PoolInv
<1>2. PoolInv /\ [PoolNext]_poolVars => PoolInv'
  BY PoolStepInv
<1>. QED BY <1>1, <1>2, PTL DEF PoolSpec

(* threadpool.h: a task is in the queue once, in the hands of one worker, or *)
(* was run once.                                                             *)
THEOREM NoTaskLostOrDoubled == PoolSpec => []TaskOnce
<1>1. PoolInv => TaskOnce
  BY DEF PoolInv
<1>. QED BY <1>1, PoolInvariant, PTL

(* ~ThreadPool comes back only when every task that was enqueued has run, if *)
(* the pool has a worker at all (the default, hardware_concurrency, may be   *)
(* 0: the destructor of such a pool drops what is in the queue).             *)
THEOREM DestructorWaits ==
  ASSUME Workers # {}
  PROVE  PoolSpec => []JoinedMeansDone
<1>1. PoolInv => JoinedMeansDone
  <2>. SUFFICES ASSUME PoolInv, owner = "joined", NEW t \in enqueued PROVE done[t] = 1
    BY DEF JoinedMeansDone
  <2>1. t \in Tasks /\ InOnePlace(t)
    BY DEF PoolInv, PoolTypeOK, TaskOnce
  <2>2. m_tasks = <<>> /\ \A w \in Workers : task[w] = {}
    BY DEF PoolInv
  <2>3. Queued(t) = {} /\ Taken(t) = {}
    BY <2>2 DEF Queued, Taken
  <2>. QED BY <2>1, <2>3 DEF InOnePlace
<1>. QED BY <1>1, PoolInvariant, PTL
=============================================================================
