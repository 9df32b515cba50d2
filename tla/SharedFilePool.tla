---------------------------- MODULE SharedFilePool ----------------------------
(***************************************************************************)
(* SharedFilePool (src/util/sharedfilepool.cpp): the table of open files   *)
(* that the handlers of all loops share through get().  get() takes the    *)
(* lock up to three times; between the locked sections other threads run,  *)
(* and files of the shared directory come and go.  An entry of m_pool is   *)
(* its descriptor; no two open()s return the same one, as none is closed   *)
(* while the pool lives.  An iterator is a reference to an entry, which    *)
(* the descriptor names; it is good for as long as the entry lives.        *)
(***************************************************************************)
EXTENDS Integers, FiniteSets

CONSTANTS
  Threads,         \* the threads that call get
  Files,           \* names of files
  MAX_SHARED_FILE,
  MaxFd,           \* bound: descriptors opened
  MaxChanges,      \* bound: files created or removed
  end,             \* m_pool.end()
  none             \* the empty optional

ASSUME FilesAssumption ==
  /\ MAX_SHARED_FILE \in Nat \ {0}
  /\ MaxFd \in Nat
  /\ MaxChanges \in Nat
  /\ end \notin Nat
  /\ none \notin Nat

VARIABLES
  m_pool,         \* [set of names -> descriptor]
  m_invalidPaths,
  pc,             \* where each thread is in get
  fileName,       \* its argument
  it,             \* its iterator: the entry, named by its descriptor, or end
  file,           \* the descriptor it has just opened
  ret,            \* what its last get returned
  stale,          \* history: whether that get used the iterator of an erased entry
  exists,         \* the files of the shared directory
  opened,         \* the kernel: the file behind each open descriptor
  fds,            \* descriptors given out so far
  changes,
  destroyed       \* ~SharedFilePool has run

locals == <<pc, fileName, it, file, ret, stale>>
vars == <<m_pool, m_invalidPaths, locals, exists, opened, fds, changes, destroyed>>

Names(f) == DOMAIN f
Without(f, x) == [y \in DOMAIN f \ {x} |-> f[y]]
With(f, x, v) == [y \in DOMAIN f \cup {x} |-> IF y = x THEN v ELSE f[y]]

Init ==
  /\ m_pool = [x \in {} |-> 0]
  /\ m_invalidPaths = {}
  /\ pc = [t \in Threads |-> "idle"]
  /\ fileName \in [Threads -> Files]
  /\ it = [t \in Threads |-> end]
  /\ file = [t \in Threads |-> 0]
  /\ ret = [t \in Threads |-> none]
  /\ stale = [t \in Threads |-> FALSE]
  /\ exists \in SUBSET Files
  /\ opened = [x \in {} |-> 0]
  /\ fds = 0
  /\ changes = 0
  /\ destroyed = FALSE

-----------------------------------------------------------------------------
(* get(fileName), in the order of the code. *)

\* The first lock: find.
Find(t, f) ==
  /\ pc[t] = "idle"
  /\ ~destroyed
  /\ fileName' = [fileName EXCEPT ![t] = f]
  /\ it' = [it EXCEPT ![t] = IF f \in Names(m_pool) THEN m_pool[f] ELSE end]
  /\ stale' = [stale EXCEPT ![t] = FALSE]
  /\ pc' = [pc EXCEPT ![t] = IF f \in Names(m_pool) THEN "deref" ELSE "check"]
  /\ UNCHANGED <<m_pool, m_invalidPaths, file, ret, exists, opened, fds, changes, destroyed>>

\* The entry that the iterator points at is still in the table.
EntryLives(t) == fileName[t] \in Names(m_pool) /\ m_pool[fileName[t]] = it[t]

\* return {it->second}, for which no lock is held.
Deref(t) ==
  /\ pc[t] = "deref"
  /\ EntryLives(t)
  /\ ret' = [ret EXCEPT ![t] = m_pool[fileName[t]]]
  /\ pc' = [pc EXCEPT ![t] = "idle"]
  /\ UNCHANGED <<m_pool, m_invalidPaths, fileName, it, file, stale, exists, opened, fds,
                 changes, destroyed>>

\* The same when another thread has erased the entry meanwhile: what the freed
\* memory holds is returned, any number, or reading it ends the process.
DerefErased(t) ==
  /\ pc[t] = "deref"
  /\ ~EntryLives(t)
  /\ \/ /\ \E d \in 1..MaxFd : ret' = [ret EXCEPT ![t] = d]
        /\ stale' = [stale EXCEPT ![t] = TRUE]
        /\ pc' = [pc EXCEPT ![t] = "idle"]
     \/ /\ pc' = [u \in Threads |-> "terminated"]
        /\ UNCHANGED <<ret, stale>>
  /\ UNCHANGED <<m_pool, m_invalidPaths, fileName, it, file, exists, opened, fds,
                 changes, destroyed>>

\* The second lock: is the path known to be invalid?
CheckInvalid(t) ==
  /\ pc[t] = "check"
  /\ IF fileName[t] \in m_invalidPaths
     THEN pc' = [pc EXCEPT ![t] = "idle"] /\ ret' = [ret EXCEPT ![t] = none]
     ELSE pc' = [pc EXCEPT ![t] = "open"] /\ UNCHANGED ret
  /\ UNCHANGED <<m_pool, m_invalidPaths, fileName, it, file, stale, exists, opened, fds,
                 changes, destroyed>>

\* is_regular_file and open, without a lock.
Open(t) ==
  /\ pc[t] = "open"
  /\ fileName[t] \in exists
  /\ fds < MaxFd
  /\ fds' = fds + 1
  /\ opened' = With(opened, fds', fileName[t])
  /\ file' = [file EXCEPT ![t] = fds']
  /\ pc' = [pc EXCEPT ![t] = "insert"]
  /\ UNCHANGED <<m_pool, m_invalidPaths, fileName, it, ret, stale, exists, changes, destroyed>>

\* They fail: no such file, or open finds no free descriptor.
OpenFails(t) ==
  /\ pc[t] = "open"
  /\ pc' = [pc EXCEPT ![t] = "reject"]
  /\ UNCHANGED <<m_pool, m_invalidPaths, fileName, it, file, ret, stale, exists, opened, fds,
                 changes, destroyed>>

\* Mutant of Full: > for >=.
Full_late(n) == n > MAX_SHARED_FILE
Full(n) == n >= MAX_SHARED_FILE

\* Under the write lock: the path is remembered as invalid, for which any other
\* (begin() of an unordered set) may have to go.
Reject(t) ==
  /\ pc[t] = "reject"
  /\ \E gone \in (IF Full(Cardinality(m_invalidPaths))
                  THEN {{x} : x \in m_invalidPaths} ELSE {{}}) :
       m_invalidPaths' = (m_invalidPaths \ gone) \cup {fileName[t]}
  /\ ret' = [ret EXCEPT ![t] = none]
  /\ pc' = [pc EXCEPT ![t] = "idle"]
  /\ UNCHANGED <<m_pool, fileName, it, file, stale, exists, opened, fds, changes, destroyed>>

\* What erase does to the descriptors of the entries gone.  Mutant: it closes them.
Evicted_closes(gone) == opened' = [d \in DOMAIN opened \ {m_pool[x] : x \in gone} |-> opened[d]]
Evicted(gone) == UNCHANGED opened

\* emplace keeps the entry that is there; its descriptor is returned.
Emplaced(pool, f, d) == IF f \in Names(pool) THEN pool ELSE With(pool, f, d)

\* Under the write lock; file_size and last_write_time find the file.  A full
\* pool loses begin(), any of its entries, also when emplace will add nothing.
Insert(t) ==
  /\ pc[t] = "insert"
  /\ fileName[t] \in exists
  /\ \E gone \in (IF Full(Cardinality(Names(m_pool)))
                  THEN {{x} : x \in Names(m_pool)} ELSE {{}}) :
       /\ m_pool' = Emplaced([y \in Names(m_pool) \ gone |-> m_pool[y]], fileName[t], file[t])
       /\ Evicted(gone)
  /\ ret' = [ret EXCEPT ![t] = m_pool'[fileName[t]]]
  /\ pc' = [pc EXCEPT ![t] = "idle"]
  /\ UNCHANGED <<m_invalidPaths, fileName, it, file, stale, exists, fds, changes, destroyed>>

\* The file was removed after open: file_size throws, and nothing up to the
\* thread's function catches it: std::terminate.
InsertThrows(t) ==
  /\ pc[t] = "insert"
  /\ fileName[t] \notin exists
  /\ pc' = [u \in Threads |-> "terminated"]
  /\ UNCHANGED <<m_pool, m_invalidPaths, fileName, it, file, ret, stale, exists, opened, fds,
                 changes, destroyed>>

Get(t) ==
  \/ \E f \in Files : Find(t, f)
  \/ Deref(t)
  \/ DerefErased(t)
  \/ CheckInvalid(t)
  \/ Open(t)
  \/ OpenFails(t)
  \/ Reject(t)
  \/ Insert(t)
  \/ InsertThrows(t)

\* The descriptors ~SharedFilePool closes.
Closed == {m_pool[x] : x \in Names(m_pool)}

\* ~SharedFilePool, when the threads of the loops have been joined.
Destroy ==
  /\ ~destroyed
  /\ \A t \in Threads : pc[t] = "idle"
  /\ destroyed' = TRUE
  /\ opened' = [d \in DOMAIN opened \ Closed |-> opened[d]]
  /\ UNCHANGED <<m_pool, m_invalidPaths, locals, exists, fds, changes>>

\* A file of the shared directory is created or removed.
Change(f) ==
  /\ changes < MaxChanges
  /\ changes' = changes + 1
  /\ exists' = IF f \in exists THEN exists \ {f} ELSE exists \cup {f}
  /\ UNCHANGED <<m_pool, m_invalidPaths, locals, opened, fds, destroyed>>

Next ==
  \/ \E t \in Threads : Get(t)
  \/ Destroy
  \/ \E f \in Files : Change(f)

Spec == Init /\ [][Next]_vars

-----------------------------------------------------------------------------
(* Types; descriptors are those that were given out.                         *)
TypeOK ==
  /\ Names(m_pool) \subseteq Files
  /\ \A f \in Names(m_pool) : m_pool[f] \in 1..fds
  /\ m_invalidPaths \subseteq Files
  /\ pc \in [Threads -> {"idle", "deref", "check", "open", "insert", "reject", "terminated"}]
  /\ fileName \in [Threads -> Files]
  /\ it \in [Threads -> 1..fds \cup {end}]
  /\ file \in [Threads -> 0..fds]
  /\ ret \in [Threads -> 1..MaxFd \cup {none}]
  /\ stale \in [Threads -> BOOLEAN]
  /\ exists \subseteq Files
  /\ DOMAIN opened \subseteq 1..fds
  /\ \A d \in DOMAIN opened : opened[d] \in Files
  /\ fds \in 0..MaxFd
  /\ changes \in 0..MaxChanges
  /\ destroyed \in BOOLEAN

(* Neither table outgrows its limit, however many threads miss at once.      *)
Bounded ==
  /\ Cardinality(Names(m_pool)) <= MAX_SHARED_FILE
  /\ Cardinality(m_invalidPaths) <= MAX_SHARED_FILE

(* A handler sends the file after get has returned and released the lock.    *)
(* Its descriptor is then open and is the requested file's, also when the    *)
(* entry is evicted behind the return, or when another thread has opened the *)
(* same file - unless get has used the iterator of an entry that was erased, *)
(* after which nothing is certain.                                           *)
IsOf(d, f) == d \in DOMAIN opened /\ opened[d] = f
Answered(t) == pc[t] = "idle" /\ ret[t] # none /\ ~destroyed
ReturnedIsOpen ==
  \A t \in Threads : Answered(t) /\ ~stale[t] => IsOf(ret[t], fileName[t])

(* The inductive invariant: until the pool goes, what the table maps a name  *)
(* to and what a thread has just opened is an open descriptor of that very   *)
(* file.                                                                     *)
HoldsOpen(t) ==
  /\ pc[t] = "insert" => IsOf(file[t], fileName[t])
  /\ pc[t] = "idle" /\ ret[t] # none /\ ~stale[t] => IsOf(ret[t], fileName[t])
FilesInv ==
  /\ TypeOK
  /\ Bounded /\ IsFiniteSet(Names(m_pool)) /\ IsFiniteSet(m_invalidPaths)
  /\ IF destroyed THEN \A t \in Threads : pc[t] = "idle"
                  ELSE /\ \A f \in Names(m_pool) : IsOf(m_pool[f], f)
                       /\ \A t \in Threads : HoldsOpen(t)

(* The entry that an iterator points at is still in the table when it is     *)
(* dereferenced.  This holds as long as the table never fills; otherwise an  *)
(* eviction may come between find and its use (file_pool_fails.cfg).         *)
IteratorValid == \A t \in Threads : pc[t] = "deref" => EntryLives(t)

(* Without exception, a reply has an open descriptor of its file.  The same  *)
(* eviction breaks it, and nothing else does (file_pool_fails.cfg).          *)
AlwaysReturnedIsOpen ==
  \A t \in Threads : Answered(t) => IsOf(ret[t], fileName[t])

(* When the pool has gone, so have its descriptors (file_pool_fails.cfg: not *)
(* those of evicted entries, nor what two threads have opened twice).        *)
NothingLeaked == destroyed => opened = [x \in {} |-> 0]

(* A file that is there is found (file_pool_fails.cfg: not when it was       *)
(* asked for before it came).                                                *)
FoundIfThere ==
  [][\A t \in Threads :
       pc[t] = "check" /\ pc'[t] = "idle" => fileName[t] \notin exists]_vars
=============================================================================
