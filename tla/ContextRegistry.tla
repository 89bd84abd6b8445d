--------------------------- MODULE ContextRegistry ---------------------------
(***************************************************************************)
(* The process-wide registry of ScriptExecutionContexts                   *)
(* (ScriptExecutionContext.cpp): the identifier -> context map guarded by *)
(* allScriptExecutionContextsMapLock, identifiers drawn from the atomic   *)
(* counter lastUniqueIdentifier, and the operations any thread may call   *)
(* with an identifier: postTaskTo, ensureOnContextThread,                 *)
(* ensureOnMainThread and ScriptExecutionContextIdentifier__getGlobalObject.*)
(*                                                                         *)
(* Every context has its own thread (the thread is named after the        *)
(* context); Foreign threads own no context.  A region under the map lock *)
(* is one atomic step: every access to the map is under the lock, so no   *)
(* other step can interleave with it.  What a thread keeps after the lock *)
(* is released is its ptr, used by a later step.  A worker context is     *)
(* removed from the map and then destroyed by its own thread; the main    *)
(* context (identifier 1) lives as long as the process.                    *)
(***************************************************************************)
EXTENDS Integers, FiniteSets, TLC

CONSTANTS
  Contexts,         \* ScriptExecutionContext objects
  Main,             \* the context built with initialIdentifier()
  Foreign,          \* threads that own no context
  IdBits,           \* width of lastUniqueIdentifier (32 in the code)
  RegenerateContexts, \* the contexts the embedder calls regenerateIdentifier on
  MaxIdentifier,    \* bound: no identifier is drawn once lastId reaches it
  NULL

ASSUME Main \in Contexts /\ IdBits \in Nat \ {0} /\ RegenerateContexts \subseteq Contexts
       /\ MaxIdentifier \in Nat

Threads == Contexts \cup Foreign
Ids == 0..(2^IdBits - 1)

\* INITIAL_IDENTIFIER_INTERNAL
InitialIdentifier == 1

VARIABLES
  ctxMap,     \* allScriptExecutionContextsMap(): a partial function Ids -> Contexts
  lastId,     \* lastUniqueIdentifier
  ident,      \* m_identifier of each context (0 before construction)
  state,      \* "unborn", "live", "removed" (left the map), "destroyed"
  pc,         \* what each thread does after it released the lock
  ptr,        \* the context pointer a thread carries past the unlock
  freedUse    \* operations that dereferenced a destroyed context

vars == << ctxMap, lastId, ident, state, pc, ptr, freedUse >>

\* HashMap get / getOptional(...).value_or(nullptr)
Lookup(id) == IF id \in DOMAIN ctxMap THEN ctxMap[id] ELSE NULL

\* HashMap::add keeps an existing entry for the key.
MapAdd(m, id, c) == IF id \in DOMAIN m THEN m ELSE m @@ (id :> c)

\* A plausible bug: removal forgets the entry.
MapRemoveNothing(m, id) == m

\* HashMap::remove by key, whatever context the entry names.
MapRemove(m, id) == [i \in DOMAIN m \ {id} |-> m[i]]

\* A plausible bug: the counter is read, not incremented.
NextIdentifierNoIncrement(n) == n

\* ++lastUniqueIdentifier on an unsigned counter of IdBits bits.
NextIdentifier(n) == (n + 1) % (2^IdBits)

\* A dereference of c by operation op: remembered if c was freed.
Deref(c, op) ==
  freedUse' = IF state[c] = "destroyed" THEN freedUse \cup {op} ELSE freedUse

\* A thread can call into the registry while it is not in the middle of
\* another operation; a context's thread only while its context is live.
Idle(t) == pc[t] = "idle" /\ (t \in Foreign \/ (t \in Contexts /\ state[t] = "live"))

(***************************************************************************)
(* Construction and identifiers (lines 38-60, 335-353)                     *)
(***************************************************************************)
\* The constructors: the main context takes identifier 1, a worker
\* context ++lastUniqueIdentifier (directly, or through
\* generateIdentifier() on the parent thread); then addToContextsMap.
Construct(c) ==
  LET id == IF c = Main THEN InitialIdentifier ELSE NextIdentifier(lastId) IN
  /\ state[c] = "unborn"
  /\ c = Main \/ (state[Main] # "unborn" /\ lastId < MaxIdentifier)
  /\ lastId' = IF c = Main THEN lastId ELSE id
  /\ ident' = [ident EXCEPT ![c] = id]
  /\ ctxMap' = MapAdd(ctxMap, id, c)
  /\ state' = [state EXCEPT ![c] = "live"]
  /\ UNCHANGED << pc, ptr, freedUse >>

\* regenerateIdentifier: a new identifier, added; the old entry stays.
RegenerateIdentifier(c) ==
  LET id == NextIdentifier(lastId) IN
  /\ c \in RegenerateContexts
  /\ Idle(c)
  /\ lastId < MaxIdentifier
  /\ lastId' = id
  /\ ident' = [ident EXCEPT ![c] = id]
  /\ ctxMap' = MapAdd(ctxMap, id, c)
  /\ UNCHANGED << state, pc, ptr, freedUse >>

\* removeFromContextsMap, called by the worker before it is destroyed.
RemoveFromContextsMap(c) ==
  /\ c # Main
  /\ Idle(c)
  /\ ctxMap' = MapRemove(ctxMap, ident[c])
  /\ state' = [state EXCEPT ![c] = "removed"]
  /\ UNCHANGED << lastId, ident, pc, ptr, freedUse >>

\* ~ScriptExecutionContext (lines 128-150), on the worker's own thread.
Destroy(c) ==
  /\ state[c] = "removed"
  /\ pc[c] = "idle"
  /\ state' = [state EXCEPT ![c] = "destroyed"]
  /\ UNCHANGED << ctxMap, lastId, ident, pc, ptr, freedUse >>

(***************************************************************************)
(* Operations any thread calls with an identifier                          *)
(***************************************************************************)
\* A plausible bug: the thread test passes for every thread.
IsContextThreadAnyVM(c, t) == TRUE

\* isContextThread (lines 187-191): the caller runs c's VM.
IsContextThread(c, t) == c = t

\* postTaskTo (lines 152-162): look up and post, both under the lock.
PostTaskTo(t, id) ==
  LET c == Lookup(id) IN
  /\ Idle(t)
  /\ c # NULL
  /\ Deref(c, "postTaskTo")
  /\ UNCHANGED << ctxMap, lastId, ident, state, pc, ptr >>

\* ensureOnContextThread (lines 193-207): under the lock, post to a
\* context of another thread, or keep the pointer to run the task inline
\* once the lock is released.
EnsureOnContextThread(t, id) ==
  LET c == Lookup(id) IN
  /\ Idle(t)
  /\ c # NULL
  /\ IF IsContextThread(c, t)
     THEN /\ pc' = [pc EXCEPT ![t] = "ensure_run"]
          /\ ptr' = [ptr EXCEPT ![t] = c]
          /\ UNCHANGED freedUse
     ELSE /\ Deref(c, "ensureOnContextThread")
          /\ UNCHANGED << pc, ptr >>
  /\ UNCHANGED << ctxMap, lastId, ident, state >>

\* line 209: task(*context), after the unlock.
RunTaskInline(t) ==
  /\ pc[t] = "ensure_run"
  /\ Deref(ptr[t], "ensureOnContextThread")
  /\ pc' = [pc EXCEPT ![t] = "idle"]
  /\ ptr' = [ptr EXCEPT ![t] = NULL]
  /\ UNCHANGED << ctxMap, lastId, ident, state >>

\* ensureOnMainThread (lines 213-229): getMainThreadScriptExecutionContext
\* looks identifier 1 up under the lock; the post follows the unlock.
EnsureOnMainThread(t) ==
  LET c == Lookup(InitialIdentifier) IN
  /\ Idle(t)
  /\ c # NULL
  /\ pc' = [pc EXCEPT ![t] = "main_post"]
  /\ ptr' = [ptr EXCEPT ![t] = c]
  /\ UNCHANGED << ctxMap, lastId, ident, state, freedUse >>

PostToMain(t) ==
  /\ pc[t] = "main_post"
  /\ Deref(ptr[t], "ensureOnMainThread")
  /\ pc' = [pc EXCEPT ![t] = "idle"]
  /\ ptr' = [ptr EXCEPT ![t] = NULL]
  /\ UNCHANGED << ctxMap, lastId, ident, state >>

\* ScriptExecutionContextIdentifier__getGlobalObject (lines 403-407) with
\* getScriptExecutionContext (lines 70-77): identifier 0 is no context;
\* the pointer is read under the lock and dereferenced after it.
GetScriptExecutionContext(t, id) ==
  LET c == Lookup(id) IN
  /\ Idle(t)
  /\ id # 0
  /\ c # NULL
  /\ pc' = [pc EXCEPT ![t] = "global"]
  /\ ptr' = [ptr EXCEPT ![t] = c]
  /\ UNCHANGED << ctxMap, lastId, ident, state, freedUse >>

ReadGlobalObject(t) ==
  /\ pc[t] = "global"
  /\ Deref(ptr[t], "getGlobalObject")
  /\ pc' = [pc EXCEPT ![t] = "idle"]
  /\ ptr' = [ptr EXCEPT ![t] = NULL]
  /\ UNCHANGED << ctxMap, lastId, ident, state >>

Init ==
  /\ ctxMap = << >>
  /\ lastId = InitialIdentifier
  /\ ident = [c \in Contexts |-> 0]
  /\ state = [c \in Contexts |-> "unborn"]
  /\ pc = [t \in Threads |-> "idle"]
  /\ ptr = [t \in Threads |-> NULL]
  /\ freedUse = {}

Next ==
  \/ \E c \in Contexts :
       Construct(c) \/ RegenerateIdentifier(c) \/ RemoveFromContextsMap(c) \/ Destroy(c)
  \/ \E t \in Threads :
       \/ RunTaskInline(t) \/ EnsureOnMainThread(t) \/ PostToMain(t) \/ ReadGlobalObject(t)
       \/ \E id \in Ids :
            PostTaskTo(t, id) \/ EnsureOnContextThread(t, id) \/ GetScriptExecutionContext(t, id)

Spec == Init /\ [][Next]_vars

(***************************************************************************)
(* Properties                                                              *)
(***************************************************************************)
\* Every variable has its type; the map holds identifiers the counter can
\* produce.
TypeOK ==
  /\ DOMAIN ctxMap \subseteq Ids /\ \A i \in DOMAIN ctxMap : ctxMap[i] \in Contexts
  /\ lastId \in Ids /\ ident \in [Contexts -> Ids]
  /\ state \in [Contexts -> {"unborn", "live", "removed", "destroyed"}]
  /\ pc \in [Threads -> {"idle", "ensure_run", "main_post", "global"}]
  /\ ptr \in [Threads -> Contexts \cup {NULL}]
  /\ freedUse \subseteq {"postTaskTo", "ensureOnContextThread",
                         "ensureOnMainThread", "getGlobalObject"}

\* Every live context is found under its own identifier: the identifiers
\* handed out by ++lastUniqueIdentifier never collide, so addToContextsMap
\* (whose HashMap::add keeps an existing entry) always registers the
\* context, and no removal by another context takes its entry away.
IdentifierResolves ==
  \A c \in Contexts : state[c] = "live" => Lookup(ident[c]) = c

\* No task is posted to, or run on, a destroyed context: postTaskTo,
\* ensureOnContextThread and ensureOnMainThread only reach a context
\* that is still alive, although workers remove themselves and are
\* destroyed concurrently with these calls.
TasksReachLiveContexts ==
  freedUse \cap {"postTaskTo", "ensureOnContextThread", "ensureOnMainThread"} = {}

\* ScriptExecutionContextIdentifier__getGlobalObject never reads the
\* global object of a destroyed context.
GlobalObjectOfLiveContext == "getGlobalObject" \notin freedUse
=============================================================================
