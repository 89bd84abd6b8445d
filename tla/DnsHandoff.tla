----------------------------- MODULE DnsHandoff -----------------------------
(***************************************************************************)
(* The thread-safe DNS completion hand-off of the usockets loop (loop.c    *)
(* 189-224) and the loop iteration that drains it: pre-hook and post-hook  *)
(* both call us_internal_handle_dns_results (loop.c 269-281), the post-hook*)
(* then frees closed connecting sockets (loop.c 243-248).                  *)
(*                                                                         *)
(* Each connecting socket c is resolved once, either by a worker thread    *)
(* that calls us_internal_dns_callback_threadsafe, or on the loop thread   *)
(* (a cached answer) through us_internal_dns_callback during dispatch.     *)
(* The worker's statements are separate steps so that they interleave with *)
(* other workers and with the loop thread as the mutex allows.  The list   *)
(* uses c->next, the same field the closed-connecting list uses, as the    *)
(* code does.                                                              *)
(***************************************************************************)
EXTENDS Integers, Sequences, FiniteSets

CONSTANTS
  Conns,      \* connecting sockets (model values)
  Cached,     \* those resolved on the loop thread
  NULL        \* the null pointer; also "no owner" of the mutex

ASSUME Cached \subseteq Conns /\ NULL \notin Conns

Loop == "loop"   \* the loop thread as mutex owner

VARIABLES
  dnsHead,        \* loop->data.dns_ready_head
  cnext,          \* c->next
  closedConnHead, \* loop->data.closed_connecting_head
  mutex,          \* owner of loop->data.mutex (a worker is named by its c)
  wakeup,         \* the wakeup async has been signalled and not yet read
  wpc,            \* worker of c: index of its next statement
  lpc,            \* loop thread: where it is
  hook,           \* "pre" or "post": which hook is draining
  cursor,         \* the local s of us_internal_drain_pending_dns_resolve
  published,      \* history: results pushed onto the ready list
  resolveCount,   \* history: after_resolve calls per connecting socket
  connState,      \* "open", "closed" (on the closed list), "freed"
  batch,          \* ready polls of this iteration: "async", "socket"
  preAt,          \* the index of the pre-hook's current step in PreHook
  atPre           \* history: results published when the pre-hook began

vars == << dnsHead, cnext, closedConnHead, mutex, wakeup, wpc, lpc, hook,
           cursor, published, resolveCount, connState, batch, preAt, atPre >>

\* The variables only the pre-hook's sequencing uses.
preVars == << preAt, atPre >>
\* What the drain and the free change, and the loop thread's own position.
closeVars == << closedConnHead, resolveCount, connState >>
loopVars == << lpc, hook, cursor, batch, preVars >>

Workers == Conns \ Cached

\* The connecting sockets reachable from c through c->next.
RECURSIVE ReachFrom(_, _)
ReachFrom(c, seen) ==
  IF c = NULL \/ c \in seen THEN seen ELSE ReachFrom(cnext[c], seen \cup {c})

(***************************************************************************)
(* A worker's statements, in program order: us_internal_dns_callback       *)
(* (lock; c->addrinfo_req = ..., c->next = head; head = c; unlock) then    *)
(* us_wakeup_loop.                                                         *)
(***************************************************************************)
\* A plausible bug: the push without the mutex.
WorkerStepsNoLock == << "link", "publish", "wake" >>

\* A plausible bug: the loop is woken before the result is pushed.
WorkerStepsWakeFirst == << "wake", "lock", "link", "publish", "unlock" >>

WorkerSteps == << "lock", "link", "publish", "unlock", "wake" >>

\* The statement name of worker c, with its effect, then the next one.
WorkerDo(c, name, effect) ==
  /\ wpc[c] <= Len(WorkerSteps) /\ WorkerSteps[wpc[c]] = name
  /\ effect
  /\ wpc' = [wpc EXCEPT ![c] = @ + 1]
  /\ UNCHANGED << loopVars, closeVars >>

WorkerLock(c) ==
  WorkerDo(c, "lock", mutex = NULL /\ mutex' = c
                      /\ UNCHANGED << dnsHead, cnext, wakeup, published >>)

WorkerLink(c) ==
  WorkerDo(c, "link", cnext' = [cnext EXCEPT ![c] = dnsHead]
                      /\ UNCHANGED << dnsHead, mutex, wakeup, published >>)

WorkerPublish(c) ==
  WorkerDo(c, "publish", dnsHead' = c /\ published' = published \cup {c}
                         /\ UNCHANGED << cnext, mutex, wakeup >>)

WorkerUnlock(c) ==
  WorkerDo(c, "unlock", mutex' = NULL /\ UNCHANGED << dnsHead, cnext, wakeup, published >>)

\* us_wakeup_loop: write to the eventfd; signals coalesce.
WorkerWake(c) ==
  WorkerDo(c, "wake", wakeup' = TRUE /\ UNCHANGED << dnsHead, cnext, mutex, published >>)

(***************************************************************************)
(* The loop thread                                                         *)
(***************************************************************************)
\* A plausible bug: the user pre-callback runs before the DNS drain.
PreHookCallbackFirst == << "precb", "dns" >>

\* us_internal_loop_pre (loop.c 269-274): drain the DNS results, then call
\* the user pre-callback (the low-priority step between them is
\* LowPrioQueue's).
PreHook == << "dns", "precb" >>

\* Where the loop thread goes for a step of the pre-hook.
PhaseStart(step) == IF step = "dns" THEN "lock" ELSE "precb"

\* The pre-hook's next step, or poll-wait after its last.
AdvancePre ==
  /\ preAt' = preAt + 1
  /\ lpc' = IF preAt < Len(PreHook) THEN PhaseStart(PreHook[preAt + 1]) ELSE "wait"

\* us_internal_loop_pre begins the iteration.
LoopPre ==
  /\ lpc = "iter"
  /\ lpc' = PhaseStart(PreHook[1]) /\ hook' = "pre"
  /\ preAt' = 1 /\ atPre' = published
  /\ UNCHANGED << dnsHead, cnext, mutex, wakeup, published, wpc, cursor, batch, closeVars >>

\* loop->data.pre_cb(loop): user code on the loop thread.
PreCallback ==
  /\ lpc = "precb"
  /\ AdvancePre
  /\ UNCHANGED << dnsHead, cnext, mutex, wakeup, published, wpc, hook, cursor, batch,
                  closeVars, atPre >>

\* us_internal_handle_dns_results, loop.c 218.
HandleDnsLock ==
  /\ lpc = "lock" /\ mutex = NULL
  /\ mutex' = Loop /\ lpc' = "detach"
  /\ UNCHANGED << dnsHead, cnext, wakeup, published, wpc, hook, cursor, batch,
                  closeVars, preVars >>

\* loop.c 219-221: take the whole list, empty it, unlock.
HandleDnsDetach ==
  /\ lpc = "detach"
  /\ cursor' = dnsHead /\ dnsHead' = NULL /\ mutex' = NULL /\ lpc' = "drain"
  /\ UNCHANGED << cnext, wakeup, published, wpc, hook, batch, closeVars, preVars >>

\* A plausible bug: the successor is read after after_resolve ran.
DrainNextAfterCallback(s, before, after) == after[s]

\* loop.c 211: the successor is saved before after_resolve runs.
DrainNext(s, before, after) == before[s]

\* loop.c 210-214: one element of the detached list.  after_resolve either
\* goes on connecting or fails and closes c, which pushes c onto the
\* closed-connecting list through c->next.
DrainStep ==
  /\ lpc = "drain"
  /\ cursor # NULL
  /\ \E fails \in BOOLEAN :
       LET s == cursor
           newNext == IF fails THEN [cnext EXCEPT ![s] = closedConnHead] ELSE cnext
       IN
       /\ cnext' = newNext
       /\ closedConnHead' = IF fails THEN s ELSE closedConnHead
       /\ connState' = IF fails THEN [connState EXCEPT ![s] = "closed"] ELSE connState
       /\ resolveCount' = [resolveCount EXCEPT ![s] = @ + 1]
       /\ cursor' = DrainNext(s, cnext, newNext)
  /\ UNCHANGED << dnsHead, mutex, wakeup, published, wpc, lpc, hook, batch, preVars >>

\* The drain is over: the pre-hook goes on to its next step, the post-hook
\* to freeing closed objects.
DrainDone ==
  /\ lpc = "drain"
  /\ cursor = NULL
  /\ IF hook = "pre" THEN AdvancePre ELSE lpc' = "free" /\ UNCHANGED preAt
  /\ UNCHANGED << dnsHead, cnext, mutex, wakeup, published, wpc, hook, cursor, batch,
                  closeVars, atPre >>

\* Poll-wait returns when the wakeup async is signalled, or when a socket
\* event arrives whose handler resolves a cached name.
CachedLeft == {c \in Cached : c \notin published}

PollWait ==
  /\ lpc = "wait"
  /\ wakeup \/ CachedLeft # {}
  /\ batch' = (IF wakeup THEN {"async"} ELSE {})
               \cup (IF CachedLeft # {} THEN {"socket"} ELSE {})
  /\ lpc' = "dispatch"
  /\ UNCHANGED << dnsHead, cnext, mutex, wakeup, published, wpc, hook, cursor,
                  closeVars, preVars >>

\* Dispatch of the wakeup async reads the eventfd.
DispatchWakeup ==
  /\ lpc = "dispatch" /\ "async" \in batch
  /\ batch' = batch \ {"async"} /\ wakeup' = FALSE
  /\ UNCHANGED << dnsHead, cnext, mutex, published, wpc, lpc, hook, cursor,
                  closeVars, preVars >>

\* us_internal_dns_callback on the loop thread during dispatch: the loop
\* holds the mutex around the push, so it is one step.
InlineDnsCallback(c) ==
  /\ lpc = "dispatch" /\ "socket" \in batch
  /\ c \in CachedLeft /\ mutex = NULL
  /\ batch' = batch \ {"socket"}
  /\ cnext' = [cnext EXCEPT ![c] = dnsHead] /\ dnsHead' = c
  /\ published' = published \cup {c}
  /\ UNCHANGED << mutex, wakeup, wpc, lpc, hook, cursor, closeVars, preVars >>

\* us_internal_loop_post drains again, once the batch is dispatched.
LoopPost ==
  /\ lpc = "dispatch" /\ batch = {}
  /\ lpc' = "lock" /\ hook' = "post"
  /\ UNCHANGED << dnsHead, cnext, mutex, wakeup, published, wpc, cursor, batch,
                  closeVars, preVars >>

\* A plausible bug: the walk frees the head and does not step to next.
FreeWalkHeadOnly(head) == IF head = NULL THEN {} ELSE {head}

\* for (s = closed_connecting_head; s; s = next) us_free(s) (loop.c 242-246)
FreeWalk(head) == ReachFrom(head, {})

\* loop.c 242-247: free the closed connecting sockets, walking the chain
\* of c->next from closed_connecting_head, then empty the list.
FreeClosedConnecting ==
  LET fs == FreeWalk(closedConnHead) IN
  /\ lpc = "free"
  /\ closedConnHead' = NULL
  /\ connState' = [c \in Conns |-> IF c \in fs THEN "freed" ELSE connState[c]]
  /\ lpc' = "iter"
  /\ UNCHANGED << dnsHead, cnext, mutex, wakeup, published, wpc, hook, cursor, batch,
                  resolveCount, preVars >>

Init ==
  /\ dnsHead = NULL
  /\ cnext = [c \in Conns |-> NULL]
  /\ closedConnHead = NULL
  /\ mutex = NULL
  /\ wakeup = FALSE
  /\ wpc = [c \in Conns |-> IF c \in Workers THEN 1 ELSE Len(WorkerSteps) + 1]
  /\ lpc = "iter"
  /\ hook = "pre"
  /\ cursor = NULL
  /\ published = {}
  /\ resolveCount = [c \in Conns |-> 0]
  /\ connState = [c \in Conns |-> "open"]
  /\ batch = {}
  /\ preAt = 0
  /\ atPre = {}

LoopStep ==
  \/ LoopPre \/ PreCallback \/ HandleDnsLock \/ HandleDnsDetach \/ DrainStep \/ DrainDone
  \/ PollWait \/ DispatchWakeup \/ LoopPost \/ FreeClosedConnecting
  \/ \E c \in Conns : InlineDnsCallback(c)

WorkerStep(c) ==
  \/ WorkerLock(c) \/ WorkerLink(c) \/ WorkerPublish(c)
  \/ WorkerUnlock(c) \/ WorkerWake(c)

Next == LoopStep \/ \E c \in Workers : WorkerStep(c)

\* Both kinds of thread are scheduled by the OS: neither stops for ever
\* while it can run.
Fairness ==
  /\ WF_vars(LoopStep)
  /\ \A c \in Workers : WF_vars(WorkerStep(c))

Spec == Init /\ [][Next]_vars /\ Fairness

(***************************************************************************)
(* Properties                                                              *)
(***************************************************************************)
\* Every variable has its type (pointers are sockets or NULL, the mutex is
\* free or held by one thread).
TypeOK ==
  /\ dnsHead \in Conns \cup {NULL} /\ cursor \in Conns \cup {NULL}
  /\ cnext \in [Conns -> Conns \cup {NULL}]
  /\ closedConnHead \in Conns \cup {NULL}
  /\ mutex \in Conns \cup {NULL, Loop} /\ wakeup \in BOOLEAN
  /\ wpc \in [Conns -> 1..Len(WorkerSteps) + 1]
  /\ lpc \in {"iter", "lock", "detach", "drain", "precb", "wait", "dispatch", "free"}
  /\ published \subseteq Conns /\ resolveCount \in [Conns -> Nat]
  /\ connState \in [Conns -> {"open", "closed", "freed"}]
  /\ batch \subseteq {"async", "socket"}

\* No result is lost between threads: every result a resolver has pushed
\* and after_resolve has not yet consumed is still reachable, either from
\* the shared ready list or from the list the loop thread detached and is
\* draining -- whatever the interleaving of concurrent pushes and drains.
NoLostResult ==
  \A c \in published :
    resolveCount[c] = 0 =>
      c \in ReachFrom(dnsHead, {}) \cup (IF lpc = "drain" THEN ReachFrom(cursor, {}) ELSE {})

\* after_resolve runs at most once per connecting socket -- although a
\* failing after_resolve relinks c onto the closed-connecting list through
\* the very next field the drain is walking.
ResolveAtMostOnce ==
  \A c \in Conns : resolveCount[c] <= 1

\* Spec 6 ("DNS ordering"): every result enqueued before a pre-hook begins
\* has reached after_resolve when the user pre-callback of that pre-hook
\* runs, whichever worker pushed it and however late before the hook.
PreCallbackSeesEarlierResults ==
  lpc = "precb" => \A c \in atPre : resolveCount[c] > 0

\* No closed connecting socket escapes the post-hook: after it, none is
\* left closed and unfreed, though a failing after_resolve pushes it onto
\* the closed list through the c->next the DNS list also uses.
ClosedConnectingFreed ==
  lpc = "iter" => \A c \in Conns : connState[c] # "closed"

\* The hand-off implements the mailbox: results are pushed once, delivered
\* only after being pushed, and every pushed result is eventually
\* delivered, also when the loop sleeps in poll-wait as it is pushed.
Mailbox == INSTANCE DnsMailbox WITH
  Requests <- Conns,
  produced <- published,
  delivered <- {c \in Conns : resolveCount[c] > 0}

ImplementsMailbox == Mailbox!Spec
=============================================================================
