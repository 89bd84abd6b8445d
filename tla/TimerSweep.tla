----------------------------- MODULE TimerSweep -----------------------------
(***************************************************************************)
(* The coarse timeout sweep of the usockets loop (loop.c,                  *)
(* us_internal_timer_sweep) together with the intrusive lists it walks:    *)
(* the loop's list of socket contexts and each context's list of sockets.  *)
(*                                                                         *)
(* The sweep is re-entrant: on_timeout and on_long_timeout are user code   *)
(* that may close the socket being visited, close a sibling, re-arm        *)
(* timeouts or close a whole context.  The walk survives this through the  *)
(* per-context iterator slot, which the socket unlink routine retargets.   *)
(* A callback is modelled as a phase ("cb_short", "cb_long") during which  *)
(* at most one of the user operations below may run.                       *)
(*                                                                         *)
(* Lists are kept as the code keeps them: head pointers and next/prev      *)
(* functions, NULL for the null pointer, so that a walk that follows a     *)
(* stale next pointer goes where the C code would go.                      *)
(***************************************************************************)
EXTENDS Integers, Sequences, FiniteSets

CONSTANTS
  Contexts,     \* socket contexts of the loop (model values)
  LateContexts, \* contexts created after Init, not yet linked
  Sockets,      \* sockets (model values)
  LateSockets,  \* sockets accepted or connected after Init, not yet linked
  NULL,         \* the null pointer
  Owner,        \* Owner[s]: the context socket s belongs to
  CtxOrder,     \* initial order of the loop's context list (head first)
  SockOrder,    \* SockOrder[c]: initial order of c's socket list
  StartTick,    \* global_tick every context has reached in Init
  MaxDelay,     \* largest tick distance a timeout is armed at
  MaxSweeps     \* number of sweep-timer fires explored

ASSUME NULL \notin Contexts \cup Sockets
ASSUME Owner \in [Sockets -> Contexts] /\ LateSockets \subseteq Sockets
ASSUME LateContexts \subseteq Contexts
ASSUME MaxDelay \in 1..239 /\ MaxSweeps \in Nat /\ StartTick \in Nat

\* The one-byte timeout fields: 255 is the "disarmed" sentinel.
Disarmed == 255
WheelSize == 240
LongDivisor == 15

VARIABLES
  chead,          \* loop->data.head
  cnext, cprev,   \* context->next / context->prev
  ctxState,       \* "new" (not linked yet), "linked", "closed" (on closed_context_head), "freed"
  closedCtxHead,  \* loop->data.closed_context_head
  global_tick,    \* context->global_tick
  ctxIter,        \* context->iterator
  shead,          \* context->head_sockets
  snext, sprev,   \* socket->next / socket->prev
  sockState,      \* "new" (not linked yet), "linked", "closed" (on closed_head), "freed"
  closedHead,     \* loop->data.closed_head
  timeout,        \* socket->timeout
  long_timeout,   \* socket->long_timeout
  loopIter,       \* loop->data.iterator
  cur,            \* the local s of the sweep
  pc,             \* where the sweep is
  cbUsed,         \* the running callback already performed its operation
  sweeps,         \* sweep-timer fires so far (bounded by MaxSweeps)
  ticked,         \* contexts whose tick the current sweep advanced
  startLinked,    \* contexts linked when the current sweep began
  doubleFree,     \* a post-hook freed a socket or context already freed
  sweepCount,     \* loop->data.sweep_timer_count
  timerOn         \* the sweep timer is set (us_timer_set with a period)

timerVars == << sweepCount, timerOn >>

vars == << chead, cnext, cprev, ctxState, closedCtxHead, global_tick, ctxIter,
           shead, snext, sprev, sockState, closedHead, timeout, long_timeout,
           loopIter, cur, pc, cbUsed, sweeps, ticked, startLinked, doubleFree, timerVars >>

ctxVars  == << chead, cnext, cprev, ctxState, closedCtxHead >>
sockVars == << shead, snext, sprev, sockState, closedHead >>

(***************************************************************************)
(* Derived values                                                          *)
(***************************************************************************)
\* A plausible bug: the byte-sized timestamp is left to wrap at 256.
ShortTicksByteWrap(c) == global_tick[c] % 256

\* context->timestamp and context->long_timestamp (loop.c 119-120)
ShortTicks(c) == global_tick[c] % WheelSize
LongTicks(c)  == (global_tick[c] \div LongDivisor) % WheelSize

\* Pointer list built from a sequence, for Init.
NextOf(seq, x) ==
  IF \E i \in 1..Len(seq) - 1 : seq[i] = x
  THEN seq[(CHOOSE i \in 1..Len(seq) - 1 : seq[i] = x) + 1] ELSE NULL
PrevOf(seq, x) ==
  IF \E i \in 2..Len(seq) : seq[i] = x
  THEN seq[(CHOOSE i \in 2..Len(seq) : seq[i] = x) - 1] ELSE NULL
HeadOf(seq) == IF seq = << >> THEN NULL ELSE seq[1]

\* The nodes reachable from x through the pointer function next.
RECURSIVE Chain(_, _, _)
Chain(next, x, seen) ==
  IF x = NULL \/ x \in seen THEN seen ELSE Chain(next, next[x], seen \cup {x})

\* The sockets reachable from the head of c's list.
LinkedIn(c) == Chain(snext, shead[c], {})

\* The socket list of c from its head, as a sequence.
RECURSIVE ListFrom(_)
ListFrom(s) == IF s = NULL THEN << >> ELSE << s >> \o ListFrom(snext[s])

(***************************************************************************)
(* The fast inner loop of the sweep (loop.c 126-136): from s on, the first *)
(* socket whose short or long slot equals the context's ticks, or NULL.    *)
(***************************************************************************)
RECURSIVE SeekTimeout(_, _, _, _)
SeekTimeout(s, st, lt, n) ==
  IF s = NULL \/ n = 0 THEN NULL
  ELSE IF st = timeout[s] \/ lt = long_timeout[s] THEN s
  ELSE SeekTimeout(snext[s], st, lt, n - 1)

(***************************************************************************)
(* List primitives                                                         *)
(***************************************************************************)
\* A plausible bug: the old head keeps a null prev.
LoopLinkPrevKept(c) == cprev

\* loop.c 88-90: the old head points back at the new one.
LoopLinkPrev(c) ==
  [x \in Contexts |-> IF x = c THEN NULL ELSE IF x = chead THEN c ELSE cprev[x]]

\* us_internal_loop_unlink (loop.c 95-107): new cnext/cprev/chead.
LoopUnlinkNext(c) ==
  IF chead = c THEN cnext
  ELSE [cnext EXCEPT ![cprev[c]] = cnext[c]]
LoopUnlinkPrev(c) ==
  IF chead = c
  THEN IF cnext[c] # NULL THEN [cprev EXCEPT ![cnext[c]] = NULL] ELSE cprev
  ELSE IF cnext[c] # NULL THEN [cprev EXCEPT ![cnext[c]] = cprev[c]] ELSE cprev
LoopUnlinkHead(c) == IF chead = c THEN cnext[c] ELSE chead

\* A plausible bug: unlink leaves the iterator slot on the unlinked socket.
UnlinkIterNoRetarget(c, s) == ctxIter[c]

\* us_internal_socket_context_unlink_socket: the iterator slot is moved
\* past a socket that is unlinked while the sweep stands on it.
UnlinkIter(c, s) == IF ctxIter[c] = s THEN snext[s] ELSE ctxIter[c]

(***************************************************************************)
(* User operations.  They run between sweeps (pc = "idle") or as the one   *)
(* operation of a running timeout callback.                                *)
(***************************************************************************)
MayRunUserCode ==
  \/ pc = "idle"
  \/ pc \in {"cb_short", "cb_long"} /\ ~cbUsed

UserStep == cbUsed' = (pc # "idle")

(***************************************************************************)
(* The sweep timer's refcount (loop.c 35-47): every socket linked in a    *)
(* context holds one count; the timer runs while the count is not zero.  *)
(***************************************************************************)
\* A plausible bug: the timer is stopped one unlink too early.
SweepTimerIdleOffByOne(n) == n <= 1

\* loop.c 44: the last count is gone.
SweepTimerIdle(n) == n = 0

\* A plausible bug: the count is tested after it is incremented.
SweepTimerStartsAfterIncrement(n) == n + 1 = 0

\* loop.c 36: the first count arms the timer.
SweepTimerStarts(n) == n = 0

\* us_internal_enable_sweep_timer: arm the periodic timer on the first
\* count, then count.
EnableSweepTimer ==
  /\ timerOn' = (timerOn \/ SweepTimerStarts(sweepCount))
  /\ sweepCount' = sweepCount + 1

\* us_internal_disable_sweep_timer, called once for each of k unlinked
\* sockets: the count drops, the timer stops when it reaches zero.
DisableSweepTimer(k) ==
  /\ sweepCount' = sweepCount - k
  /\ timerOn' = IF k > 0 /\ SweepTimerIdle(sweepCount - k) THEN FALSE ELSE timerOn

\* us_create_socket_context, from user code (a lazily created client
\* context, say), also inside a timeout callback: the context is pushed at
\* the head of the loop's list by us_internal_loop_link (loop.c 84-93).
LinkContext(c) ==
  /\ MayRunUserCode
  /\ ctxState[c] = "new"
  /\ cnext' = [cnext EXCEPT ![c] = chead]
  /\ cprev' = LoopLinkPrev(c)
  /\ chead' = c
  /\ ctxState' = [ctxState EXCEPT ![c] = "linked"]
  /\ UserStep
  /\ UNCHANGED << closedCtxHead, global_tick, ctxIter, sockVars, timeout, long_timeout,
                  loopIter, cur, pc, sweeps, ticked, startLinked, doubleFree, timerVars >>

\* us_internal_socket_context_link_socket, for a socket accepted or
\* connected in a dispatch (between sweeps): pushed at the head of its
\* context's list, timeouts disarmed, one sweep-timer count taken.
LinkSocket(s) ==
  LET c == Owner[s] IN
  /\ pc = "idle"
  /\ sockState[s] = "new" /\ ctxState[c] = "linked"
  /\ shead' = [shead EXCEPT ![c] = s]
  /\ snext' = [snext EXCEPT ![s] = shead[c]]
  /\ sprev' = [x \in Sockets |->
                 IF x = s THEN NULL ELSE IF x = shead[c] THEN s ELSE sprev[x]]
  /\ sockState' = [sockState EXCEPT ![s] = "linked"]
  /\ EnableSweepTimer
  /\ UNCHANGED << ctxVars, closedHead, global_tick, ctxIter, timeout, long_timeout,
                  loopIter, cur, pc, cbUsed, sweeps, ticked, startLinked, doubleFree >>

\* us_socket_close: unlink from the context (retargeting the iterator),
\* disarm both timeouts, push onto the loop's closed list.
CloseSocket(s) ==
  LET c == Owner[s] IN
  /\ MayRunUserCode
  /\ sockState[s] = "linked"
  /\ ctxIter' = [ctxIter EXCEPT ![c] = UnlinkIter(c, s)]
  /\ shead' = IF sprev[s] = NULL THEN [shead EXCEPT ![c] = snext[s]] ELSE shead
  /\ snext' = [x \in Sockets |->
                 IF x = s THEN closedHead
                 ELSE IF x = sprev[s] THEN snext[s] ELSE snext[x]]
  /\ sprev' = [x \in Sockets |->
                 IF x = s THEN NULL
                 ELSE IF x = snext[s] THEN sprev[s] ELSE sprev[x]]
  /\ closedHead' = s
  /\ sockState' = [sockState EXCEPT ![s] = "closed"]
  /\ timeout' = [timeout EXCEPT ![s] = Disarmed]
  /\ long_timeout' = [long_timeout EXCEPT ![s] = Disarmed]
  /\ DisableSweepTimer(1)
  /\ UserStep
  /\ UNCHANGED << ctxVars, global_tick, loopIter, cur, pc, sweeps, ticked, startLinked, doubleFree >>

\* us_socket_context_close followed by the free of the context once its
\* last reference is gone: every socket is closed in list order, then the
\* context is unlinked from the loop and pushed onto closed_context_head
\* through its own next field (the field loop.c 253 walks).
CloseContext(c) ==
  LET L == ListFrom(shead[c])
      n == Len(L)
      pos(x) == CHOOSE i \in 1..n : L[i] = x
  IN
  /\ MayRunUserCode
  /\ ctxState[c] = "linked"
  /\ ctxIter' = [ctxIter EXCEPT ![c] = NULL]
  /\ shead' = [shead EXCEPT ![c] = NULL]
  /\ snext' = [x \in Sockets |->
                 IF x \in LinkedIn(c)
                 THEN IF pos(x) = 1 THEN closedHead ELSE L[pos(x) - 1]
                 ELSE snext[x]]
  /\ sprev' = [x \in Sockets |-> IF x \in LinkedIn(c) THEN NULL ELSE sprev[x]]
  /\ closedHead' = IF n = 0 THEN closedHead ELSE L[n]
  /\ sockState' = [x \in Sockets |->
                     IF x \in LinkedIn(c) THEN "closed" ELSE sockState[x]]
  /\ timeout' = [x \in Sockets |->
                   IF x \in LinkedIn(c) THEN Disarmed ELSE timeout[x]]
  /\ long_timeout' = [x \in Sockets |->
                        IF x \in LinkedIn(c) THEN Disarmed ELSE long_timeout[x]]
  /\ chead' = LoopUnlinkHead(c)
  /\ cprev' = LoopUnlinkPrev(c)
  /\ cnext' = [LoopUnlinkNext(c) EXCEPT ![c] = closedCtxHead]
  /\ closedCtxHead' = c
  /\ ctxState' = [ctxState EXCEPT ![c] = "closed"]
  /\ DisableSweepTimer(n)
  /\ UserStep
  /\ UNCHANGED << global_tick, loopIter, cur, pc, sweeps, ticked, startLinked, doubleFree >>

\* us_socket_timeout: arm the short slot d ticks after the context's
\* current timestamp.
ArmTimeout(s, d) ==
  /\ MayRunUserCode
  /\ sockState[s] = "linked"
  /\ timeout' = [timeout EXCEPT ![s] = (ShortTicks(Owner[s]) + d) % WheelSize]
  /\ UserStep
  /\ UNCHANGED << ctxVars, sockVars, global_tick, ctxIter, long_timeout,
                  loopIter, cur, pc, sweeps, ticked, startLinked, doubleFree, timerVars >>

\* us_socket_long_timeout: arm the long slot d long ticks ahead.
ArmLongTimeout(s, d) ==
  /\ MayRunUserCode
  /\ sockState[s] = "linked"
  /\ long_timeout' = [long_timeout EXCEPT ![s] = (LongTicks(Owner[s]) + d) % WheelSize]
  /\ UserStep
  /\ UNCHANGED << ctxVars, sockVars, global_tick, ctxIter, timeout,
                  loopIter, cur, pc, sweeps, ticked, startLinked, doubleFree, timerVars >>

(***************************************************************************)
(* The sweep (loop.c 110-163), one step per basic block.                   *)
(***************************************************************************)
\* sweep_timer_cb fires while the timer is set: the for loop over
\* contexts begins at the head.
SweepStart ==
  /\ pc = "idle" /\ timerOn
  /\ sweeps < MaxSweeps
  /\ sweeps' = sweeps + 1
  /\ loopIter' = chead
  /\ pc' = IF chead = NULL THEN "idle" ELSE "tick"
  /\ ticked' = {}
  /\ startLinked' = {c \in Contexts : ctxState[c] = "linked"}
  /\ UNCHANGED << ctxVars, global_tick, ctxIter, sockVars, timeout,
                  long_timeout, cur, cbUsed, doubleFree, timerVars >>

\* loop.c 115-123: advance the context's tick, start at its head.
Tick ==
  LET c == loopIter IN
  /\ pc = "tick"
  /\ global_tick' = [global_tick EXCEPT ![c] = @ + 1]
  /\ ticked' = ticked \cup {c}
  /\ cur' = shead[c]
  /\ pc' = "seek"
  /\ UNCHANGED << ctxVars, ctxIter, sockVars, timeout, long_timeout,
                  loopIter, cbUsed, sweeps, startLinked, doubleFree, timerVars >>

\* loop.c 124-139: seek the next match; park the iterator on it.
Seek ==
  LET c == loopIter
      f == SeekTimeout(cur, ShortTicks(c), LongTicks(c), Cardinality(Sockets))
  IN
  /\ pc = "seek"
  /\ cur' = f
  /\ ctxIter' = IF f = NULL THEN ctxIter ELSE [ctxIter EXCEPT ![c] = f]
  /\ pc' = IF f = NULL THEN "nextctx" ELSE "short"
  /\ UNCHANGED << ctxVars, global_tick, sockVars, timeout, long_timeout,
                  loopIter, cbUsed, sweeps, ticked, startLinked, doubleFree, timerVars >>

\* loop.c 141-144: disarm the short slot, then call on_timeout.
ShortTimeout ==
  /\ pc = "short"
  /\ IF ShortTicks(loopIter) = timeout[cur]
     THEN /\ timeout' = [timeout EXCEPT ![cur] = Disarmed]
          /\ pc' = "cb_short"
     ELSE /\ pc' = "long"
          /\ UNCHANGED timeout
  /\ cbUsed' = FALSE
  /\ UNCHANGED << ctxVars, global_tick, ctxIter, sockVars, long_timeout,
                  loopIter, cur, sweeps, ticked, startLinked, doubleFree, timerVars >>

\* loop.c 146-149: only if the callback left the iterator on s.
LongTimeout ==
  /\ pc = "long"
  /\ IF ctxIter[loopIter] = cur /\ LongTicks(loopIter) = long_timeout[cur]
     THEN /\ long_timeout' = [long_timeout EXCEPT ![cur] = Disarmed]
          /\ pc' = "cb_long"
     ELSE /\ pc' = "advance"
          /\ UNCHANGED long_timeout
  /\ cbUsed' = FALSE
  /\ UNCHANGED << ctxVars, global_tick, ctxIter, sockVars, timeout,
                  loopIter, cur, sweeps, ticked, startLinked, doubleFree, timerVars >>

\* The user callback returns.
CallbackReturn ==
  /\ pc \in {"cb_short", "cb_long"}
  /\ pc' = IF pc = "cb_short" THEN "long" ELSE "advance"
  /\ cbUsed' = FALSE
  /\ UNCHANGED << ctxVars, global_tick, ctxIter, sockVars, timeout,
                  long_timeout, loopIter, cur, sweeps, ticked, startLinked, doubleFree, timerVars >>

\* A plausible bug: always step through s->next after the callbacks.
NextSocketIgnoringIterator(c, s) == snext[s]

\* loop.c 151-157: step one, or resume where a callback left the iterator.
NextSocket(c, s) == IF s = ctxIter[c] THEN snext[s] ELSE ctxIter[c]

Advance ==
  LET n == NextSocket(loopIter, cur) IN
  /\ pc = "advance"
  /\ cur' = n
  /\ pc' = IF n = NULL THEN "nextctx" ELSE "seek"
  /\ UNCHANGED << ctxVars, global_tick, ctxIter, sockVars, timeout,
                  long_timeout, loopIter, cbUsed, sweeps, ticked, startLinked, doubleFree, timerVars >>

\* loop.c 160-161 and the step of the for loop at 113.
NextContext ==
  /\ pc = "nextctx"
  /\ ctxIter' = [ctxIter EXCEPT ![loopIter] = NULL]
  /\ loopIter' = cnext[loopIter]
  /\ pc' = IF cnext[loopIter] = NULL THEN "idle" ELSE "tick"
  /\ UNCHANGED << ctxVars, global_tick, sockVars, timeout, long_timeout,
                  cur, cbUsed, sweeps, ticked, startLinked, doubleFree, timerVars >>

(***************************************************************************)
(* us_internal_loop_post frees what was closed (loop.c 227-258): each for  *)
(* loop walks a closed list through the nodes' next fields, frees every   *)
(* node it visits, then empties the list.                                  *)
(***************************************************************************)
\* A plausible bug: the walk frees the head and does not step to next.
FreeWalkHeadOnly(next, head) == IF head = NULL THEN {} ELSE {head}

\* for (s = head; s; s = next) us_poll_free / us_free (228-232, 250-254)
FreeWalk(next, head) == Chain(next, head, {})

\* A plausible bug: the closed list is not emptied after the walk.
ClosedHeadAfterFreeKept(h) == h

\* loop.c 233, 256
ClosedHeadAfterFree(h) == NULL

FreeClosed ==
  LET fs == FreeWalk(snext, closedHead)
      fc == FreeWalk(cnext, closedCtxHead)
  IN
  /\ pc = "idle"
  /\ doubleFree' = (doubleFree \/ \E s \in fs : sockState[s] = "freed"
                              \/ \E c \in fc : ctxState[c] = "freed")
  /\ sockState' = [s \in Sockets |-> IF s \in fs THEN "freed" ELSE sockState[s]]
  /\ closedHead' = ClosedHeadAfterFree(closedHead)
  /\ ctxState' = [c \in Contexts |-> IF c \in fc THEN "freed" ELSE ctxState[c]]
  /\ closedCtxHead' = ClosedHeadAfterFree(closedCtxHead)
  /\ UNCHANGED << chead, cnext, cprev, global_tick, ctxIter, shead, snext,
                  sprev, timeout, long_timeout, loopIter, cur, pc, cbUsed,
                  sweeps, ticked, startLinked, timerVars >>

(***************************************************************************)
(* Specification                                                           *)
(***************************************************************************)
ShortSlots == {Disarmed} \cup {(StartTick + d) % WheelSize : d \in 1..MaxDelay}
LongSlots  == {Disarmed} \cup {((StartTick \div LongDivisor) + d) % WheelSize : d \in 1..1}

Init ==
  /\ chead = HeadOf(CtxOrder)
  /\ cnext = [c \in Contexts |-> NextOf(CtxOrder, c)]
  /\ cprev = [c \in Contexts |-> PrevOf(CtxOrder, c)]
  /\ ctxState = [c \in Contexts |-> IF c \in LateContexts THEN "new" ELSE "linked"]
  /\ closedCtxHead = NULL
  /\ global_tick = [c \in Contexts |-> StartTick]
  /\ ctxIter = [c \in Contexts |-> NULL]
  /\ shead = [c \in Contexts |-> HeadOf(SockOrder[c])]
  /\ snext = [s \in Sockets |-> NextOf(SockOrder[Owner[s]], s)]
  /\ sprev = [s \in Sockets |-> PrevOf(SockOrder[Owner[s]], s)]
  /\ sockState = [s \in Sockets |-> IF s \in LateSockets THEN "new" ELSE "linked"]
  /\ closedHead = NULL
  /\ timeout \in {t \in [Sockets -> ShortSlots] : \A s \in LateSockets : t[s] = Disarmed}
  /\ long_timeout \in {t \in [Sockets -> LongSlots] : \A s \in LateSockets : t[s] = Disarmed}
  /\ loopIter = NULL
  /\ cur = NULL
  /\ pc = "idle"
  /\ cbUsed = FALSE
  /\ sweeps = 0
  /\ ticked = {}
  /\ startLinked = {}
  /\ doubleFree = FALSE
  /\ sweepCount = Cardinality(Sockets \ LateSockets)
  /\ timerOn = (Sockets \ LateSockets # {})

Next ==
  \/ SweepStart \/ Tick \/ Seek \/ ShortTimeout \/ LongTimeout
  \/ CallbackReturn \/ Advance \/ NextContext \/ FreeClosed
  \/ \E c \in LateContexts : LinkContext(c)
  \/ \E s \in LateSockets : LinkSocket(s)
  \/ \E s \in Sockets : CloseSocket(s)
  \/ \E c \in Contexts : CloseContext(c)
  \/ \E s \in Sockets, d \in 1..MaxDelay : ArmTimeout(s, d)
  \/ \E s \in Sockets : ArmLongTimeout(s, 1)

Spec == Init /\ [][Next]_vars

(***************************************************************************)
(* Properties                                                              *)
(***************************************************************************)
Slot == {Disarmed} \cup 0..(WheelSize - 1)
PC == {"idle", "tick", "seek", "short", "cb_short", "long", "cb_long",
       "advance", "nextctx"}

\* Every variable has its type; in particular the timestamps the sweep
\* computes (loop.c 119-120) are wheel slots 0..239, never the sentinel
\* 255 nor a value the unsigned char would otherwise hold.
TypeOK ==
  /\ ctxState \in [Contexts -> {"new", "linked", "closed", "freed"}]
  /\ sockState \in [Sockets -> {"new", "linked", "closed", "freed"}]
  /\ timeout \in [Sockets -> Slot] /\ long_timeout \in [Sockets -> Slot]
  /\ ctxIter \in [Contexts -> Sockets \cup {NULL}]
  /\ cur \in Sockets \cup {NULL} /\ loopIter \in Contexts \cup {NULL}
  /\ pc \in PC /\ sweeps \in 0..MaxSweeps /\ ticked \subseteq Contexts
  /\ sweepCount \in Int /\ timerOn \in BOOLEAN /\ doubleFree \in BOOLEAN
  /\ \A c \in Contexts : ShortTicks(c) \in 0..(WheelSize - 1)
                      /\ LongTicks(c) \in 0..(WheelSize - 1)

\* The re-entrant walk never leaves the live list of the context it is
\* sweeping: whenever the sweep is about to inspect a socket (the fast loop
\* of loop.c 126-136, after the iterator hand-off of 151-157), that socket
\* is still linked in the swept context, however the callbacks before it
\* closed the current socket, its siblings or re-armed timeouts.
WalkStaysInContext ==
  pc = "seek" /\ cur # NULL =>
    /\ sockState[cur] = "linked"
    /\ cur \in LinkedIn(loopIter)

\* No timeout is skipped: when the sweep leaves a context (loop.c 160), no
\* socket still linked in it has a short or long slot equal to the tick
\* just taken -- every such socket was reached and fired, even when the
\* callbacks of earlier sockets closed the socket the walk stood on.
NoMissedTimeout ==
  pc = "nextctx" =>
    \A s \in LinkedIn(loopIter) :
      /\ timeout[s] # ShortTicks(loopIter)
      /\ long_timeout[s] # LongTicks(loopIter)

\* The sweep timer runs exactly while some socket is linked in a context:
\* the refcount equals the number of linked sockets however sockets are
\* linked after the timer stopped and sockets and whole contexts are
\* closed, also from inside timeout callbacks, so no
\* armed timeout waits on a stopped timer and an idle loop is not woken.
SweepTimerMatchesSockets ==
  LET linked == {s \in Sockets : sockState[s] = "linked"} IN
  /\ sweepCount = Cardinality(linked)
  /\ timerOn = (linked # {})

\* The loop's context list is a well-formed doubly linked list of exactly
\* the live contexts, however contexts are created (pushed at the head, also
\* from inside timeout callbacks) and closed: us_internal_loop_unlink
\* (loop.c 102-105) splices a context that is not the head out through its
\* prev, so a wrong prev would cut live contexts off the list.
ContextListWellFormed ==
  LET live == {c \in Contexts : ctxState[c] = "linked"} IN
  /\ Chain(cnext, chead, {}) = live
  /\ \A c \in live : /\ (cprev[c] = NULL) = (c = chead)
                     /\ cnext[c] # NULL => cprev[cnext[c]] = c

\* Nothing is freed twice: each post-hook (loop.c 227-258) walks only
\* sockets and contexts closed since the previous one, however socket and
\* context closes, also from timeout callbacks, pushed them.
NoDoubleFree == ~doubleFree

\* Nothing closed leaks: every closed socket is on the chain from
\* closed_head and every closed context on the chain from
\* closed_context_head, so the next post-hook frees it, also when a
\* context close pushes all its sockets at once and a later close pushes
\* more on top.
ClosedListsComplete ==
  /\ \A s \in Sockets : sockState[s] = "closed" => s \in Chain(snext, closedHead, {})
  /\ \A c \in Contexts : ctxState[c] = "closed" => c \in Chain(cnext, closedCtxHead, {})

\* Every context that was linked when a sweep began and is still linked in
\* the loop when it ends had its
\* global_tick advanced by that sweep (loop.c 113-118: "for all socket
\* contexts in this loop"), even if a callback closed some other context.
EveryContextTicked ==
  pc = "idle" /\ sweeps > 0 =>
    \A c \in startLinked : ctxState[c] = "linked" => c \in ticked
=============================================================================
