---------------------------- MODULE LowPrioQueue ----------------------------
(***************************************************************************)
(* Low-priority admission of the usockets loop: the readable phase of      *)
(* us_internal_dispatch_ready_poll (loop.c 376-405), which parks sockets   *)
(* whose context says they are expensive (TLS handshakes) once the         *)
(* iteration's budget is spent, and us_internal_handle_low_priority_sockets*)
(* (loop.c 170-187), run by the pre-hook, which brings parked sockets back.*)
(*                                                                         *)
(* One context, a few sockets, and the iteration structure of the loop:    *)
(* pre-hook, poll-wait, dispatch of the ready sockets one at a time,       *)
(* post-hook.  The context's is_low_prio predicate is the TLS one the spec *)
(* names: true while the handshake is in progress; a handshake needs at    *)
(* most HandshakeReads reads.  User on_data may close this or any other    *)
(* socket.                                                                 *)
(***************************************************************************)
EXTENDS Integers, Sequences, FiniteSets

CONSTANTS
  Sockets,          \* sockets of the context (model values)
  MaxLowPrio,       \* MAX_LOW_PRIO_SOCKETS_PER_LOOP_ITERATION (5 in the code)
  HandshakeReads    \* reads a handshake needs before is_low_prio turns false

ASSUME MaxLowPrio \in Nat \ {0} /\ HandshakeReads \in Nat

R == "readable"
W == "writable"

VARIABLES
  ctxSocks,       \* sockets linked in the context's socket list
  lowPrio,        \* loop->data.low_prio_head as a sequence, head first
  closed,         \* sockets closed (on the closed list or freed)
  lps,            \* s->flags.low_prio_state
  events,         \* the poll's interest mask
  budget,         \* loop->data.low_prio_budget
  ctxRef,         \* context references taken by the low-priority path
  pending,        \* the kernel holds unread bytes for the socket
  hsLeft,         \* handshake reads still needed (0: handshake done)
  phase,          \* "pre", "wait", "dispatch", "post"
  batch,          \* ready polls of this iteration not yet dispatched
  heavy           \* sockets read this iteration while is_low_prio held

vars == << ctxSocks, lowPrio, closed, lps, events, budget, ctxRef, pending,
           hsLeft, phase, batch, heavy >>

Open == Sockets \ closed

\* context->is_low_prio: SSL_in_init for TLS contexts.
IsLowPrio(s) == hsLeft[s] > 0

InList(s) == \E i \in 1..Len(lowPrio) : lowPrio[i] = s

(***************************************************************************)
(* Pre-hook (loop.c 269-274) with us_internal_handle_low_priority_sockets: *)
(* refill the budget, then move up to budget sockets from the head of the  *)
(* low-priority list back into the context, re-enable READABLE and mark    *)
(* them state 2; each one costs one unit of budget.                        *)
(***************************************************************************)
\* How many sockets one pass promotes.
PromoteCount == IF Len(lowPrio) < MaxLowPrio THEN Len(lowPrio) ELSE MaxLowPrio

\* A plausible bug: the for-loop forgets to charge the budget per socket.
PromotedBudgetFree(k) == MaxLowPrio

\* A plausible bug: an off-by-one charges one unit too many.
PromotedBudgetOffByOne(k) == MaxLowPrio - k - 1

\* The budget left once k sockets were promoted.
PromotedBudget(k) == MaxLowPrio - k

\* loop.c 183: the promoted socket polls for READABLE again.
PromotedEvents(s) == events[s] \cup {R}

HandleLowPriority ==
  LET k        == PromoteCount
      promoted == {lowPrio[i] : i \in 1..k}
  IN
  /\ phase = "pre"
  /\ budget' = PromotedBudget(k)
  /\ lowPrio' = SubSeq(lowPrio, k + 1, Len(lowPrio))
  /\ ctxSocks' = ctxSocks \cup promoted
  /\ events' = [s \in Sockets |-> IF s \in promoted THEN PromotedEvents(s) ELSE events[s]]
  /\ lps' = [s \in Sockets |-> IF s \in promoted THEN 2 ELSE lps[s]]
  /\ heavy' = 0
  /\ phase' = "wait"
  /\ UNCHANGED << closed, ctxRef, pending, hsLeft, batch >>

(***************************************************************************)
(* Poll-wait: the level-triggered poller returns every open socket that    *)
(* polls for READABLE and has unread bytes; with none it keeps waiting.    *)
(***************************************************************************)
PollWait ==
  LET ready == {s \in Open : R \in events[s] /\ pending[s]} IN
  /\ phase = "wait"
  /\ ready # {}
  /\ batch' = ready
  /\ phase' = "dispatch"
  /\ UNCHANGED << ctxSocks, lowPrio, closed, lps, events, budget, ctxRef,
                  pending, hsLeft, heavy >>

\* Bytes arrive from the peer at any time.
Arrive(s) ==
  /\ s \in Open
  /\ ~pending[s]
  /\ pending' = [pending EXCEPT ![s] = TRUE]
  /\ UNCHANGED << ctxSocks, lowPrio, closed, lps, events, budget, ctxRef,
                  hsLeft, phase, batch, heavy >>

(***************************************************************************)
(* us_socket_close as user code calls it: a parked socket leaves the low-  *)
(* priority list and gives back the context reference the parking took;    *)
(* any other socket is unlinked from the context.  Its poll is stopped, so *)
(* a pending ready event for it is discarded.                              *)
(***************************************************************************)
CloseEffect(victims) ==
  /\ ctxSocks' = ctxSocks \ victims
  /\ lowPrio' = SelectSeq(lowPrio, LAMBDA y : y \notin victims)
  /\ ctxRef' = ctxRef - Cardinality({x \in victims : InList(x)})
  /\ closed' = closed \cup victims

(***************************************************************************)
(* The readable phase for a ready socket s (loop.c 376-405 and the receive *)
(* loop after it, whose on_data is where the handshake makes progress).    *)
(***************************************************************************)
\* A plausible bug: parking leaves the READABLE interest in place.
ParkKeepingReadable(s) ==
  /\ events' = events
  /\ ctxRef' = ctxRef + 1
  /\ ctxSocks' = ctxSocks \ {s}
  /\ lowPrio' = << s >> \o lowPrio
  /\ lps' = [lps EXCEPT ![s] = 1]
  /\ UNCHANGED << budget, closed, pending, hsLeft, heavy >>

\* loop.c 387-404: park s at the head of the low-priority list.
Park(s) ==
  /\ events' = [events EXCEPT ![s] = @ \cap {W}]
  /\ ctxRef' = ctxRef + 1
  /\ ctxSocks' = ctxSocks \ {s}
  /\ lowPrio' = << s >> \o lowPrio
  /\ lps' = [lps EXCEPT ![s] = 1]
  /\ UNCHANGED << budget, closed, pending, hsLeft, heavy >>

\* The receive loop reads what is there and calls on_data, which may close
\* one open socket (s itself or another one) or none.
ReadAndCallback(s, newLps, newBudget) ==
  /\ budget' = newBudget
  /\ pending' = [pending EXCEPT ![s] = FALSE]
  /\ hsLeft' = [hsLeft EXCEPT ![s] = IF @ > 0 THEN @ - 1 ELSE 0]
  /\ heavy' = IF IsLowPrio(s) THEN heavy + 1 ELSE heavy
  /\ \E victims \in {{}} \cup {{x} : x \in Open} :
       /\ CloseEffect(victims)
       /\ lps' = [x \in Sockets |->
                   IF x \in victims /\ InList(x) THEN 0
                   ELSE IF x = s THEN newLps ELSE lps[x]]
  /\ UNCHANGED events

DispatchReadable(s) ==
  /\ phase = "dispatch"
  /\ s \in batch \cap Open
  /\ batch' = batch \ {s}
  /\ IF ~IsLowPrio(s)
     THEN ReadAndCallback(s, lps[s], budget)
     ELSE IF lps[s] = 2
     THEN ReadAndCallback(s, 0, budget)
     ELSE IF budget > 0
     THEN ReadAndCallback(s, lps[s], budget - 1)
     ELSE Park(s)
  /\ UNCHANGED phase

\* Stopped polls leave the batch: a socket closed by an earlier callback
\* of this iteration is not dispatched.
DispatchDone ==
  /\ phase = "dispatch"
  /\ batch \cap Open = {}
  /\ batch' = {}
  /\ phase' = "post"
  /\ UNCHANGED << ctxSocks, lowPrio, closed, lps, events, budget, ctxRef,
                  pending, hsLeft, heavy >>

\* Post-hook (loop.c 276-281): closed sockets are freed; the next
\* iteration begins while any poll is left.
PostHook ==
  /\ phase = "post"
  /\ Open # {}
  /\ phase' = "pre"
  /\ UNCHANGED << ctxSocks, lowPrio, closed, lps, events, budget, ctxRef,
                  pending, hsLeft, batch, heavy >>

Init ==
  /\ ctxSocks = Sockets
  /\ lowPrio = << >>
  /\ closed = {}
  /\ lps = [s \in Sockets |-> 0]
  /\ events = [s \in Sockets |-> {R}]
  /\ budget = 0
  /\ ctxRef = 0
  /\ pending \in [Sockets -> BOOLEAN]
  /\ hsLeft = [s \in Sockets |-> HandshakeReads]
  /\ phase = "pre"
  /\ batch = {}
  /\ heavy = 0

Next ==
  \/ HandleLowPriority \/ PollWait \/ DispatchDone \/ PostHook
  \/ \E s \in Sockets : Arrive(s) \/ DispatchReadable(s)

\* The loop thread runs every step it can; the kernel reports ready sockets.
Fairness ==
  /\ WF_vars(HandleLowPriority) /\ WF_vars(PollWait)
  /\ WF_vars(DispatchDone) /\ WF_vars(PostHook)
  /\ \A s \in Sockets : WF_vars(DispatchReadable(s))

Spec == Init /\ [][Next]_vars /\ Fairness

(***************************************************************************)
(* Properties                                                              *)
(***************************************************************************)
\* Every variable has its type; in particular the budget the pre-hook
\* leaves (loop.c 174-176) stays within 0..MAX_LOW_PRIO_SOCKETS.
TypeOK ==
  /\ ctxSocks \subseteq Sockets /\ closed \subseteq Sockets
  /\ lowPrio \in Seq(Sockets)
  /\ lps \in [Sockets -> 0..2]
  /\ events \in [Sockets -> SUBSET {R, W}]
  /\ budget \in 0..MaxLowPrio /\ ctxRef \in Nat
  /\ pending \in [Sockets -> BOOLEAN]
  /\ hsLeft \in [Sockets -> 0..HandshakeReads]
  /\ phase \in {"pre", "wait", "dispatch", "post"}
  /\ batch \subseteq Sockets /\ heavy \in Nat

\* Every open socket is in exactly one place -- the context's list or the
\* low-priority list, and there only once, in state 1 -- across parking,
\* promotion and closes by other sockets' callbacks.  This rests on
\* loop.c 389 dropping READABLE from a parked socket's poll: a parked
\* socket that were dispatched again would be parked a second time.
SingleListMembership ==
  /\ \A s \in Open : (s \in ctxSocks) # InList(s)
  /\ \A i, j \in 1..Len(lowPrio) : lowPrio[i] = lowPrio[j] => i = j
  /\ \A i \in 1..Len(lowPrio) :
       /\ lowPrio[i] \notin closed
       /\ lps[lowPrio[i]] = 1

\* The budget bounds expensive work: in one iteration, the sockets read
\* while their context called them low-priority -- the promoted ones
\* (state 2) and those admitted on budget -- never exceed
\* MAX_LOW_PRIO_SOCKETS_PER_LOOP_ITERATION.
BudgetBound == heavy <= MaxLowPrio

\* The context references the low-priority path holds are exactly one per
\* parked socket: loop.c 390 takes one when a socket is parked, so that
\* the context cannot be freed "while the socket is parked".
ContextRefPerParked == ctxRef = Len(lowPrio)
=============================================================================
