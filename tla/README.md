# TLA+ models of the usockets event loop and Bun's ScriptExecutionContext

This directory holds TLA+ models of two source files:

- `src/packages/bun-usockets/src/loop.c`: the platform-independent part of the usockets event loop.
- `src/src/bun.js/bindings/ScriptExecutionContext.cpp`: Bun's per-thread JavaScript execution context.

Each module is translated from the code, and `PROJECT.json` maps each definition to the lines it models. Every run is checked with TLC.

## The system

### loop.c

One thread drives a loop. It runs the **pre-hook**, then **poll-wait** on the platform poller, then **dispatch** for each ready poll, then the **post-hook**. These parts interact:

- **Registry.** Socket contexts are kept on a doubly linked list of the loop (`us_internal_loop_link/unlink`, 84–107). Each context keeps its own socket list. Closed sockets and contexts move to closed lists, which reuse the same `next` field. They are freed in the post-hook (227–258).
- **Timeout sweep.** A 4-second timer runs `us_internal_timer_sweep` (110–163):
  - It advances `global_tick`.
  - For each context it computes a short slot (`tick % 240`) and a long slot (`(tick/15) % 240`).
  - It walks the socket list through `context->iterator`, calling `on_timeout` / `on_long_timeout`.
  - Those callbacks may close or re-arm any socket. They may also close the context. The unlink routine retargets the iterator, and the walk resumes from it.
  - The timer is set only while `sweep_timer_count` is non-zero; every linked socket holds one count (`us_internal_enable/disable_sweep_timer`, 35–47).
- **Low-priority admission.** In the readable phase (376–405), a socket whose context reports `is_low_prio` (a TLS handshake) costs one unit of a per-iteration budget (`MAX_LOW_PRIO_SOCKETS_PER_LOOP_ITERATION` = 5). Once the budget is spent, the socket is **parked**:
  - its poll drops READABLE;
  - the code takes a context reference;
  - the socket goes to the head of `low_prio_head`.

  In the next iteration, the pre-hook's `us_internal_handle_low_priority_sockets` (170–187) refills the budget and promotes up to that many sockets, each in state 2.
- **DNS hand-off.** Resolver worker threads call `us_internal_dns_callback_threadsafe` (200–207). It pushes the connecting socket onto `dns_ready_head` under a mutex, then wakes the loop through the wakeup async (80–82). The wakeup dispatch (291–301) only clears the async so that poll-wait returns; the loop drains the list in the pre- and post-hooks (`us_internal_handle_dns_results`, 217–224):
  - it detaches the list under the lock;
  - it calls `after_resolve` on each socket, saving `next` first, because `after_resolve` may close the socket and push it onto `closed_connecting_head`.
- **Dispatch core** (289–566): callback polls, semi-sockets (accept, connect), socket phases (writable, readable receive loop, EOF, error) and UDP.

### ScriptExecutionContext.cpp

A `ScriptExecutionContext` belongs to one JavaScript thread (the main thread or a worker).

- **Registry.** A process-wide map from identifier to context, guarded by `allScriptExecutionContextsMapLock`. Identifiers come from the atomic counter `lastUniqueIdentifier`; the main context has identifier 1. Any thread may call `postTaskTo`, `ensureOnContextThread`, `ensureOnMainThread` or `ScriptExecutionContextIdentifier__getGlobalObject` with an identifier, while workers remove themselves from the map (`removeFromContextsMap`) and are destroyed on their own thread.
- **MessagePort dispatch.** `processMessageWithMessagePortsSoon` appends a completion handler and posts at most one `dispatchMessagePortEvents` task (flag `m_willProcessMessageWithMessagePortsSoon`). The task dispatches the started ports of a frozen copy of `m_messagePorts`, then runs the handlers it took. Port callbacks and handlers are user code that re-enters the context.
- **Destruction.** The destructor runs the handlers still appended, then drains `m_destructionObservers` with `takeAny`, calling each observer's `contextDestroyed`, which may create or destroy observers.
- Lazy creation of the WebSocket client socket contexts (not modelled, see below).

## Modules

| Module | Models | State ↔ code |
|---|---|---|
| `TimerSweep` | the timeout sweep with re-entrant callbacks, the loop's context list (link of contexts created later, unlink), socket lists, linking of sockets accepted later, deferred free, the sweep-timer refcount (enable and disable) | `chead/cnext/cprev` = `loop->data.head` and the context `next/prev`; `shead/snext/sprev` = `context->head_sockets` and the socket links; `timeout/long_timeout` = the socket bytes; `ctxIter/loopIter` = `context->iterator` and `loop->data.iterator`; `sweepCount/timerOn` = `sweep_timer_count` and whether the timer is set; `pc` = the position in the sweep's code |
| `LowPrioQueue` | admission, parking, promotion, over whole loop iterations | `lowPrio` = `low_prio_head` (head first); `lps` = `low_prio_state`; `events` = the poll's interest mask; `budget`; `ctxRef` = references taken at parking |
| `DnsHandoff` | worker threads and the loop exchanging DNS results; the pre-hook's order; the free of closed connecting sockets | `dnsHead/cnext` = `dns_ready_head` and the socket `next`; `mutex`; `wakeup` = a pending async; `wpc` = each worker's program counter; `cursor` = the drain's saved pointer |
| `DnsMailbox` | the abstract promise of the hand-off: every published result is delivered once and eventually | `produced`, `delivered` |
| `SocketDispatch` | `us_internal_dispatch_ready_poll` (289-564) for one poll: a TCP socket, an IPC socket, a listen socket or a UDP socket (`kind`, chosen in Init) | `interest` = `us_poll_events`; `closed`, `shutDown`, `allowHalfOpen`; `lastWriteFailed` = `loop->data.last_write_failed`; `buf/fin/reset` = what the kernel holds (bytes, connections or datagrams; FIN; RST or a queued error); `fdAt` = the unread unit that carries a descriptor (SCM_RIGHTS) on an IPC socket; `ev/err/eof` = the dispatch's arguments; `numReady` = `num_ready_polls`; `repeat` = `repeat_recv_count`; `pc` = the phase |
| `ContextRegistry` | the identifier map and the cross-thread operations of ScriptExecutionContext.cpp | `ctxMap` = the map (a partial function); `lastId` = `lastUniqueIdentifier` (`IdBits` wide); `ident` = `m_identifier`; `state` = unborn/live/removed/destroyed; `pc/ptr` = what a thread does with the pointer it carried past the unlock |
| `MessagePortSoon` | MessagePort dispatch coalescing and the destructor of one context, on its thread | `handlers`, `willProcess`, `queued` (posted tasks), `ports`, `started`, `snapshot` (the frozen copy), `taken`; `observers` = `m_destructionObservers`, `obs` = each observer's life; `pc` = the dispatch or destructor step |
| `MC*` | instantiate the above with model values | |

`DnsHandoff` implements `DnsMailbox`. The refinement mapping is:

- `produced` ← the sockets whose worker has published;
- `delivered` ← the sockets `after_resolve` was called on.

`DnsMailbox!Spec`, including its fairness, is checked as a PROPERTY.

Each action models one whole handler step. In particular:

- A user callback (`on_timeout`, `on_data`, `on_writable`, `on_end`, `on_open`, `on_drain`, `after_resolve`, a port dispatch, a completion handler, `contextDestroyed`) is a step that may perform one operation user code can call (close a socket or context, shut down, write and fail, re-arm a timeout, append a handler, create or destroy a port or observer) or nothing. The variable `cbUsed` limits it to one.
- A region under a lock is one atomic step; what a thread carries past the unlock is state (`ptr` in ContextRegistry, `cursor` in DnsHandoff).
- Operations whose code is not under `src/` are modelled from the spec and marked `spec_modelled` in the map: `us_socket_close`, `us_socket_context_close`, `us_socket_timeout`, `us_socket_shutdown`, `us_udp_socket_close`, `us_listen_socket_close`, `MessagePort::start`, the poller.

## Runs

| Run | Config | Expect | What it shows |
|---|---|---|---|
| `sweep_walk` | `MCTimerSweep.cfg` | pass | The walk never leaves the swept context's live list; every matching short or long timeout fires in its sweep, whatever callbacks close or re-arm (`WalkStaysInContext`, `NoMissedTimeout`); the sweep timer runs exactly while a socket is linked, also when a socket accepted after the timer stopped restarts it (`SweepTimerMatchesSockets`); the post-hook's walks over the closed lists free every closed socket and context once (`NoDoubleFree`) and none is left off them (`ClosedListsComplete`); the loop's context list stays a well-formed doubly linked list of the live contexts while contexts are created at its head, also from timeout callbacks, and closed (`ContextListWellFormed`). |
| `sweep_context_freed` | `MCTimerSweep_ctx.cfg` | violation | `EveryContextTicked` fails: a callback that closes the context being swept sends the for-loop (113) through the context's reused `next` into the closed-context list. |
| `lowprio_admission` | `MCLowPrioQueue.cfg` | pass | `SingleListMembership`, `BudgetBound` (below). |
| `lowprio_context_ref` | `MCLowPrioQueue_ref.cfg` | violation | `ContextRefPerParked` fails: the reference taken when parking (390) is never released on promotion (176–186). |
| `dns_handoff` | `MCDnsHandoff.cfg` | pass | `NoLostResult`, `ResolveAtMostOnce`, `PreCallbackSeesEarlierResults`, `ClosedConnectingFreed`, `ImplementsMailbox` (below). |
| `socket_dispatch` | `MCSocketDispatch.cfg` | pass | For a TCP, IPC, listen or UDP poll: no callback or accept on a closed poll, including `on_data` after an `on_fd` that closed the socket (`NoCallbackAfterClose`), `on_end` at most once (`EndAtMostOnce`), a UDP socket closed at most once (`UdpClosedOnce`), and every TCP or IPC dispatch returns (`DispatchReturns`). |
| `socket_repeat_recv_starvation` | `MCSocketDispatch_starve.cfg` | violation | `DispatchReturns` fails with two ready polls: the repeat-recv cap applies only when more than two polls are ready. |
| `registry_tasks` | `MCContextRegistry.cfg` | pass | Workers come and go, the main context regenerates its identifier: no task reaches a destroyed context (`TasksReachLiveContexts`) and every live context resolves under its identifier (`IdentifierResolves`). |
| `registry_stale_entry` | `MCContextRegistry_stale.cfg` | violation | `TasksReachLiveContexts` fails once a worker regenerates its identifier. |
| `registry_identifier_wrap` | `MCContextRegistry_wrap.cfg` | violation | `IdentifierResolves` fails when the counter wraps (2 bits here, 32 in the code). |
| `registry_raw_pointer` | `MCContextRegistry_rawptr.cfg` | violation | `GlobalObjectOfLiveContext` fails: the pointer is dereferenced after the unlock. |
| `messageport_soon` | `MCMessagePortSoon.cfg` | pass | Handlers run once (`HandlerCalledAtMostOnce`) and eventually (`EveryHandlerCalled`), the destructor never notifies a freed observer (`NoNotifyOfFreedObserver`) and leaves none pointing at the freed context (`NoDanglingObserver`). |

The properties of `lowprio_admission`:

- `SingleListMembership`: every open socket is in exactly one list, and the low-priority list has no duplicates.
- `BudgetBound`: the expensive reads of one iteration stay within the budget.
- No liveness property is checked here. LIFO parking is unfair by design (comment at 393–395, spec §4.4), and starvation needs an unbounded stream of new handshakes; in the bounded instance each socket parks at most `HandshakeReads` times, so a leads-to would hold whatever the order.

The properties of `dns_handoff`:

- `NoLostResult`: concurrent pushes and detaches lose no result.
- `ResolveAtMostOnce`: `after_resolve` runs at most once per socket, even when it closes the socket.
- `PreCallbackSeesEarlierResults`: spec.md ("DNS ordering") says every result enqueued before a pre-hook reaches user code before the pre-callback returns. The pre-hook is modelled in its code order: the drain, then the user pre-callback (`PreHook`). The low-priority step between them is in LowPrioQueue. A history variable `atPre` records what was published when the hook began.
- `ClosedConnectingFreed`: the post-hook walks the closed-connecting chain through `c->next` (242–247). No socket closed by a failing `after_resolve` is left unfreed after it.
- `ImplementsMailbox`: the refinement holds, including that a sleeping loop is woken for every result.

`sweep_walk` and `lowprio_admission` also check `TypeOK`. In TimerSweep it includes that the timestamps are wheel slots, so the wheel wrap at tick 240 is checked. The other modules define `TypeOK` but no run checks it, because no plausible code bug changes a type there.

Every property of a passing run has a mutant in `PROJECT.json`: a plausible bug in the mapped code (a missing iterator retarget, no lock, wake before push, budget not charged, a dropped `is_closed` check, the repeat cap dropped, an unguarded UDP error close, an observer not unregistered, a timer stopped one unlink early, ...). TLC finds each mutant's property violated.

### Bounds

- **TimerSweep:** two contexts and three sockets linked at the start (two sockets in one context). A third context `c3` is created later, by user code between sweeps or inside a timeout callback, and a fourth socket is then accepted into it: linked at the head of its list, it takes a sweep-timer count. This is about 2.4 million states, explored in under 2 minutes; `StartTick = 239`, so the first sweep wraps the short wheel (tick 240 is slot 0) and advances the long wheel (240/15 = 16); timeouts armed up to 2 ticks ahead; 2 sweeps (3 in the `_ctx` run). Two sockets in one context are needed for the close-a-sibling case, two contexts for the context-close case; two sweeps let a timeout re-armed in a callback of the first fire in the second, and let the first pass over one armed two ticks ahead. Closing a context unlinks several sockets at once, which the refcount must follow.
- **LowPrioQueue:** three sockets; `MaxLowPrio = 1`, so parking happens in the first iteration with two ready sockets; handshakes of 2 reads.
- **DnsHandoff:** two sockets resolved by worker threads (the least for a race between pushes), and one cached result delivered inline (191–198).
- **SocketDispatch:** the kernel holds up to 3 units (a full recv is 2), so a read can be full, partial or empty and the peer can refill between reads; `RepeatCap = 10` as in the code; `num_ready_polls` is 3 (the cap applies) or 25 (no repeats) in the pass run, and 2 in the violation run. Counting the repeats past 11 is an exact abstraction: the code only tests `> 10`.
- **ContextRegistry:** a main context, two workers and one foreign thread (the least for a worker destroyed while another thread posts to it); a 3-bit counter with at most 7 identifiers in the pass run, so no wrap, and a 2-bit counter in the wrap run.
- **MessagePortSoon:** two handlers, two port addresses (one reused after destroy), two observers (one destroyed or created inside the other's `contextDestroyed`).

### Fairness and deadlock

- **The loop thread:** loop actions are weakly fair (TimerSweep has no liveness property and no fairness). The loop thread never blocks except in poll-wait, and poll-wait returns once a poll is ready (level-triggered). In SocketDispatch only the dispatch steps are fair: poll-wait and the peer need not act.
- **DNS workers:** each worker is weakly fair, since a thread holding the mutex releases it.
- **MessagePortSoon:** the context's event loop runs posted tasks and a begun destructor to its end (weak fairness); user code and destruction need not happen.
- **Deadlock checking is off** where the system really stops: LowPrioQueue (`us_loop_run` returns when no poll is left), DnsHandoff and SocketDispatch (an idle loop blocks in poll-wait, a closed poll has nothing left), ContextRegistry and MessagePortSoon (all workers destroyed, a freed context).

### Modelling choices to know

- In SocketDispatch the backend reports `eof` only on a poll that reads (kqueue `EV_EOF` and epoll `RDHUP` belong to the read filter), so a half-open socket that stopped polling READABLE is not told EOF again.
- `recv` and `recvmmsg` return queued data before a pending error, as Linux does; a UDP error is cleared when reported.
- On an IPC socket at most one descriptor is in flight, and `recvmsg` returns the data up to and including the unit that carries it, and no further, as a Linux Unix stream socket does. So the data read with a descriptor goes to `on_data` right after `on_fd`, and such a read is full only when that unit ends a full buffer, so it usually ends the repeat-recv loop.
- `DispatchReturns` is stated for TCP and IPC sockets only. The accept loop and the UDP loop drain until `EAGAIN` by design, so a flood keeps them busy (listed as a hazard).

## Findings

1. **Sweep skips contexts when one is closed inside its own timeout callback** (loop.c 113). Context close is modelled from the spec, because `context.c` is not under `src/`.
2. **Context reference leak on promotion** (loop.c 390 vs 176–186).
3. **`regenerateIdentifier` leaves a stale map entry** (ScriptExecutionContext.cpp 343): `removeFromContextsMap` removes only the current identifier, so `postTaskTo` with the old one reaches a destroyed context.
4. **Identifier wrap** (cpp 337): after 2^32 identifiers a worker gets the main context's identifier and `HashMap::add` keeps main's entry, so the worker is never found.
5. **Raw pointer used after unlock** (cpp 76, 403–407): `getGlobalObject` from another thread can read a context its worker destroyed meanwhile. No comment or test says which threads may call it, so this is a spec gap.
6. **Repeat-recv cap** (loop.c 471 vs the comment at 469): with two or fewer ready polls, a peer that keeps the buffer full holds the loop in `on_data` forever.

## What is not modelled

- **Poller backends:** not in `src/`. Their effect is the environment choice of ready polls and events (`PollWait`, `PollReady`).
- **Connect completion** (loop.c 307): `us_internal_socket_after_open` is outside `src/`. The IPC receive path (420–447) is modelled, with `on_fd` as a user callback; the IPC handlers themselves are outside `src/`.
- **The CALLBACK case** (291–301) other than the wakeup async, which DnsHandoff models.
- **Composition of the loop modules** over one iteration (pre-hook, poll, dispatch, post-hook): each module models its part with the others as environment. Sockets accepted after the start are linked in TimerSweep and take a sweep-timer count; the promotion of parked sockets from the low-priority queue (LowPrioQueue) is not composed with the refcount.
- **The closed UDP list** (loop.c 235–240): the same walk as the closed socket list, over a list that no modelled action fills. The closed connecting list is walked in DnsHandoff.
- **Allocation and accessors:** loop data init/free, ext, integrate, `executionContext`, `globalObject`, `refEventLoop`.
- **The Zig task queues** behind `postTask`, `postTaskConcurrently` and `postTaskOnTimeout` (cpp 369–395): a post is one step; what the queue does is in Zig code.
- **WebSocket context set-up** (cpp 79–116, 296–333): lazy creation on the context thread, with no concurrency.
- **The `global_tick` wrap at 2^32:** one sweep every 4 s reaches it after about 544 years of uptime, so it is not listed as a hazard. The wheel arithmetic at the wrap of the short wheel (tick 239 to 240) is checked from `StartTick`.
- **Socket adoption** (`us_socket_context_adopt_socket`, outside `src/`): a callback may move a socket to another context or loop. The re-check `context->iterator == s` at loop.c 146 and the `last_write_failed` read at 371 only matter then. In the model a close disarms both timeouts, so dropping the re-check changes nothing. These two hazards are therefore listed without a property.
- **Handlers called by the destructor** (cpp 140–142) are called in one step with no user code. A handler appended from inside one of them would land in a vector that is never run again; `EveryHandlerCalled` covers only handlers appended while the context is alive.
- **The debug assertions** at cpp 167 and 175 (no observer created or destroyed during the destructor) are not modelled: the model is of the release build, where they are compiled out. `NoNotifyOfFreedObserver` and `NoDanglingObserver` hold there as well.
