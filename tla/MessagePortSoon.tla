--------------------------- MODULE MessagePortSoon ---------------------------
(***************************************************************************)
(* Coalesced MessagePort dispatch of one ScriptExecutionContext           *)
(* (ScriptExecutionContext.cpp 128-150, 231-294), all on the context's    *)
(* thread.  processMessageWithMessagePortsSoon appends a completion        *)
(* handler and posts at most one dispatchMessagePortEvents task, guarded  *)
(* by m_willProcessMessageWithMessagePortsSoon.  The task clears the flag,*)
(* takes the handlers, dispatches the started ports of a frozen copy of   *)
(* m_messagePorts and runs the handlers.  Port dispatch and handlers are  *)
(* user code: each may call processMessageWithMessagePortsSoon again,     *)
(* create, start or destroy ports (a new port may reuse a freed port's    *)
(* address: Ports are addresses).  The destructor runs the handlers left *)
(* and then notifies every ContextDestructionObserver still registered     *)
(* (lines 140-145, 164-178); an observer's contextDestroyed is user code   *)
(* that may create or destroy observers.                                   *)
(***************************************************************************)
EXTENDS Integers, Sequences, FiniteSets

CONSTANTS
  Handlers,   \* completion handlers (each appended once)
  Ports,      \* MessagePort addresses
  Observers   \* ContextDestructionObserver objects (each created once)

VARIABLES
  handlers,     \* m_processMessageWithMessagePortsSoonHandlers
  willProcess,  \* m_willProcessMessageWithMessagePortsSoon
  queued,       \* dispatchMessagePortEvents tasks posted and not yet run
  ports,        \* m_messagePorts
  started,      \* the port at each address has been started
  alive,        \* the context is not destroyed
  pc,           \* "idle", "ports", "port_cb", "handlers", "handler_cb",
                \* "dtor_observers", "observer_cb", "freed"
  snapshot,     \* ports of the frozen copy not yet visited
  taken,        \* handlers taken by the running dispatch, not yet called
  cbUsed,       \* the running callback already made its one user call
  appended,     \* handlers ever appended
  ran,          \* how many times each handler was called
  observers,    \* m_destructionObservers
  obs,          \* each observer: "none", "attached" (m_context is this),
                \* "detached" (told contextDestroyed), "freed"
  freedNotify   \* contextDestroyed was called on a freed observer

obsVars == << observers, obs, freedNotify >>

vars == << handlers, willProcess, queued, ports, started, alive, pc, snapshot,
           taken, cbUsed, appended, ran, obsVars >>

\* The calls user code makes: outside any dispatch, or as the one call of
\* a running port dispatch or completion handler.
MayRunUserCode ==
  /\ alive
  /\ \/ pc = "idle"
     \/ pc \in {"port_cb", "handler_cb"} /\ ~cbUsed

UserStep == cbUsed' = (pc # "idle")

CallAll(hs) == [h \in Handlers |-> ran[h] + Cardinality({i \in 1..Len(hs) : hs[i] = h})]

(***************************************************************************)
(* processMessageWithMessagePortsSoon (lines 231-245)                      *)
(***************************************************************************)
ProcessMessageWithMessagePortsSoon(h) ==
  /\ MayRunUserCode
  /\ h \notin appended
  /\ appended' = appended \cup {h}
  /\ handlers' = Append(handlers, h)
  /\ willProcess' = TRUE
  /\ queued' = IF willProcess THEN queued ELSE queued + 1
  /\ UserStep
  /\ UNCHANGED << ports, started, alive, pc, snapshot, taken, ran, obsVars >>

\* createdMessagePort / destroyedMessagePort (lines 282-294), and start().
CreatedMessagePort(p) ==
  /\ MayRunUserCode
  /\ p \notin ports
  /\ ports' = ports \cup {p}
  /\ started' = [started EXCEPT ![p] = FALSE]
  /\ UserStep
  /\ UNCHANGED << handlers, willProcess, queued, alive, pc, snapshot, taken,
                  appended, ran, obsVars >>

StartPort(p) ==
  /\ MayRunUserCode
  /\ p \in ports /\ ~started[p]
  /\ started' = [started EXCEPT ![p] = TRUE]
  /\ UserStep
  /\ UNCHANGED << handlers, willProcess, queued, ports, alive, pc, snapshot,
                  taken, appended, ran, obsVars >>

DestroyedMessagePort(p) ==
  /\ MayRunUserCode
  /\ p \in ports
  /\ ports' = ports \ {p}
  /\ UserStep
  /\ UNCHANGED << handlers, willProcess, queued, started, alive, pc, snapshot,
                  taken, appended, ran, obsVars >>

(***************************************************************************)
(* dispatchMessagePortEvents (lines 247-268), one step per call it makes   *)
(***************************************************************************)
\* A plausible bug: the flag is never reset.
ClearedFlagNotYet == willProcess

\* line 253
ClearedFlag == FALSE

\* A plausible bug: the handlers are copied, not moved out.
HandlersLeftCopied == handlers

\* line 255: std::exchange leaves an empty vector.
HandlersLeft == << >>

RunDispatchTask ==
  /\ alive /\ pc = "idle" /\ queued > 0
  /\ queued' = queued - 1
  /\ willProcess' = ClearedFlag
  /\ taken' = handlers
  /\ handlers' = HandlersLeft
  /\ snapshot' = ports
  /\ pc' = "ports"
  /\ UNCHANGED << ports, started, alive, cbUsed, appended, ran, obsVars >>

\* line 262: the port is still registered (maybe a new one at p).
StillRegistered(p) == p \in ports

DispatchPort(p) ==
  /\ alive /\ pc = "ports" /\ p \in snapshot
  /\ snapshot' = snapshot \ {p}
  /\ IF StillRegistered(p) /\ started[p]
     THEN /\ pc' = "port_cb"
          /\ cbUsed' = FALSE
     ELSE UNCHANGED << pc, cbUsed >>
  /\ UNCHANGED << handlers, willProcess, queued, ports, started, alive, taken,
                  appended, ran, obsVars >>

PortDispatched ==
  /\ pc = "port_cb"
  /\ pc' = "ports"
  /\ UNCHANGED << handlers, willProcess, queued, ports, started, alive, snapshot,
                  taken, cbUsed, appended, ran, obsVars >>

PortsDone ==
  /\ alive /\ pc = "ports" /\ snapshot = {}
  /\ pc' = "handlers"
  /\ UNCHANGED << handlers, willProcess, queued, ports, started, alive, snapshot,
                  taken, cbUsed, appended, ran, obsVars >>

\* lines 266-267: call the taken handlers in order.
RunHandler ==
  /\ alive /\ pc = "handlers" /\ taken # << >>
  /\ ran' = [ran EXCEPT ![Head(taken)] = @ + 1]
  /\ taken' = Tail(taken)
  /\ pc' = "handler_cb"
  /\ cbUsed' = FALSE
  /\ UNCHANGED << handlers, willProcess, queued, ports, started, alive, snapshot,
                  appended, obsVars >>

HandlerReturned ==
  /\ pc = "handler_cb"
  /\ pc' = "handlers"
  /\ UNCHANGED << handlers, willProcess, queued, ports, started, alive, snapshot,
                  taken, cbUsed, appended, ran, obsVars >>

HandlersDone ==
  /\ alive /\ pc = "handlers" /\ taken = << >>
  /\ pc' = "idle"
  /\ UNCHANGED << handlers, willProcess, queued, ports, started, alive, snapshot,
                  taken, cbUsed, appended, ran, obsVars >>

(***************************************************************************)
(* Destruction observers (lines 164-178): ContextDestructionObserver       *)
(* objects register when built against the context and unregister when  *)
(* destroyed, unless they were already told contextDestroyed (their      *)
(* context pointer is then null).  Observer code runs on the context's   *)
(* thread, also inside contextDestroyed during the destructor.           *)
(***************************************************************************)
MayRunObserverCode == MayRunUserCode \/ (pc = "observer_cb" /\ ~cbUsed)

\* A plausible bug: an observer is not registered (the debug-only assert
\* of line 167 turned into an early return during destruction, say).
AddObserverIgnored(S, o) == S

\* line 169: m_destructionObservers.add
AddObserver(S, o) == S \cup {o}

\* A plausible bug: the observer is not unregistered.
RemoveObserverNothing(S, o) == S

\* line 177: m_destructionObservers.remove
RemoveObserver(S, o) == S \ {o}

DidCreateDestructionObserver(o) ==
  /\ MayRunObserverCode
  /\ obs[o] = "none"
  /\ observers' = AddObserver(observers, o)
  /\ obs' = [obs EXCEPT ![o] = "attached"]
  /\ UserStep
  /\ UNCHANGED << handlers, willProcess, queued, ports, started, alive, pc, snapshot,
                  taken, appended, ran, freedNotify >>

WillDestroyDestructionObserver(o) ==
  /\ MayRunObserverCode
  /\ obs[o] \in {"attached", "detached"}
  /\ observers' = IF obs[o] = "attached" THEN RemoveObserver(observers, o) ELSE observers
  /\ obs' = [obs EXCEPT ![o] = "freed"]
  /\ UserStep
  /\ UNCHANGED << handlers, willProcess, queued, ports, started, alive, pc, snapshot,
                  taken, appended, ran, freedNotify >>

(***************************************************************************)
(* ~ScriptExecutionContext (lines 128-150) on the context's thread         *)
(***************************************************************************)
\* lines 140-142: the handlers still appended are called; the context's
\* task queue goes with it.
Destroy ==
  /\ alive /\ pc = "idle"
  /\ alive' = FALSE
  /\ ran' = CallAll(handlers)
  /\ handlers' = << >>
  /\ queued' = 0
  /\ pc' = "dtor_observers"
  /\ UNCHANGED << willProcess, ports, started, snapshot, taken, cbUsed,
                  appended, obsVars >>

\* lines 144-145: takeAny removes an observer from the set, then its
\* contextDestroyed runs.
NotifyObserver ==
  /\ pc = "dtor_observers"
  /\ \E o \in observers :
       /\ observers' = observers \ {o}
       /\ obs' = IF obs[o] = "attached" THEN [obs EXCEPT ![o] = "detached"] ELSE obs
       /\ freedNotify' = (freedNotify \/ obs[o] = "freed")
  /\ pc' = "observer_cb"
  /\ cbUsed' = FALSE
  /\ UNCHANGED << handlers, willProcess, queued, ports, started, alive, snapshot,
                  taken, appended, ran >>

ObserverReturned ==
  /\ pc = "observer_cb"
  /\ pc' = "dtor_observers"
  /\ UNCHANGED << handlers, willProcess, queued, ports, started, alive, snapshot,
                  taken, cbUsed, appended, ran, obsVars >>

\* line 144: takeAny finds the set empty; the context is freed.
DestructorDone ==
  /\ pc = "dtor_observers" /\ observers = {}
  /\ pc' = "freed"
  /\ UNCHANGED << handlers, willProcess, queued, ports, started, alive, snapshot,
                  taken, cbUsed, appended, ran, obsVars >>

Init ==
  /\ handlers = << >> /\ willProcess = FALSE /\ queued = 0
  /\ ports = {} /\ started = [p \in Ports |-> FALSE]
  /\ alive = TRUE /\ pc = "idle" /\ snapshot = {} /\ taken = << >>
  /\ cbUsed = FALSE /\ appended = {} /\ ran = [h \in Handlers |-> 0]
  /\ observers = {} /\ obs = [o \in Observers |-> "none"] /\ freedNotify = FALSE

LoopStep ==
  \/ RunDispatchTask \/ PortDispatched \/ PortsDone \/ RunHandler
  \/ HandlerReturned \/ HandlersDone \/ \E p \in Ports : DispatchPort(p)
  \/ NotifyObserver \/ ObserverReturned \/ DestructorDone

Next ==
  \/ LoopStep \/ Destroy
  \/ \E h \in Handlers : ProcessMessageWithMessagePortsSoon(h)
  \/ \E p \in Ports : CreatedMessagePort(p) \/ StartPort(p) \/ DestroyedMessagePort(p)
  \/ \E o \in Observers : DidCreateDestructionObserver(o) \/ WillDestroyDestructionObserver(o)

\* The context's event loop runs the tasks posted to it, and a destructor
\* that has begun runs to its end; user code and the context's
\* destruction need not happen.
Spec == Init /\ [][Next]_vars /\ WF_vars(LoopStep)

(***************************************************************************)
(* Properties                                                              *)
(***************************************************************************)
TypeOK ==
  /\ handlers \in Seq(Handlers) /\ taken \in Seq(Handlers)
  /\ willProcess \in BOOLEAN /\ queued \in Nat
  /\ ports \subseteq Ports /\ snapshot \subseteq Ports
  /\ started \in [Ports -> BOOLEAN] /\ alive \in BOOLEAN
  /\ pc \in {"idle", "ports", "port_cb", "handlers", "handler_cb",
            "dtor_observers", "observer_cb", "freed"}
  /\ observers \subseteq Observers /\ freedNotify \in BOOLEAN
  /\ obs \in [Observers -> {"none", "attached", "detached", "freed"}]
  /\ appended \subseteq Handlers /\ ran \in [Handlers -> Nat]

\* No completion handler is called twice, whether it is called by a
\* dispatch task or by the destructor, and however handlers and port
\* callbacks re-enter processMessageWithMessagePortsSoon meanwhile.
HandlerCalledAtMostOnce == \A h \in Handlers : ran[h] <= 1

\* Every completion handler passed to processMessageWithMessagePortsSoon
\* is eventually called: the coalescing flag never suppresses the task
\* that would call it, also when it is appended from inside a dispatch.
EveryHandlerCalled == \A h \in Handlers : h \in appended ~> ran[h] >= 1

\* The destructor never calls contextDestroyed on an observer that was
\* already destroyed, although contextDestroyed of one observer may
\* destroy others still in m_destructionObservers.
NoNotifyOfFreedObserver == ~freedNotify

\* When the destructor has returned, no live observer still points at the
\* freed context: every observer registered, also one built inside
\* another's contextDestroyed, was told contextDestroyed.
NoDanglingObserver == pc = "freed" => \A o \in Observers : obs[o] # "attached"
=============================================================================
