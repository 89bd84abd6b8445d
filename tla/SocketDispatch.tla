---------------------------- MODULE SocketDispatch ----------------------------
(***************************************************************************)
(* us_internal_dispatch_ready_poll (loop.c 289-564) for one poll over    *)
(* many loop iterations; its type, chosen at the start, is one of:        *)
(*  - "socket": the SOCKET case (354-518), a TCP socket: the writable     *)
(*    phase, the readable phase with its receive loop and the repeat-recv *)
(*    heuristic, then the EOF and error phases;                           *)
(*  - "ipc": the same case for an IPC socket (s->flags.is_ipc): recvmsg  *)
(*    may carry a descriptor (SCM_RIGHTS), handed to on_fd (421-447);     *)
(*  - "listen": the listen SEMI_SOCKET case (308-349), the accept loop;   *)
(*  - "udp": the UDP case (519-564): receive loop, drain, error close.    *)
(* A peer fills the kernel buffer (bytes, connections or datagrams),      *)
(* half-closes (FIN) or resets concurrently.  Every callback (on_writable,*)
(* on_data, on_end, on_open, on_drain) is user code that may close the   *)
(* poll, shut a TCP socket down, or write and fail (which re-arms         *)
(* WRITABLE).  The context does not                                       *)
(* deprioritize the socket (the low-priority admission is LowPrioQueue).   *)
(*                                                                         *)
(* The kernel buffer is counted in units of LIBUS_RECV_BUFFER_LENGTH / 2:  *)
(* a recv of RecvLen units is a "full" read (length >= 512K - 24K).  One  *)
(* recvmmsg takes up to RecvLen datagrams.  At most one descriptor is in  *)
(* flight on an IPC socket; fdAt is the unit that carries it.             *)
(***************************************************************************)
EXTENDS Integers

CONSTANTS
  PollTypes,    \* the types of poll dispatched: "socket", "ipc", "listen", "udp"
  ReadyCounts,  \* values loop->num_ready_polls takes in an iteration
  RepeatCap,    \* the 10 of loop.c 471
  MaxBuf        \* bound: units the kernel buffers for the peer

ASSUME PollTypes \subseteq {"socket", "ipc", "listen", "udp"}
       /\ ReadyCounts \subseteq Nat \ {0} /\ RepeatCap \in Nat /\ MaxBuf \in Nat

R == "readable"
W == "writable"
RecvLen == 2                  \* LIBUS_RECV_BUFFER_LENGTH, in units
LoopIsntVeryBusyThreshold == 25
\* The poll types that take the SOCKET case.
TcpKinds == {"socket", "ipc"}
\* What user code can do to the poll in a callback, by type.
UserOps(k) ==
  CASE k \in TcpKinds -> {"none", "close", "shutdown", "write_fail"}
    [] k = "udp"    -> {"none", "close", "write_fail"}
    [] k = "listen" -> {"none", "close"}

VARIABLES
  kind,            \* us_internal_poll_type(p)
  interest,        \* us_poll_events(&s->p)
  closed,          \* us_socket_is_closed
  shutDown,        \* us_socket_is_shut_down
  allowHalfOpen,   \* s->flags.allow_half_open
  lastWriteFailed, \* loop->data.last_write_failed
  buf, fin, reset, \* kernel: unread units, FIN received, RST received
  fdAt,            \* kernel: the unread unit carrying a descriptor, 0 if none
  ev, err, eof,    \* this dispatch's events, error and eof arguments
  numReady,        \* loop->num_ready_polls
  pc,              \* where the dispatch is
  lastLen,         \* the length of the last recv
  repeat,          \* repeat_recv_count, saturated at RepeatCap + 1
  lateCb,          \* a callback or accept was made on a closed poll
  ends,            \* on_end calls
  closes           \* us_udp_socket_close calls

vars == << kind, interest, closed, shutDown, allowHalfOpen, lastWriteFailed, buf, fin,
           reset, fdAt, ev, err, eof, numReady, pc, lastLen, repeat, lateCb, ends, closes >>

kernel == << buf, fin, reset, fdAt >>

\* The variables only the TCP socket's phases use.
tcpOnly == << shutDown, allowHalfOpen, fin, fdAt, eof, lastLen, repeat, ends, kind >>

(***************************************************************************)
(* What user code does in a callback.  us_socket_close stops the poll and *)
(* is a no-op on a closed socket (us_listen_socket_close and             *)
(* us_udp_socket_close likewise stop the poll); us_socket_shutdown sends  *)
(* FIN once;                                                              *)
(* a write the kernel cannot take sets last_write_failed and polls for    *)
(* WRITABLE again.                                                        *)
(***************************************************************************)
CloseEffect ==
  /\ closed' = TRUE
  /\ interest' = IF closed THEN interest ELSE {}

UserEffect(op) ==
  CASE op = "close" -> CloseEffect /\ UNCHANGED << shutDown, lastWriteFailed >>
    [] op = "shutdown" -> /\ shutDown' = (shutDown \/ ~closed)
                          /\ UNCHANGED << closed, interest, lastWriteFailed >>
    [] op = "write_fail" /\ ~closed /\ ~shutDown ->
                          /\ lastWriteFailed' = TRUE
                          /\ interest' = interest \cup {W}
                          /\ UNCHANGED << closed, shutDown >>
    [] OTHER -> UNCHANGED << closed, shutDown, interest, lastWriteFailed >>

\* A callback invoked on the poll: remembered if it was already closed.
Callback(op) ==
  /\ lateCb' = (lateCb \/ closed)
  /\ closes' = IF kind = "udp" /\ op = "close" THEN closes + 1 ELSE closes
  /\ UserEffect(op)

\* us_socket_close called by the dispatch itself.
DispatchClose ==
  /\ CloseEffect
  /\ pc' = "idle"

(***************************************************************************)
(* The peer                                                                *)
(***************************************************************************)
PeerSend ==
  /\ ~closed /\ ~fin /\ ~reset /\ buf < MaxBuf
  /\ buf' = buf + 1
  /\ UNCHANGED << interest, closed, shutDown, allowHalfOpen, lastWriteFailed,
                  fin, reset, fdAt, ev, err, eof, numReady, pc, lastLen, repeat, lateCb, ends, kind, closes >>

\* The peer of an IPC socket sends a unit with a descriptor attached.
PeerSendFd ==
  /\ kind = "ipc" /\ ~closed /\ ~fin /\ ~reset /\ buf < MaxBuf /\ fdAt = 0
  /\ buf' = buf + 1 /\ fdAt' = buf + 1
  /\ UNCHANGED << interest, closed, shutDown, allowHalfOpen, lastWriteFailed,
                  fin, reset, ev, err, eof, numReady, pc, lastLen, repeat, lateCb, ends, kind, closes >>

PeerFin ==
  /\ kind \in TcpKinds /\ ~closed /\ ~fin /\ ~reset
  /\ fin' = TRUE
  /\ UNCHANGED << interest, closed, shutDown, allowHalfOpen, lastWriteFailed,
                  buf, reset, fdAt, ev, err, eof, numReady, pc, lastLen, repeat, lateCb, ends, kind, closes >>

\* An RST, or for UDP an error (ICMP) queued on the socket.
PeerReset ==
  /\ kind # "listen" /\ ~closed /\ ~reset
  /\ reset' = TRUE
  /\ UNCHANGED << interest, closed, shutDown, allowHalfOpen, lastWriteFailed,
                  buf, fin, fdAt, ev, err, eof, numReady, pc, lastLen, repeat, lateCb, ends, kind, closes >>

(***************************************************************************)
(* Poll-wait reports the poll (level-triggered): READABLE while there is  *)
(* data, a connection, FIN or an error, WRITABLE while polled for; error  *)
(* on RST (a queued error for UDP), eof on FIN, on a poll that reads, as  *)
(* the backend chooses.  The switch on the poll type (loop.c 290) picks   *)
(* the case; a listen socket polls READABLE, so it takes the accept path  *)
(* of the SEMI_SOCKET case (306-308).                                     *)
(***************************************************************************)
CaseOf(k) == CASE k \in TcpKinds -> "writable" [] k = "listen" -> "accept" [] k = "udp" -> "udp"

PollReady ==
  LET readable == buf > 0 \/ fin \/ reset
      e == interest \cap ({W} \cup IF readable THEN {R} ELSE {})
  IN
  /\ pc = "idle" /\ ~closed
  /\ \E eo \in BOOLEAN, nr \in ReadyCounts :
       /\ eo => fin /\ R \in interest
       /\ e # {} \/ reset \/ eo
       /\ ev' = e /\ err' = reset /\ eof' = eo /\ numReady' = nr
  /\ pc' = CaseOf(kind)
  /\ UNCHANGED << interest, closed, shutDown, allowHalfOpen, lastWriteFailed,
                  kernel, lastLen, repeat, lateCb, ends, kind, closes >>

(***************************************************************************)
(* The writable phase (loop.c 359-374)                                     *)
(***************************************************************************)
Writable ==
  /\ pc = "writable"
  /\ IF W \in ev /\ ~err
     THEN /\ lastWriteFailed' = FALSE
          /\ pc' = "on_writable"
     ELSE /\ pc' = "readable"
          /\ UNCHANGED lastWriteFailed
  /\ UNCHANGED << interest, closed, shutDown, allowHalfOpen, kernel, ev, err, eof,
                  numReady, lastLen, repeat, lateCb, ends, kind, closes >>

OnWritable ==
  /\ pc = "on_writable"
  /\ \E op \in UserOps(kind) : Callback(op)
  /\ pc' = "after_writable"
  /\ UNCHANGED << allowHalfOpen, kernel, ev, err, eof, numReady, lastLen, repeat, ends, kind >>

\* A plausible bug: the dispatch goes on with a socket on_writable closed.
WritableReturnedClosedUnchecked == FALSE

\* loop.c 366: a socket closed by on_writable ends the dispatch.
WritableReturnedClosed == closed

AfterWritable ==
  /\ pc = "after_writable"
  /\ IF WritableReturnedClosed
     THEN /\ pc' = "idle" /\ UNCHANGED interest
     ELSE /\ interest' = IF ~lastWriteFailed \/ shutDown THEN interest \cap {R}
                         ELSE interest
          /\ pc' = "readable"
  /\ UNCHANGED << closed, shutDown, allowHalfOpen, lastWriteFailed, kernel, ev, err,
                  eof, numReady, lastLen, repeat, lateCb, ends, kind, closes >>

(***************************************************************************)
(* The readable phase (loop.c 376-488)                                     *)
(***************************************************************************)
Readable ==
  /\ pc = "readable"
  /\ pc' = IF R \in ev THEN "recv" ELSE "eof"
  /\ repeat' = 0
  /\ UNCHANGED << interest, closed, shutDown, allowHalfOpen, lastWriteFailed, kernel,
                  ev, err, eof, numReady, lastLen, lateCb, ends, kind, closes >>

\* bsd_recv: queued data comes first, then an RST fails the call, then FIN
\* reads as length 0, else it would block.  A hard error closes s (loop.c
\* 480-484); length 0 sets eof (477-479).  On an IPC socket bsd_recvmsg
\* (434) stops after the unit carrying a descriptor and returns it with the
\* data read, which goes to on_fd first (436-443).
Recv ==
  LET n == IF buf < RecvLen THEN buf ELSE RecvLen
      withFd == kind = "ipc" /\ fdAt \in 1..n
      m == IF withFd THEN fdAt ELSE n
  IN
  /\ pc = "recv"
  /\ IF buf > 0
     THEN /\ buf' = buf - m /\ lastLen' = m
          /\ fdAt' = IF withFd \/ fdAt = 0 THEN 0 ELSE fdAt - m
          /\ pc' = IF withFd THEN "on_fd" ELSE "on_data"
          /\ UNCHANGED << closed, interest, eof >>
     ELSE IF reset THEN DispatchClose /\ UNCHANGED << buf, fdAt, lastLen, eof >>
     ELSE IF fin
     THEN /\ eof' = TRUE /\ pc' = "eof"
          /\ UNCHANGED << closed, interest, buf, fdAt, lastLen >>
     ELSE /\ pc' = "eof"
          /\ UNCHANGED << closed, interest, buf, fdAt, lastLen, eof >>
  /\ UNCHANGED << shutDown, allowHalfOpen, lastWriteFailed, fin, reset, ev, err,
                  numReady, repeat, lateCb, ends, kind, closes >>

\* s = s->context->on_fd(s, fd) (440)
OnFd ==
  /\ pc = "on_fd"
  /\ \E op \in UserOps(kind) : Callback(op)
  /\ pc' = "after_fd"
  /\ UNCHANGED << allowHalfOpen, kernel, ev, err, eof, numReady, lastLen, repeat, ends, kind >>

\* A plausible bug: the data read with the descriptor goes to on_data even
\* though on_fd closed the socket.
FdReturnedClosedUnchecked == FALSE

\* loop.c 441: a socket on_fd closed breaks out of the receive loop.
FdReturnedClosed == closed

AfterFd ==
  /\ pc = "after_fd"
  /\ pc' = IF FdReturnedClosed THEN "eof" ELSE "on_data"
  /\ UNCHANGED << interest, closed, shutDown, allowHalfOpen, lastWriteFailed, kernel,
                  ev, err, eof, numReady, lastLen, repeat, lateCb, ends, kind, closes >>

OnData ==
  /\ pc = "on_data"
  /\ \E op \in UserOps(kind) : Callback(op)
  /\ pc' = "after_data"
  /\ UNCHANGED << allowHalfOpen, kernel, ev, err, eof, numReady, lastLen, repeat, ends, kind >>

\* A plausible bug: the cap of loop.c 471 is dropped.
RepeatCapReachedNever(r, nr) == FALSE

\* loop.c 471: enough repeats while other polls are ready.
RepeatCapReached(r, nr) == r > RepeatCap /\ nr > 2

\* loop.c 462-474: read again after a full read while the loop is not
\* busy (or hung up) and on_data left s open.
AfterData ==
  LET again == lastLen = RecvLen /\ (err \/ numReady < LoopIsntVeryBusyThreshold)
               /\ ~closed
      r == IF err THEN repeat ELSE IF repeat > RepeatCap THEN repeat ELSE repeat + 1
  IN
  /\ pc = "after_data"
  /\ repeat' = IF again THEN r ELSE repeat
  /\ pc' = IF again /\ ~RepeatCapReached(r, numReady) THEN "recv" ELSE "eof"
  /\ UNCHANGED << interest, closed, shutDown, allowHalfOpen, lastWriteFailed, kernel,
                  ev, err, eof, numReady, lastLen, lateCb, ends, kind, closes >>

(***************************************************************************)
(* The EOF and error phases (loop.c 490-516)                               *)
(***************************************************************************)
\* A plausible bug: on_end is called on a closed socket.
EndSkippedNever == FALSE

\* loop.c 491: "Do not call on_end after the socket has been closed".
EndSkipped == closed

\* A plausible bug: a half-open socket keeps polling READABLE.
HalfOpenInterestKept(i) == i

\* loop.c 502: stop polling READABLE.
HalfOpenInterest(i) == i \cap {W}

EofPhase ==
  /\ pc = "eof"
  /\ IF ~eof THEN pc' = "error" /\ UNCHANGED << closed, interest >>
     ELSE IF EndSkipped THEN pc' = "idle" /\ UNCHANGED << closed, interest >>
     ELSE IF shutDown THEN DispatchClose
     ELSE IF allowHalfOpen
     THEN /\ interest' = HalfOpenInterest(interest)
          /\ pc' = "on_end_half" /\ UNCHANGED closed
     ELSE pc' = "on_end_close" /\ UNCHANGED << closed, interest >>
  /\ UNCHANGED << shutDown, allowHalfOpen, lastWriteFailed, kernel, ev, err, eof,
                  numReady, lastLen, repeat, lateCb, ends, kind, closes >>

\* on_end; the half-open socket goes on to the error phase, the other one
\* is closed (loop.c 503, 506-508).
OnEnd ==
  /\ pc \in {"on_end_half", "on_end_close"}
  /\ \E op \in UserOps(kind) : Callback(op)
  /\ ends' = ends + 1
  /\ pc' = IF pc = "on_end_half" THEN "error" ELSE "close_after_end"
  /\ UNCHANGED << allowHalfOpen, kernel, ev, err, eof, numReady, lastLen, repeat, kind >>

CloseAfterEnd ==
  /\ pc = "close_after_end"
  /\ DispatchClose
  /\ UNCHANGED << shutDown, allowHalfOpen, lastWriteFailed, kernel, ev, err, eof,
                  numReady, lastLen, repeat, lateCb, ends, kind, closes >>

ErrorPhase ==
  /\ pc = "error"
  /\ IF err THEN DispatchClose ELSE pc' = "idle" /\ UNCHANGED << closed, interest >>
  /\ UNCHANGED << shutDown, allowHalfOpen, lastWriteFailed, kernel, ev, err, eof,
                  numReady, lastLen, repeat, lateCb, ends, kind, closes >>

(***************************************************************************)
(* The accept loop of a listen socket (loop.c 308-349).  buf counts the   *)
(* connections waiting in the backlog; accept on a closed listen fd      *)
(* fails.  The accepted socket is linked to the context and on_open runs *)
(* (321-341); what on_open does to the listen socket is the user call.   *)
(***************************************************************************)
\* bsd_accept_socket (312, 348): remembered if the listen socket is closed.
Accept ==
  /\ pc = "accept"
  /\ lateCb' = (lateCb \/ closed)
  /\ IF buf > 0 /\ ~closed
     THEN buf' = buf - 1 /\ pc' = "on_open"
     ELSE pc' = "idle" /\ UNCHANGED buf
  /\ UNCHANGED << interest, closed, lastWriteFailed, ev, err, numReady, tcpOnly,
                  reset, kind, closes >>

OnOpen ==
  /\ pc = "on_open"
  /\ \E op \in UserOps(kind) : Callback(op)
  /\ pc' = "after_open"
  /\ UNCHANGED << kernel, ev, err, numReady, tcpOnly >>

\* A plausible bug: the loop accepts again on a listen socket on_open closed.
ListenClosedUnchecked == FALSE

\* loop.c 344: "Exit accept loop if listen socket was closed in on_open".
ListenClosed == closed

AfterOpen ==
  /\ pc = "after_open"
  /\ pc' = IF ListenClosed THEN "idle" ELSE "accept"
  /\ UNCHANGED << interest, closed, lastWriteFailed, kernel, ev, err, numReady,
                  tcpOnly, lateCb, kind, closes >>

(***************************************************************************)
(* The UDP case (loop.c 519-564).  buf counts queued datagrams; reset is  *)
(* an error queued on the socket, which recvmmsg reports.                 *)
(***************************************************************************)
UdpDispatch ==
  /\ pc = "udp"
  /\ pc' = IF closed THEN "idle" ELSE IF R \in ev THEN "udp_recv" ELSE "udp_drain"
  /\ UNCHANGED << interest, closed, lastWriteFailed, kernel, ev, err, numReady,
                  tcpOnly, lateCb, kind, closes >>

\* bsd_recvmmsg: queued datagrams come first; then a queued error is
\* reported, and cleared, as an error other than EAGAIN, which sets error
\* (533-537); no datagram ends the loop (545).
UdpRecv ==
  LET n == IF buf < RecvLen THEN buf ELSE RecvLen IN
  /\ pc = "udp_recv"
  /\ IF buf > 0 THEN buf' = buf - n /\ pc' = "udp_on_data" /\ UNCHANGED << err, reset >>
     ELSE IF reset THEN err' = TRUE /\ reset' = FALSE /\ pc' = "udp_drain" /\ UNCHANGED buf
     ELSE pc' = "udp_drain" /\ UNCHANGED << buf, err, reset >>
  /\ UNCHANGED << interest, closed, lastWriteFailed, ev, numReady, tcpOnly,
                  lateCb, kind, closes >>

UdpOnData ==
  /\ pc = "udp_on_data"
  /\ \E op \in UserOps(kind) : Callback(op)
  /\ pc' = "udp_after_data"
  /\ UNCHANGED << kernel, ev, err, numReady, tcpOnly >>

\* while (!u->closed) (547)
UdpAfterData ==
  /\ pc = "udp_after_data"
  /\ pc' = IF closed THEN "udp_drain" ELSE "udp_recv"
  /\ UNCHANGED << interest, closed, lastWriteFailed, kernel, ev, err, numReady,
                  tcpOnly, lateCb, kind, closes >>

\* loop.c 550: one on_drain when WRITABLE, no error and still open.
UdpDrain ==
  /\ pc = "udp_drain"
  /\ pc' = IF W \in ev /\ ~err /\ ~closed THEN "udp_on_drain" ELSE "udp_error"
  /\ UNCHANGED << interest, closed, lastWriteFailed, kernel, ev, err, numReady,
                  tcpOnly, lateCb, kind, closes >>

UdpOnDrain ==
  /\ pc = "udp_on_drain"
  /\ \E op \in UserOps(kind) : Callback(op)
  /\ pc' = "udp_after_drain"
  /\ UNCHANGED << kernel, ev, err, numReady, tcpOnly >>

\* loop.c 552-557: stop polling WRITABLE unless on_drain closed u.
UdpAfterDrain ==
  /\ pc = "udp_after_drain"
  /\ IF closed THEN pc' = "idle" /\ UNCHANGED interest
     ELSE interest' = interest \cap {R} /\ pc' = "udp_error"
  /\ UNCHANGED << closed, lastWriteFailed, kernel, ev, err, numReady, tcpOnly,
                  lateCb, kind, closes >>

\* A plausible bug: the error close does not test u->closed.
UdpErrorCloseUnguarded == err

\* loop.c 560
UdpErrorClose == err /\ ~closed

UdpError ==
  /\ pc = "udp_error"
  /\ IF UdpErrorClose
     THEN CloseEffect /\ closes' = closes + 1
     ELSE UNCHANGED << closed, interest, closes >>
  /\ pc' = "idle"
  /\ UNCHANGED << lastWriteFailed, kernel, ev, err, numReady, tcpOnly, lateCb, kind >>

Init ==
  /\ kind \in PollTypes
  /\ interest = {R} /\ closed = FALSE /\ shutDown = FALSE
  /\ allowHalfOpen \in BOOLEAN /\ lastWriteFailed = FALSE
  /\ buf = 0 /\ fin = FALSE /\ reset = FALSE /\ fdAt = 0
  /\ ev = {} /\ err = FALSE /\ eof = FALSE /\ numReady = 1
  /\ pc = "idle" /\ lastLen = 0 /\ repeat = 0 /\ lateCb = FALSE /\ ends = 0
  /\ closes = 0

DispatchStep ==
  \/ Writable \/ OnWritable \/ AfterWritable \/ Readable \/ Recv \/ OnFd \/ AfterFd \/ OnData
  \/ AfterData \/ EofPhase \/ OnEnd \/ CloseAfterEnd \/ ErrorPhase
  \/ Accept \/ OnOpen \/ AfterOpen
  \/ UdpDispatch \/ UdpRecv \/ UdpOnData \/ UdpAfterData \/ UdpDrain
  \/ UdpOnDrain \/ UdpAfterDrain \/ UdpError

Next == PollReady \/ DispatchStep \/ PeerSend \/ PeerSendFd \/ PeerFin \/ PeerReset

\* The loop thread runs the dispatch it has begun to its end; poll-wait
\* and the peer need not act.
Spec == Init /\ [][Next]_vars /\ WF_vars(DispatchStep)

(***************************************************************************)
(* Properties                                                              *)
(***************************************************************************)
\* No callback (on_writable, on_data, on_end, on_open, on_drain) is called,
\* and no connection is accepted, on a poll that a previous callback of the
\* same or an earlier dispatch closed: every phase, the accept loop and the
\* UDP receive loop re-check is_closed after each callback.
NoCallbackAfterClose == ~lateCb

\* on_end is delivered at most once: a half-open socket stops polling
\* READABLE, so the FIN the kernel keeps reporting is not read again.
EndAtMostOnce == ends <= 1

\* us_udp_socket_close is called at most once on a UDP socket: the error
\* close at the end of the dispatch skips a socket that on_data or
\* on_drain closed.
UdpClosedOnce == closes <= 1

\* Every dispatch of a TCP or IPC socket returns to the loop, however fast the
\* peer sends: the repeat-recv heuristic stops after RepeatCap full reads
\* when other polls are ready.  (The accept and UDP loops drain until
\* EAGAIN by design.)
DispatchReturns == kind \in TcpKinds /\ pc # "idle" ~> pc = "idle"
=============================================================================
