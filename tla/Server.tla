------------------------------- MODULE Server -------------------------------
(***************************************************************************)
(* The server process, src/src/server.cpp: the accept loop of main(), the  *)
(* signal handler on the io_context thread, the trusted-proxy refresher,   *)
(* one thread per connection (SessionHandler::handleSession) with its      *)
(* HandshakeWatchdog, SessionTracker, and the shutdown sequence.           *)
(*                                                                         *)
(* A connection's life after its request has been read is the body of      *)
(* module StreamingSession (or an HTTP handler); here it may end at any    *)
(* time, and does end once its socket is shut down.  acceptor.close() does *)
(* not wake a thread that is already in accept(): on Linux the call keeps  *)
(* the listening socket until it returns.  Signals that arrive before      *)
(* signal_set exists are left out (the process dies).                      *)
(***************************************************************************)
EXTENDS ConnectionLimiter

CONSTANTS
  UseSsl,     \* whether a TLS context is configured
  Hosts,      \* trusted_proxy_hosts
  ProxyIps    \* addresses the hosts may resolve to

ASSUME ServerConstants ==
  /\ UseSsl \in BOOLEAN
  /\ ProxyIps \subseteq Ips

VARIABLES
  main,            \* "launch" (ioc thread started), "loop" (at is_open(), or with a
                   \* connection in hand), "checked" (is_open() was true), "accept"
                   \* (blocked in accept()), "join", "done"
  ioc,             \* the io_context thread: "starting", "running", "returned"
  signal,          \* "none", "pending", "closing" (handler half-way), "handled"
  acceptor_open,   \* acceptor.is_open()
  exit,            \* "no", "graceful", "forced", "terminate"
  conn,            \* conn[c]: where the connection's code is
  sock,            \* sock[c]: "none", "open", "shut" (shutdown() or peer), "closed"
  fd,              \* fd[c]: the descriptor its socket has or had
  armed,           \* connections whose HandshakeWatchdog is armed
  session_threads, \* the thread vector
  tracker,         \* SessionTracker::sessions_
  per_host_ips,    \* TrustedProxyResolver's cache
  refresher        \* "running", "stopping" (stop_trusted_refresh set), "ended"

mainVars == <<main, ioc, signal, acceptor_open, exit>>
connVars == <<conn, sock, fd, armed, session_threads, tracker>>
trustVars == <<per_host_ips, refresher>>
vars == <<mainVars, connVars, trustVars, limiterVars>>

\* A connection is none, then with main ("accepted", "acquired"), then with its
\* own thread, and at last "refused" or "ended".
ThreadStates == {"handshake", "http", "upgrade", "session", "unregistered", "leaving"}
ConnStates == {"none", "accepted", "acquired", "refused", "ended"} \cup ThreadStates
Fds == 1..Cardinality(Conns)

TypeOK ==
  /\ LimiterTypeOK
  /\ main \in {"launch", "loop", "checked", "accept", "join", "done"}
  /\ ioc \in {"starting", "running", "returned"}
  /\ signal \in {"none", "pending", "closing", "handled"}
  /\ acceptor_open \in BOOLEAN
  /\ exit \in {"no", "graceful", "forced", "terminate"}
  /\ conn \in [Conns -> ConnStates]
  /\ sock \in [Conns -> {"none", "open", "shut", "closed"}]
  /\ fd \in [Conns -> Fds \cup {0}]
  /\ armed \subseteq Conns /\ session_threads \subseteq Conns /\ tracker \subseteq Conns
  /\ per_host_ips \in [Hosts -> SUBSET ProxyIps]
  /\ refresher \in {"running", "stopping", "ended"}

Init ==
  /\ LimiterInit
  /\ main = "launch" /\ ioc = "starting" /\ signal = "none"
  /\ acceptor_open = TRUE /\ exit = "no"
  /\ conn = [c \in Conns |-> "none"] /\ sock = [c \in Conns |-> "none"]
  /\ fd = [c \in Conns |-> 0]
  /\ armed = {} /\ session_threads = {} /\ tracker = {}
  /\ per_host_ips = [h \in Hosts |-> {}]
  /\ refresher = IF Hosts = {} THEN "ended" ELSE "running"

(***************************************************************************)
(* The io_context thread and signals                                       *)
(***************************************************************************)
\* ioc.run() returns at once when nothing is registered with the io_context yet.
IocRuns ==
  /\ ioc = "starting"
  /\ ioc' = IF main = "launch" THEN "returned" ELSE "running"
  /\ UNCHANGED <<main, signal, acceptor_open, exit, connVars, trustVars, limiterVars>>

\* signals.async_wait(), then the accept loop.
RegisterSignals ==
  /\ main = "launch"
  /\ main' = "loop"
  /\ UNCHANGED <<ioc, signal, acceptor_open, exit, connVars, trustVars, limiterVars>>

\* SIGINT or SIGTERM, any number of them; the first is the handler's.  If the
\* kernel picks the main thread while it is in accept(), that returns EINTR and
\* the loop is left.
SignalArrives ==
  /\ main \notin {"launch", "done"}
  /\ signal' = IF signal = "none" THEN "pending" ELSE signal
  /\ \/ main' = main
     \/ main = "accept" /\ main' = "join"
  /\ UNCHANGED <<ioc, acceptor_open, exit, connVars, trustVars, limiterVars>>

\* The handler of async_wait: acceptor.close() ...
HandlerCloses ==
  /\ ioc = "running" /\ signal = "pending"
  /\ signal' = "closing" /\ acceptor_open' = FALSE
  /\ UNCHANGED <<main, ioc, exit, connVars, trustVars, limiterVars>>

\* The sockets that become "shut" when shutdown() is called on those of cs.
Shut(cs) == [c \in Conns |-> IF c \in cs /\ sock[c] = "open" THEN "shut" ELSE sock[c]]

\* ... then shutdownAll() under the tracker's mutex, and the refresher's flag.
\* It was the last work of the io_context, so run() returns.
HandlerShutsDown ==
  /\ signal = "closing"
  /\ signal' = "handled" /\ ioc' = "returned"
  /\ sock' = Shut(tracker)
  /\ refresher' = IF refresher = "running" THEN "stopping" ELSE refresher
  /\ UNCHANGED <<main, acceptor_open, exit, conn, fd, armed, session_threads, tracker,
                 per_host_ips, limiterVars>>

(***************************************************************************)
(* The accept loop                                                         *)
(***************************************************************************)
\* TrustedProxyResolver::isTrusted(), a read of the cache.
isTrusted(ip) == \E h \in Hosts : ip \in per_host_ips[h]

Holds(c) == sock[c] \in {"open", "shut"}

\* The kernel hands out the lowest free descriptor.
FreeFd ==
  LET free == {f \in Fds : \A c \in Conns : Holds(c) => fd[c] # f}
  IN  CHOOSE f \in free : \A g \in free : f <= g

\* while (acceptor.is_open()): main() is at the test with no connection in hand.
LoopTest ==
  /\ main = "loop" /\ \A c \in Conns : conn[c] \notin {"accepted", "acquired"}
  /\ main' = IF acceptor_open THEN "checked" ELSE "join"
  /\ UNCHANGED <<ioc, signal, acceptor_open, exit, connVars, trustVars, limiterVars>>

\* acceptor.accept() is called.  On an acceptor that was closed since the test it
\* fails with "bad descriptor", which is logged and tested again.
EnterAccept ==
  /\ main = "checked"
  /\ main' = IF acceptor_open THEN "accept" ELSE "loop"
  /\ UNCHANGED <<ioc, signal, acceptor_open, exit, connVars, trustVars, limiterVars>>

\* A connection arrives, also one for an acceptor that was closed meanwhile.
AcceptConn(c) ==
  /\ main = "accept" /\ conn[c] = "none"
  /\ main' = "loop"
  /\ conn' = [conn EXCEPT ![c] = "accepted"]
  /\ sock' = [sock EXCEPT ![c] = "open"]
  /\ fd' = [fd EXCEPT ![c] = FreeFd]
  /\ UNCHANGED <<ioc, signal, acceptor_open, exit, armed, session_threads, tracker,
                 trustVars, limiterVars>>

\* Any other error of accept() (no descriptor is free, say) is logged.
AcceptFails ==
  /\ main = "accept"
  /\ main' = "loop"
  /\ UNCHANGED <<ioc, signal, acceptor_open, exit, connVars, trustVars, limiterVars>>

\* remote_endpoint() throws when the peer is gone already.  The exception
\* leaves the loop, and the joinable ioc_thread is destroyed: std::terminate.
RemoteEndpointThrows(c) ==
  /\ conn[c] = "accepted" /\ sock[c] = "shut"
  /\ exit' = "terminate"
  /\ UNCHANGED <<main, ioc, signal, acceptor_open, connVars, trustVars, limiterVars>>

\* The connection ends on the main thread, which closes its socket.
Refused(c) ==
  /\ conn' = [conn EXCEPT ![c] = "refused"] /\ sock' = [sock EXCEPT ![c] = "closed"]
  /\ UNCHANGED <<mainVars, fd, armed, session_threads, tracker, trustVars>>

Reject(c) ==
  /\ conn[c] = "accepted" /\ ~CanAcquire(c, isTrusted(IpOf[c]))
  /\ Refused(c)
  /\ UNCHANGED limiterVars

Admit(c) ==
  /\ conn[c] = "accepted" /\ tryAcquire(c, isTrusted(IpOf[c]))
  /\ conn' = [conn EXCEPT ![c] = "acquired"]
  /\ UNCHANGED <<mainVars, sock, fd, armed, session_threads, tracker, trustVars>>

\* The thread starts: ConnectionGuard, then an armed HandshakeWatchdog.
Spawn(c) ==
  /\ conn[c] = "acquired"
  /\ conn' = [conn EXCEPT ![c] = "handshake"]
  /\ armed' = armed \cup {c} /\ session_threads' = session_threads \cup {c}
  /\ UNCHANGED <<mainVars, sock, fd, tracker, trustVars, limiterVars>>

\* The thread of the HandshakeWatchdog cannot be started: its constructor is
\* called before the try block of handleSession(), so the exception leaves the
\* session's thread and ends the process.
WatchdogThreadFails(c) ==
  /\ conn[c] = "acquired"
  /\ exit' = "terminate"
  /\ UNCHANGED <<main, ioc, signal, acceptor_open, connVars, trustVars, limiterVars>>

SpawnFails_SlotKept(c) ==
  /\ conn[c] = "acquired"
  /\ Refused(c)
  /\ UNCHANGED limiterVars

\* The thread cannot be started: the slot is returned by hand.
SpawnFails(c) ==
  /\ conn[c] = "acquired"
  /\ release(c)
  /\ Refused(c)

(***************************************************************************)
(* handleSession()                                                         *)
(***************************************************************************)
\* The TLS handshake and the request are read, and the watchdog disarmed; it
\* may have fired just before.
ReadRequest(c) ==
  /\ conn[c] = "handshake" /\ Holds(c)
  /\ \E next \in {"http", "upgrade"} : conn' = [conn EXCEPT ![c] = next]
  /\ armed' = armed \ {c}
  /\ UNCHANGED <<mainVars, sock, fd, session_threads, tracker, trustVars, limiterVars>>

\* The StreamingSession registers in its constructor, and runs.
StartSession(c) ==
  /\ conn[c] = "upgrade"
  /\ conn' = [conn EXCEPT ![c] = "session"]
  /\ tracker' = tracker \cup {c}
  /\ UNCHANGED <<mainVars, sock, fd, armed, session_threads, trustVars, limiterVars>>

Unregister_SocketFirst(c) ==
  /\ conn[c] = "session"
  /\ conn' = [conn EXCEPT ![c] = "unregistered"] /\ sock' = [sock EXCEPT ![c] = "closed"]
  /\ UNCHANGED <<mainVars, fd, armed, session_threads, tracker, trustVars, limiterVars>>

\* run() has returned.  ~StreamingSession, its flush thread joined, removes the
\* session under the tracker's mutex; its socket is a member and still there.
Unregister(c) ==
  /\ conn[c] = "session"
  /\ conn' = [conn EXCEPT ![c] = "unregistered"]
  /\ tracker' = tracker \ {c}
  /\ UNCHANGED <<mainVars, sock, fd, armed, session_threads, trustVars, limiterVars>>

\* The try block is left: handshake or read failed, the response was sent, or
\* the session's members are destroyed.  A socket owned by a local of the block
\* (TLS stream, session) is closed, while the plain socket is a parameter and
\* lives on.
LeaveTry(c) ==
  /\ conn[c] \in {"handshake", "http", "unregistered"}
  /\ conn' = [conn EXCEPT ![c] = "leaving"]
  /\ sock' = IF UseSsl \/ conn[c] = "unregistered" THEN [sock EXCEPT ![c] = "closed"] ELSE sock
  /\ UNCHANGED <<mainVars, fd, armed, session_threads, tracker, trustVars, limiterVars>>

\* ~HandshakeWatchdog, ~ConnectionGuard and the socket parameter.
ThreadEnds(c) ==
  /\ conn[c] = "leaving"
  /\ conn' = [conn EXCEPT ![c] = "ended"] /\ sock' = [sock EXCEPT ![c] = "closed"]
  /\ armed' = armed \ {c}
  /\ release(c)
  /\ UNCHANGED <<mainVars, fd, session_threads, tracker, trustVars>>

Timeout_Never(c) == FALSE

Timeout(c) == c \in armed

\* The watchdog expires: shutdown() on the descriptor captured at the start.
HandshakeTimeout(c) ==
  /\ Timeout(c)
  /\ armed' = armed \ {c}
  /\ sock' = Shut({d \in Conns : Holds(d) /\ fd[d] = fd[c]})
  /\ UNCHANGED <<mainVars, conn, fd, session_threads, tracker, trustVars, limiterVars>>

\* The peer closes or resets the connection, or a session's own watchdog fires.
SocketDies(c) ==
  /\ sock[c] = "open"
  /\ sock' = Shut({c})
  /\ UNCHANGED <<mainVars, conn, fd, armed, session_threads, tracker, trustVars, limiterVars>>

(***************************************************************************)
(* TrustedProxyResolver::refresh() on its own thread: DNS answers replace  *)
(* what is cached for a host, a failed lookup keeps it.  Without hosts     *)
(* there is no thread.                                                     *)
(***************************************************************************)
Refresh ==
  /\ refresher = "running"
  /\ \E answer \in [Hosts -> SUBSET ProxyIps] :
       per_host_ips' = [h \in Hosts |-> IF answer[h] = {} THEN per_host_ips[h] ELSE answer[h]]
  /\ UNCHANGED <<mainVars, connVars, refresher, limiterVars>>

RefresherEnds ==
  /\ refresher = "stopping"
  /\ refresher' = "ended"
  /\ UNCHANGED <<mainVars, connVars, per_host_ips, limiterVars>>

(***************************************************************************)
(* Shutdown                                                                *)
(***************************************************************************)
ThreadsJoined_NotAwaited == refresher = "ended"

\* Every thread of the vector and the refresher have returned.
ThreadsJoined ==
  refresher = "ended" /\ \A c \in session_threads : conn[c] = "ended"

\* The joins, ioc.stop(), and the join of the io_context thread, which first
\* ends the handler it is in.
Joined ==
  /\ main = "join" /\ ThreadsJoined /\ signal # "closing"
  /\ main' = "done" /\ exit' = "graceful" /\ ioc' = "returned"
  /\ UNCHANGED <<signal, acceptor_open, connVars, trustVars, limiterVars>>

ForcedExit_Disarmed ==
  /\ main = "join" /\ session_threads = {}
  /\ exit' = "forced"
  /\ UNCHANGED <<main, ioc, signal, acceptor_open, connVars, trustVars, limiterVars>>

\* The exit watchdog, which is started behind the loop: after
\* shutdown_timeout_sec, std::exit().
ForcedExit ==
  /\ main = "join"
  /\ exit' = "forced"
  /\ UNCHANGED <<main, ioc, signal, acceptor_open, connVars, trustVars, limiterVars>>

Terminated == exit # "no" /\ UNCHANGED vars

MainStep ==
  \/ RegisterSignals \/ LoopTest \/ EnterAccept \/ Joined
  \/ \E c \in Conns : Reject(c) \/ Admit(c) \/ Spawn(c) \/ SpawnFails(c)
IocStep == IocRuns \/ HandlerCloses \/ HandlerShutsDown

\* What the thread of c does of itself: with a dead socket it gets out of any
\* read or write.
ThreadStep(c) ==
  \/ StartSession(c) \/ ThreadEnds(c)
  \/ (sock[c] = "shut" \/ conn[c] = "unregistered") /\ (Unregister(c) \/ LeaveTry(c))

Step ==
  \/ MainStep \/ IocStep \/ SignalArrives \/ AcceptFails \/ ForcedExit
  \/ Refresh \/ RefresherEnds
  \/ \E c \in Conns :
       \/ AcceptConn(c) \/ RemoteEndpointThrows(c) \/ WatchdogThreadFails(c)
       \/ ReadRequest(c) \/ StartSession(c) \/ Unregister(c) \/ LeaveTry(c) \/ ThreadEnds(c)
       \/ HandshakeTimeout(c) \/ SocketDies(c)

Next == (exit = "no" /\ Step) \/ Terminated

Spec == Init /\ [][Next]_vars

\* Every thread that can go on is scheduled and timeouts elapse.  No peer is
\* obliged to do anything, and DNS may take for ever.
Fairness ==
  /\ WF_vars(exit = "no" /\ MainStep)
  /\ WF_vars(exit = "no" /\ IocStep)
  /\ WF_vars(exit = "no" /\ ForcedExit)
  /\ \A c \in Conns : WF_vars(exit = "no" /\ ThreadStep(c))
  /\ \A c \in Conns : WF_vars(exit = "no" /\ HandshakeTimeout(c))

FairSpec == Spec /\ Fairness

(***************************************************************************)
(* Properties                                                              *)
(***************************************************************************)
Live == {c \in Conns : conn[c] \in ThreadStates}

\* The slots of the limiter are held by exactly the connections that are being
\* started or have a thread: no path out of the accept loop or of
\* handleSession() keeps a slot, and no thread runs without one.
SlotsMatchConnections == slots = Live \cup {c \in Conns : conn[c] = "acquired"}

\* shutdownAll(), which reaches sessions through raw pointers at any moment, only
\* meets sessions that still own their socket: the destructor removes a session
\* from the tracker before anything of it is gone.
TrackedSessionsAlive ==
  \A c \in Conns : c \in tracker => conn[c] = "session" /\ Holds(c)

\* After a graceful exit nothing is left behind: no thread runs, every slot is
\* returned, no session is registered and no watchdog is armed.
GracefulExitClean ==
  exit = "graceful" => /\ Live = {} /\ total = 0 /\ tracker = {} /\ armed = {}
                       /\ \A c \in Conns : ~Holds(c)

\* A peer that connects and says nothing is cut off before a request was read.
HandshakeReclaimed ==
  \A c \in Conns : conn[c] = "handshake" ~> (conn[c] # "handshake" \/ exit # "no")

\* Once the signal handler has run, main() is not kept in the accept loop by
\* whatever it is doing, except being blocked in accept(), and then the process
\* ends, although sessions that registered after shutdownAll() are not told to
\* stop and may go on for ever.
ShutdownCompletes == (signal = "handled" /\ main # "accept") ~> exit # "no"

\* "Signal received -- stopping accept loop", logged by the handler that closes
\* the acceptor: the accept loop ends once the handler has run.
AcceptLoopStops == signal = "handled" ~> (main \in {"join", "done"} \/ exit # "no")

\* "Run ioc in a dedicated thread so async_wait fires even while accept()
\* blocks": a signal stops the server.
SignalStopsServer == signal = "pending" ~> (signal = "handled" \/ exit # "no")

\* "Accept loop exited -- all sockets already cancelled by shutdownAll()": once
\* the handler has run, no thread that is being joined has an open socket.
AllSocketsCancelled ==
  (main = "join" /\ signal = "handled") => \A c \in Live : sock[c] # "open"

\* "shutdown() carries no such risk -- the fd stays valid until the owning
\* thread's normal cleanup path closes it": a watchdog that fires only shuts
\* down the connection it was started for.
WatchdogShutsOwn ==
  [][\A c, d \in Conns : (c # d /\ HandshakeTimeout(c)) => sock'[d] = sock[d]]_vars

\* "do not re-throw; session_threads must be joined on shutdown": no exception
\* leaves the accept loop with threads unjoined.
NothingRethrown == exit = "terminate" => \A c \in Conns : conn[c] # "accepted"

(***************************************************************************)
(* The inductive invariant behind the safety properties                    *)
(***************************************************************************)
\* A connection owns its socket from accept() until its code lets go of it.
SocketOwned ==
  \A c \in Conns :
    /\ conn[c] \in {"accepted", "acquired", "handshake", "http", "upgrade", "session",
                   "unregistered"} => Holds(c)
    /\ conn[c] \in {"none", "refused", "ended"} => ~Holds(c)

\* Whoever has a thread is in the vector, and a watchdog is only armed under one.
ThreadsKnown ==
  /\ Live \subseteq session_threads
  /\ \A c \in armed : conn[c] \in {"handshake", "leaving"}

\* main() has a connection in hand only within an iteration of the loop, and
\* behind the joins no thread runs.
MainSequence ==
  /\ main # "loop" => \A c \in Conns : conn[c] \notin {"accepted", "acquired"}
  /\ main = "done" => Live = {}
  /\ exit = "graceful" => main = "done"

\* Together with the types these facts are preserved by every step of every thread.
ServerInv ==
  /\ conn \in [Conns -> ConnStates]
  /\ sock \in [Conns -> {"none", "open", "shut", "closed"}]
  /\ armed \subseteq Conns /\ tracker \subseteq Conns
  /\ SlotsMatchConnections /\ TrackedSessionsAlive
  /\ SocketOwned /\ ThreadsKnown /\ MainSequence
=============================================================================
