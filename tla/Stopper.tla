------------------------------- MODULE Stopper -------------------------------
(***************************************************************************)
(* The Stopper of the plugin that drains an HTTP server: it counts the     *)
(* requests of every socket, and stop() closes the server, the sockets as  *)
(* they become idle, and after a grace period all of them.                 *)
(*                                                                         *)
(* The sockets, the clients and http.Server are the environment.  The      *)
(* listeners of one event run in one go, the application's before ours:    *)
(* emitting is the socket whose 'request' event is between the two.        *)
(***************************************************************************)
EXTENDS Integers

CONSTANTS
  Sockets,
  MaxRequests,  \* bound: the requests a client pipelines on a socket
  Protocols,    \* the servers considered: "http", "https"
  GracePeriods, \* stopGracePeriodMillis: "finite", "infinite"
  NoSocket

ASSUME StopperAssumption ==
  /\ MaxRequests \in Nat \ {0}
  /\ Protocols \subseteq {"http", "https"}
  /\ GracePeriods \subseteq {"finite", "infinite"}
  /\ NoSocket \notin Sockets

VARIABLES
  protocol, gracePeriod,
  listening,    \* the server accepts connections
  conn,         \* each socket: "unused", "handshake" (TLS), "open", "closed"
  running,      \* the requests of each socket that are not answered
  emitting,
  tracked,      \* the keys of reqsPerSocket
  reqs,         \* its values
  ended,        \* the sockets end() was called on
  stopped,      \* this.stopped
  stopPc,       \* stop(): "idle", "immediate", "waiting", "returned"
  timer,        \* "off", "armed", "immediate" (expired), "cleared"
  gracefully,
  cut           \* history: the sockets we closed with a request running

config == <<protocol, gracePeriod>>
vars == <<config, listening, conn, running, emitting, tracked, reqs, ended,
          stopped, stopPc, timer, gracefully, cut>>

TypeOK ==
  /\ protocol \in Protocols /\ gracePeriod \in GracePeriods
  /\ listening \in {"no", "yes"}
  /\ conn \in [Sockets -> {"unused", "handshake", "open", "closed"}]
  /\ running \in [Sockets -> 0..MaxRequests]
  /\ emitting \in Sockets \cup {NoSocket}
  /\ tracked \subseteq {s \in Sockets : conn[s] = "open"}
  /\ reqs \in [Sockets -> 0..MaxRequests]
  /\ ended \subseteq Sockets
  /\ stopped \in {"no", "yes"}
  /\ stopPc \in {"idle", "immediate", "waiting", "returned"}
  /\ timer \in {"off", "armed", "immediate", "cleared"}
  /\ gracefully \in {"no", "yes"}
  /\ cut \subseteq Sockets

Init ==
  /\ protocol \in Protocols /\ gracePeriod \in GracePeriods
  /\ listening = "yes"
  /\ conn = [s \in Sockets |-> "unused"]
  /\ running = [s \in Sockets |-> 0]
  /\ emitting = NoSocket
  /\ tracked = {}
  /\ reqs = [s \in Sockets |-> 0]
  /\ ended = {}
  /\ stopped = "no"
  /\ stopPc = "idle"
  /\ timer = "off"
  /\ gracefully = "yes"
  /\ cut = {}

-----------------------------------------------------------------------------
Track(s) ==
  /\ conn' = [conn EXCEPT ![s] = "open"]
  /\ tracked' = tracked \cup {s}
  /\ reqs' = [reqs EXCEPT ![s] = 0]

\* 'connection': for https, only the TCP connection.
Connect(s) ==
  /\ emitting = NoSocket
  /\ listening = "yes" /\ conn[s] = "unused"
  /\ IF protocol = "http"
     THEN Track(s)
     ELSE conn' = [conn EXCEPT ![s] = "handshake"] /\ UNCHANGED <<tracked, reqs>>
  /\ UNCHANGED <<config, listening, running, emitting, ended, stopped, stopPc,
                 timer, gracefully, cut>>

\* 'secureConnection', or the handshake fails or takes too long.
HandshakeSettles(s) ==
  /\ emitting = NoSocket
  /\ conn[s] = "handshake"
  /\ \/ Track(s)
     \/ conn' = [conn EXCEPT ![s] = "closed"] /\ UNCHANGED <<tracked, reqs>>
  /\ UNCHANGED <<config, listening, running, emitting, ended, stopped, stopPc,
                 timer, gracefully, cut>>

\* 'request': the application's listener, which may call stop().  A client may
\* have sent the request before it sees that we ended the socket.
Request(s) ==
  /\ emitting = NoSocket
  /\ conn[s] = "open" /\ running[s] < MaxRequests
  /\ running' = [running EXCEPT ![s] = @ + 1]
  /\ emitting' = s
  /\ UNCHANGED <<config, listening, conn, tracked, reqs, ended, stopped, stopPc,
                 timer, gracefully, cut>>

\* The Stopper's listener of the same event.
CountRequest ==
  /\ emitting # NoSocket
  /\ reqs' = [reqs EXCEPT ![emitting] = @ + 1]
  /\ emitting' = NoSocket
  /\ UNCHANGED <<config, listening, conn, running, tracked, ended, stopped, stopPc,
                 timer, gracefully, cut>>

\* socket.end() on the sockets in S.
End(S) ==
  /\ ended' = ended \cup S
  /\ cut' = cut \cup {s \in S \ ended : running[s] > 0}

\* res 'finish': the response was written, which it cannot be after end().  The
\* last one of a stopping server ends the socket.
Finish(s) ==
  /\ emitting = NoSocket
  /\ conn[s] = "open" /\ s \notin ended /\ running[s] > 0
  /\ running' = [running EXCEPT ![s] = @ - 1]
  /\ reqs' = [reqs EXCEPT ![s] = @ - 1]
  /\ ended' = ended \cup (IF stopped = "yes" /\ reqs[s] = 1 THEN {s} ELSE {})
  /\ cut' = cut \cup (IF stopped = "yes" /\ reqs[s] = 1 /\ running[s] > 1
                      THEN {s} ELSE {})
  /\ UNCHANGED <<config, listening, conn, emitting, tracked, stopped, stopPc, timer,
                 gracefully>>

\* Socket 'close': the client closed it, or answers our end().
Close(s) ==
  /\ emitting = NoSocket
  /\ conn[s] = "open"
  /\ conn' = [conn EXCEPT ![s] = "closed"]
  /\ running' = [running EXCEPT ![s] = 0]
  /\ tracked' = tracked \ {s}
  /\ UNCHANGED <<config, listening, emitting, reqs, ended, stopped, stopPc, timer,
                 gracefully, cut>>

-----------------------------------------------------------------------------
\* stop() closes the server and sweeps the idle sockets.
Sweep ==
  /\ stopped' = "yes"
  /\ timer' = IF gracePeriod = "finite" THEN "armed" ELSE "off"
  /\ listening' = "no"
  /\ End({s \in tracked : reqs[s] = 0})
  /\ stopPc' = "waiting"

\* Wrong on purpose: stop() does not wait for the event to be over.
CallStopAtOnce ==
  /\ stopPc = "idle"
  /\ Sweep
  /\ UNCHANGED <<config, conn, running, emitting, tracked, reqs, gracefully>>

\* stop() is called, perhaps while the listeners of a request run.
CallStop ==
  /\ stopPc = "idle"
  /\ stopPc' = "immediate"
  /\ UNCHANGED <<config, listening, conn, running, emitting, tracked, reqs, ended,
                 stopped, timer, gracefully, cut>>

StopGoesOn ==
  /\ emitting = NoSocket
  /\ stopPc = "immediate"
  /\ Sweep
  /\ UNCHANGED <<config, conn, running, emitting, tracked, reqs, gracefully>>

GraceExpires ==
  /\ emitting = NoSocket
  /\ timer = "armed"
  /\ gracefully' = "no"
  /\ End(tracked)
  /\ timer' = "immediate"
  /\ UNCHANGED <<config, listening, conn, running, emitting, tracked, reqs, stopped,
                 stopPc>>

\* Wrong on purpose: only idle sockets are destroyed.
DestroyIdle ==
  /\ emitting = NoSocket
  /\ timer = "immediate"
  /\ timer' = "cleared"
  /\ conn' = [s \in Sockets |-> IF s \in tracked /\ reqs[s] = 0 THEN "closed"
                                ELSE conn[s]]
  /\ tracked' = {s \in tracked : reqs[s] # 0}
  /\ UNCHANGED <<config, listening, running, emitting, reqs, ended, stopped, stopPc,
                 gracefully, cut>>

\* The setImmediate of the expired timer: what is tracked then is destroyed.
DestroyAll ==
  /\ emitting = NoSocket
  /\ timer = "immediate"
  /\ timer' = "cleared"
  /\ conn' = [s \in Sockets |-> IF s \in tracked THEN "closed" ELSE conn[s]]
  /\ running' = [s \in Sockets |-> IF s \in tracked THEN 0 ELSE running[s]]
  /\ cut' = cut \cup {s \in tracked : running[s] > 0}
  /\ tracked' = {}
  /\ UNCHANGED <<config, listening, emitting, reqs, ended, stopped, stopPc, gracefully>>

\* Wrong on purpose: idle servers only have to stop listening.
ServerClosesEarly ==
  /\ emitting = NoSocket
  /\ stopPc = "waiting"
  /\ \A s \in tracked : reqs[s] = 0
  /\ stopPc' = "returned"
  /\ timer' = IF timer = "armed" THEN "cleared" ELSE timer
  /\ UNCHANGED <<config, listening, conn, running, emitting, tracked, reqs, ended,
                 stopped, gracefully, cut>>

\* The callback of server.close(), when no connection is left; stop() returns.
ServerCloses ==
  /\ emitting = NoSocket
  /\ stopPc = "waiting"
  /\ \A s \in Sockets : conn[s] \in {"unused", "closed"}
  /\ stopPc' = "returned"
  /\ timer' = IF timer = "armed" THEN "cleared" ELSE timer
  /\ UNCHANGED <<config, listening, conn, running, emitting, tracked, reqs, ended,
                 stopped, gracefully, cut>>

Next ==
  \/ \E s \in Sockets :
       Connect(s) \/ HandshakeSettles(s) \/ Request(s) \/ Finish(s) \/ Close(s)
  \/ CountRequest
  \/ CallStop \/ StopGoesOn \/ GraceExpires \/ DestroyAll \/ ServerCloses

Spec == Init /\ [][Next]_vars

\* What Node runs by itself, however many requests come in between: the event
\* loop visits its timers and immediates again and again, and a handshake
\* ends.  Nothing is assumed of clients and of the application.
NodeFairness ==
  /\ WF_vars(CountRequest)
  /\ SF_vars(StopGoesOn)
  /\ SF_vars(GraceExpires)
  /\ SF_vars(DestroyAll)
  /\ SF_vars(ServerCloses)
  /\ \A s \in Sockets : SF_vars(HandshakeSettles(s))

FairSpec == Spec /\ NodeFairness

\* The application answers, clients close the sockets that we ended, and do not
\* send requests for ever.
Polite ==
  /\ \A s \in Sockets : SF_vars(Finish(s)) /\ SF_vars(s \in ended /\ Close(s))
  /\ <>[][\A s \in Sockets : ~Request(s)]_vars

-----------------------------------------------------------------------------
\* A stop that reports true cut no request short: it ended idle sockets only,
\* wherever it was called and however requests overlapped on a socket.
GracefulStopCutsNothing == cut # {} => gracefully = "no"

\* An http server that is stopping has ended every socket that is idle, and
\* those that became idle since.
IdleSocketsAreEnded ==
  protocol = "http" /\ stopped = "yes" =>
    \A s \in Sockets :
      conn[s] = "open" /\ running[s] = 0 => s \in ended

\* Once stop() returned, no connection and no request is left, and none comes.
StoppedServerIsEmpty ==
  stopPc = "returned" =>
    /\ listening = "no"
    /\ \A s \in Sockets : conn[s] \in {"unused", "closed"} /\ running[s] = 0

Stopping == stopPc = "immediate"
Returned == stopPc = "returned"

\* Over http stop() returns, whatever clients and handlers do, if it has a grace
\* period ("After a grace period, if any connections remain active, forcefully
\* close them", docs/source/api/plugin/drain-http-server.mdx:23); without one it
\* returns if they are polite, for every socket that becomes idle is ended.
HttpStopReturns ==
  /\ (Stopping /\ gracePeriod = "finite" /\ protocol = "http") ~> Returned
  /\ Polite => ((Stopping /\ protocol = "http") ~> Returned)
=============================================================================
