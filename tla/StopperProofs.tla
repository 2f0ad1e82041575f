---------------------------- MODULE StopperProofs ----------------------------
(***************************************************************************)
(* Theorems of Stopper, for any sockets and any number of requests.        *)
(***************************************************************************)
EXTENDS Stopper, TLAPS

\* The Stopper tracks the open connections and knows how many requests each
\* of them has, but for the one that is being emitted.
CountInv ==
  /\ \A s \in Sockets : conn[s] = "open" <=> s \in tracked
  /\ \A s \in Sockets : conn[s] # "open" => running[s] = 0
  /\ emitting # NoSocket => running[emitting] > 0
  /\ \A s \in Sockets : s \in tracked =>
       reqs[s] = IF s = emitting THEN running[s] - 1 ELSE running[s]

\* What stop() did is known from where it is.
StopInv ==
  /\ stopPc \in {"waiting", "returned"} <=> stopped = "yes"
  /\ stopped = "yes" <=> listening = "no"
  /\ timer = "immediate" => gracefully = "no"
  /\ protocol = "http" => \A s \in Sockets : conn[s] # "handshake"

IInv ==
  /\ TypeOK
  /\ CountInv
  /\ StopInv
  /\ GracefulStopCutsNothing
  /\ IdleSocketsAreEnded
  /\ StoppedServerIsEmpty

-----------------------------------------------------------------------------
LEMMA InitInv == Init => IInv
  BY StopperAssumption
     DEF Init, IInv, TypeOK, CountInv, StopInv, GracefulStopCutsNothing,
         IdleSocketsAreEnded, StoppedServerIsEmpty

\* A connection that is tracked from now on has no requests.
LEMMA TrackInv ==
  ASSUME IInv, NEW s \in Sockets, emitting = NoSocket, conn[s] # "open",
         stopPc # "returned", protocol = "http" => stopped = "no",
         Track(s), UNCHANGED <<config, listening, running, emitting, ended,
                               stopped, stopPc, timer, gracefully, cut>>
  PROVE  IInv'
<1>. USE StopperAssumption DEF IInv, Track, config
<1>1. TypeOK'
  BY DEF TypeOK
<1>2. CountInv'
  <2>1. \A t \in Sockets : conn'[t] = IF t = s THEN "open" ELSE conn[t]
    BY DEF TypeOK
  <2>2. \A t \in Sockets : reqs'[t] = IF t = s THEN 0 ELSE reqs[t]
    BY DEF TypeOK
  <2>. QED
    BY <2>1, <2>2 DEF TypeOK, CountInv
<1>3. StopInv'
  BY DEF TypeOK, StopInv
<1>4. GracefulStopCutsNothing' /\ IdleSocketsAreEnded' /\ StoppedServerIsEmpty'
  BY DEF TypeOK, StopInv, GracefulStopCutsNothing, IdleSocketsAreEnded,
         StoppedServerIsEmpty
<1>. QED
  BY <1>1, <1>2, <1>3, <1>4

LEMMA ConnectInv == ASSUME IInv, NEW s \in Sockets, Connect(s) PROVE IInv'
<1>1. CASE protocol = "http"
  <2>1. stopped = "no" /\ stopPc # "returned"
    BY DEF Connect, IInv, TypeOK, StopInv
  <2>. QED
    BY <1>1, <2>1, TrackInv DEF Connect
<1>2. CASE protocol # "http"
  <2>. USE <1>2, StopperAssumption DEF IInv, Connect, config
  <2>1. \A t \in Sockets : conn'[t] = IF t = s THEN "handshake" ELSE conn[t]
    BY DEF TypeOK
  <2>2. TypeOK'
    BY <2>1 DEF TypeOK
  <2>3. CountInv' /\ StopInv'
    BY <2>1 DEF TypeOK, CountInv, StopInv
  <2>4. GracefulStopCutsNothing' /\ IdleSocketsAreEnded' /\ StoppedServerIsEmpty'
    BY <2>1 DEF TypeOK, StopInv, GracefulStopCutsNothing, IdleSocketsAreEnded,
                StoppedServerIsEmpty
  <2>. QED
    BY <2>2, <2>3, <2>4
<1>. QED
  BY <1>1, <1>2

LEMMA HandshakeInv ==
  ASSUME IInv, NEW s \in Sockets, HandshakeSettles(s) PROVE IInv'
<1>0. protocol # "http" /\ stopPc # "returned"
  BY DEF HandshakeSettles, IInv, StopInv, StoppedServerIsEmpty
<1>1. CASE Track(s)
  BY <1>0, <1>1, TrackInv DEF HandshakeSettles
<1>2. CASE conn' = [conn EXCEPT ![s] = "closed"] /\ UNCHANGED <<tracked, reqs>>
  <2>. USE <1>0, <1>2, StopperAssumption DEF IInv, HandshakeSettles, config
  <2>1. \A t \in Sockets : conn'[t] = IF t = s THEN "closed" ELSE conn[t]
    BY DEF TypeOK
  <2>2. TypeOK'
    BY <2>1 DEF TypeOK
  <2>3. CountInv' /\ StopInv'
    BY <2>1 DEF TypeOK, CountInv, StopInv
  <2>4. GracefulStopCutsNothing' /\ IdleSocketsAreEnded' /\ StoppedServerIsEmpty'
    BY <2>1 DEF TypeOK, StopInv, GracefulStopCutsNothing, IdleSocketsAreEnded,
                StoppedServerIsEmpty
  <2>. QED
    BY <2>2, <2>3, <2>4
<1>. QED
  BY <1>1, <1>2 DEF HandshakeSettles

LEMMA RequestInv == ASSUME IInv, NEW s \in Sockets, Request(s) PROVE IInv'
<1>. USE StopperAssumption DEF IInv, Request, config
<1>1. \A t \in Sockets : running'[t] = IF t = s THEN running[t] + 1 ELSE running[t]
  BY DEF TypeOK
<1>2. TypeOK'
  BY DEF TypeOK
<1>3. CountInv'
  BY <1>1 DEF TypeOK, CountInv
<1>4. StopInv'
  BY DEF StopInv
<1>5. GracefulStopCutsNothing' /\ IdleSocketsAreEnded' /\ StoppedServerIsEmpty'
  BY <1>1 DEF TypeOK, StopInv, GracefulStopCutsNothing, IdleSocketsAreEnded,
              StoppedServerIsEmpty
<1>. QED
  BY <1>2, <1>3, <1>4, <1>5

LEMMA CountRequestInv == ASSUME IInv, CountRequest PROVE IInv'
<1>. USE StopperAssumption DEF IInv, CountRequest, config
<1>0. emitting \in Sockets /\ emitting \in tracked
      /\ reqs[emitting] + 1 = running[emitting]
  BY DEF TypeOK, CountInv
<1>1. \A t \in Sockets : reqs'[t] = IF t = emitting THEN running[t] ELSE reqs[t]
  BY <1>0 DEF TypeOK
<1>2. TypeOK'
  BY <1>0 DEF TypeOK
<1>3. CountInv'
  BY <1>0, <1>1 DEF TypeOK, CountInv
<1>4. StopInv'
  BY DEF StopInv
<1>5. GracefulStopCutsNothing' /\ IdleSocketsAreEnded' /\ StoppedServerIsEmpty'
  BY DEF GracefulStopCutsNothing, IdleSocketsAreEnded, StoppedServerIsEmpty
<1>. QED
  BY <1>2, <1>3, <1>4, <1>5

LEMMA FinishInv == ASSUME IInv, NEW s \in Sockets, Finish(s) PROVE IInv'
<1>. USE StopperAssumption DEF IInv, Finish, config
<1>0. s \in tracked /\ reqs[s] = running[s] /\ running[s] \in 1..MaxRequests
  BY DEF TypeOK, CountInv
<1>1. \A t \in Sockets :
        /\ running'[t] = IF t = s THEN running[t] - 1 ELSE running[t]
        /\ reqs'[t] = IF t = s THEN running[t] - 1 ELSE reqs[t]
  BY <1>0 DEF TypeOK
<1>2. cut' = cut
  BY <1>0 DEF TypeOK
<1>3. ended \subseteq ended' /\ ended' \subseteq Sockets
  BY DEF TypeOK
<1>4. stopped = "yes" /\ running[s] = 1 => s \in ended'
  BY <1>0
<1>5. TypeOK'
  BY <1>0, <1>2, <1>3 DEF TypeOK
<1>6. CountInv'
  BY <1>0, <1>1 DEF TypeOK, CountInv
<1>7. StopInv'
  BY DEF StopInv
<1>8. GracefulStopCutsNothing'
  BY <1>2 DEF GracefulStopCutsNothing
<1>9. IdleSocketsAreEnded'
  BY <1>0, <1>1, <1>3, <1>4 DEF IdleSocketsAreEnded, TypeOK
<1>10. StoppedServerIsEmpty'
  BY DEF StoppedServerIsEmpty
<1>. QED
  BY <1>5, <1>6, <1>7, <1>8, <1>9, <1>10

LEMMA CloseInv == ASSUME IInv, NEW s \in Sockets, Close(s) PROVE IInv'
<1>. USE StopperAssumption DEF IInv, Close, config
<1>1. \A t \in Sockets :
        /\ conn'[t] = IF t = s THEN "closed" ELSE conn[t]
        /\ running'[t] = IF t = s THEN 0 ELSE running[t]
  BY DEF TypeOK
<1>2. TypeOK'
  BY <1>1 DEF TypeOK
<1>3. CountInv'
  BY <1>1 DEF TypeOK, CountInv
<1>4. StopInv'
  BY <1>1 DEF StopInv
<1>5. GracefulStopCutsNothing' /\ IdleSocketsAreEnded' /\ StoppedServerIsEmpty'
  BY <1>1 DEF GracefulStopCutsNothing, IdleSocketsAreEnded, StoppedServerIsEmpty
<1>. QED
  BY <1>2, <1>3, <1>4, <1>5

LEMMA CallStopInv == ASSUME IInv, CallStop PROVE IInv'
  BY DEF IInv, CallStop, config, TypeOK, CountInv, StopInv,
         GracefulStopCutsNothing, IdleSocketsAreEnded, StoppedServerIsEmpty

\* The sweep finds the sockets that are idle, and no other.
LEMMA StopGoesOnInv == ASSUME IInv, StopGoesOn PROVE IInv'
<1>. USE StopperAssumption DEF IInv, StopGoesOn, Sweep, End, config
<1>1. \A s \in tracked : reqs[s] = running[s]
  BY DEF TypeOK, CountInv
<1>2. cut' = cut
  BY <1>1 DEF TypeOK
<1>3. \A s \in Sockets : conn[s] = "open" /\ running[s] = 0 => s \in ended'
  BY <1>1 DEF CountInv
<1>4. ended' \subseteq Sockets
  BY DEF TypeOK
<1>5. TypeOK'
  BY <1>2, <1>4 DEF TypeOK
<1>6. CountInv' /\ StopInv'
  BY DEF TypeOK, CountInv, StopInv
<1>7. GracefulStopCutsNothing' /\ IdleSocketsAreEnded' /\ StoppedServerIsEmpty'
  BY <1>2, <1>3 DEF GracefulStopCutsNothing, IdleSocketsAreEnded,
                    StoppedServerIsEmpty
<1>. QED
  BY <1>5, <1>6, <1>7

LEMMA GraceExpiresInv == ASSUME IInv, GraceExpires PROVE IInv'
<1>. USE StopperAssumption DEF IInv, GraceExpires, End, config
<1>1. ended \subseteq ended' /\ ended' \subseteq Sockets /\ cut' \subseteq Sockets
  BY DEF TypeOK
<1>2. TypeOK'
  BY <1>1 DEF TypeOK
<1>3. CountInv' /\ StopInv'
  BY DEF CountInv, StopInv
<1>4. GracefulStopCutsNothing' /\ IdleSocketsAreEnded' /\ StoppedServerIsEmpty'
  BY <1>1 DEF GracefulStopCutsNothing, IdleSocketsAreEnded, StoppedServerIsEmpty
<1>. QED
  BY <1>2, <1>3, <1>4

LEMMA DestroyAllInv == ASSUME IInv, DestroyAll PROVE IInv'
<1>. USE StopperAssumption DEF IInv, DestroyAll, config
<1>1. gracefully' = "no"
  BY DEF StopInv
<1>2. \A s \in Sockets :
        /\ conn'[s] = IF s \in tracked THEN "closed" ELSE conn[s]
        /\ running'[s] = IF s \in tracked THEN 0 ELSE running[s]
  OBVIOUS
<1>3. \A s \in Sockets : conn'[s] # "open"
  BY <1>2 DEF CountInv
<1>4. TypeOK'
  BY DEF TypeOK
<1>5. CountInv' /\ StopInv'
  BY <1>2, <1>3 DEF CountInv, StopInv
<1>6. GracefulStopCutsNothing' /\ IdleSocketsAreEnded' /\ StoppedServerIsEmpty'
  BY <1>1, <1>2, <1>3
     DEF GracefulStopCutsNothing, IdleSocketsAreEnded, StoppedServerIsEmpty
<1>. QED
  BY <1>4, <1>5, <1>6

LEMMA ServerClosesInv == ASSUME IInv, ServerCloses PROVE IInv'
<1>. USE StopperAssumption DEF IInv, ServerCloses, config
<1>1. \A s \in Sockets : running[s] = 0
  BY DEF CountInv
<1>2. TypeOK'
  BY DEF TypeOK
<1>3. CountInv' /\ StopInv'
  BY DEF CountInv, StopInv
<1>4. GracefulStopCutsNothing' /\ IdleSocketsAreEnded' /\ StoppedServerIsEmpty'
  BY <1>1 DEF StopInv, GracefulStopCutsNothing, IdleSocketsAreEnded,
              StoppedServerIsEmpty
<1>. QED
  BY <1>2, <1>3, <1>4

LEMMA Invariance == Spec => []IInv
<1>1. IInv /\ [Next]_vars => IInv'
  <2>. SUFFICES ASSUME IInv, [Next]_vars PROVE IInv'
    OBVIOUS
  <2>1. ASSUME NEW s \in Sockets,
               Connect(s) \/ HandshakeSettles(s) \/ Request(s) \/ Finish(s) \/ Close(s)
        PROVE  IInv'
    BY <2>1, ConnectInv, HandshakeInv, RequestInv, FinishInv, CloseInv
  <2>2. CASE CountRequest
    BY <2>2, CountRequestInv
  <2>3. CASE CallStop \/ StopGoesOn
    BY <2>3, CallStopInv, StopGoesOnInv
  <2>4. CASE GraceExpires \/ DestroyAll \/ ServerCloses
    BY <2>4, GraceExpiresInv, DestroyAllInv, ServerClosesInv
  <2>5. CASE UNCHANGED vars
    BY <2>5 DEF vars, config, IInv, TypeOK, CountInv, StopInv,
                GracefulStopCutsNothing, IdleSocketsAreEnded, StoppedServerIsEmpty
  <2>. QED
    BY <2>1, <2>2, <2>3, <2>4, <2>5 DEF Next
<1>. QED
  BY <1>1, InitInv, PTL DEF Spec

-----------------------------------------------------------------------------
\* Every variable keeps its type; the Stopper tracks open connections only.
THEOREM TypeCorrect == Spec => []TypeOK
<1>1. IInv => TypeOK
  BY DEF IInv
<1>. QED
  BY <1>1, Invariance, PTL

\* Stopper.stop() that reports true has cut no request short, whatever the
\* order of requests, answers and the call, on any number of sockets.
THEOREM Graceful == Spec => []GracefulStopCutsNothing
<1>1. IInv => GracefulStopCutsNothing
  BY DEF IInv
<1>. QED
  BY <1>1, Invariance, PTL

\* The sweep of stop() and the answers after it end every idle http socket.
THEOREM IdleEnded == Spec => []IdleSocketsAreEnded
<1>1. IInv => IdleSocketsAreEnded
  BY DEF IInv
<1>. QED
  BY <1>1, Invariance, PTL

\* When the callback of server.close() has come, nothing is left, and nothing
\* comes.
THEOREM Empty == Spec => []StoppedServerIsEmpty
<1>1. IInv => StoppedServerIsEmpty
  BY DEF IInv
<1>. QED
  BY <1>1, Invariance, PTL
=============================================================================
