----------------------- MODULE ServerLifecycleProofs -----------------------
(***************************************************************************)
(* Theorems of ServerLifecycle, for any sets of plugins, callers, requests *)
(* and signals.                                                            *)
(***************************************************************************)
EXTENDS ServerLifecycle, TLAPS

\* The phases of a server whose start was completed.
Ready == {"started", "draining", "stopping", "stopped"}

\* _start() is suspended exactly while the phase is 'starting', and leaves it
\* for 'started' only when every serverWillStart hook resolved.
BootInv ==
  /\ boot = "idle" <=> phase = "initialized"
  /\ boot \in {"load", "willStart", "landing"} <=> phase = "starting"
  /\ boot = "landing" => AllDone(startHook)
  /\ phase \in Ready => AllDone(startHook)

\* Which hooks have been called in which phase.
HookInv ==
  /\ phase \notin {"draining", "stopping", "stopped"} =>
       \A p \in DrainPlugins : drainHook[p] = "idle"
  /\ phase \notin {"stopping", "stopped"} =>
       \A d \in Disposers : disposal[d] = "idle"
  /\ phase = "stopping" => AllDone(drainHook)
  /\ (\E d \in Disposers : disposal[d] # "idle") => AllDone(drainHook)

\* Which calls of stop() there can be in which phase.
CallInv ==
  /\ stopBarrier = "resolved" => phase = "stopped"
  /\ phase # "stopped" => stopError = None
  /\ \A c \in Stoppers :
       /\ stopCall[c] = "waiting" => phase \in {"draining", "stopping", "stopped"}
       /\ stopCall[c] \in {"idle", "leading", "waiting", "refused", "returned"}
            => thrown[c] = None

\* Our listeners are installed for as long as hooks may run.
SignalInv ==
  StopOnSignals /\ phase \in {"started", "draining", "stopping"} =>
    listening = Signals

\* The operations that were let in.
RequestInv ==
  \A r \in Requests :
    request[r] \in {"context", "executing", "done"} => phase \in Ready

IInv ==
  /\ TypeOK
  /\ BootInv
  /\ HookInv
  /\ CallInv
  /\ StopCallsAgree
  /\ CleanStopIsComplete
  /\ SignalInv
  /\ RequestInv

-----------------------------------------------------------------------------
(***************************************************************************)
(* Type correctness.                                                       *)
(***************************************************************************)
LEMMA InitType == Init => TypeOK
  BY LifecycleAssumption DEF Init, TypeOK, Errors, HookStates, Phases

LEMMA NextType == TypeOK /\ [Next]_vars => TypeOK'
<1>. SUFFICES ASSUME TypeOK, [Next]_vars PROVE TypeOK'
  OBVIOUS
<1>. USE LifecycleAssumption
     DEF TypeOK, Phases, HookStates, Errors, Stoppers, vars, bootVars, stopVars,
         callVars, signalVars
<1>1. CASE Start
  BY <1>1 DEF Start, BeginStart
<1>2. CASE LoadSucceeds
  BY <1>2 DEF LoadSucceeds
<1>3. CASE LoadFails
  BY <1>3 DEF LoadFails, FailStart
<1>4. CASE StartHookRejected
  BY <1>4 DEF StartHookRejected, FailStart
<1>5. CASE StartHooksDone
  BY <1>5 DEF StartHooksDone
<1>6. CASE RegistrationFails
  BY <1>6 DEF RegistrationFails, FailStart
<1>7. CASE FinishStart
  BY <1>7 DEF FinishStart
<1>8. CASE Drained
  BY <1>8 DEF Drained
<1>9. CASE StopFails
  BY <1>9 DEF StopFails, AnswerLeader
<1>10. CASE StopSucceeds
  BY <1>10 DEF StopSucceeds, AnswerLeader
<1>11. CASE HandlerRekills
  BY <1>11 DEF HandlerRekills
<1>12. CASE HandlerExits
  BY <1>12 DEF HandlerExits
<1>13. ASSUME NEW p \in Plugins, StartHookSettles(p) PROVE TypeOK'
  BY <1>13 DEF StartHookSettles
<1>14. ASSUME NEW r \in Requests, RequestArrives(r) PROVE TypeOK'
  BY <1>14 DEF RequestArrives, EnsureStarted, BeginStart, Advance
<1>15. ASSUME NEW r \in Requests, RequestResumes(r) PROVE TypeOK'
  BY <1>15 DEF RequestResumes, EnsureStarted, Advance
<1>16. ASSUME NEW r \in Requests, ContextSettles(r) PROVE TypeOK'
  BY <1>16 DEF ContextSettles, Advance
<1>17. ASSUME NEW r \in Requests, ExecutionEnds(r) PROVE TypeOK'
  BY <1>17 DEF ExecutionEnds, Advance
<1>18. ASSUME NEW c \in Callers, UserStops(c) PROVE TypeOK'
  BY <1>18 DEF UserStops, CallStop, AnswerStopped, LeadStop, Answer
<1>19. ASSUME NEW c \in Stoppers, StopResumes(c) PROVE TypeOK'
  BY <1>19 DEF StopResumes, AnswerStopped, Answer
<1>20. ASSUME NEW p \in DrainPlugins, DrainHookSettles(p) PROVE TypeOK'
  BY <1>20 DEF DrainHookSettles, Settle
<1>21. ASSUME NEW d \in Disposers, DisposerSettles(d) PROVE TypeOK'
  BY <1>21 DEF DisposerSettles, Settle
<1>22. ASSUME NEW s \in Signals, SignalKills(s) PROVE TypeOK'
  BY <1>22 DEF SignalKills
<1>23. ASSUME NEW s \in Signals, SignalHandled(s) PROVE TypeOK'
  BY <1>23 DEF SignalHandled, CallStop, AnswerStopped, LeadStop, Answer
<1>24. CASE UNCHANGED vars
  BY <1>24 DEF vars
<1>. QED
  BY <1>1, <1>2, <1>3, <1>4, <1>5, <1>6, <1>7, <1>8, <1>9, <1>10, <1>11,
     <1>12, <1>13, <1>14, <1>15, <1>16, <1>17, <1>18, <1>19, <1>20, <1>21,
     <1>22, <1>23, <1>24
     DEF Next, StartStep, StopStep

\* Every variable keeps its type.
THEOREM TypeCorrect == Spec => []TypeOK
  BY InitType, NextType, PTL DEF Spec

-----------------------------------------------------------------------------
(***************************************************************************)
(* The inductive invariant.                                                *)
(***************************************************************************)
LEMMA InitInv == Init => IInv
<1>. SUFFICES ASSUME Init PROVE IInv
  OBVIOUS
<1>1. TypeOK
  BY InitType
<1>. QED
  BY <1>1, LifecycleAssumption
     DEF Init, IInv, BootInv, HookInv, CallInv, RequestInv, StopCallsAgree,
         CleanStopIsComplete, SignalInv, Ready

LEMMA NextInv == IInv /\ [Next]_vars => IInv'
<1>. DEFINE Rest == BootInv /\ HookInv /\ CallInv /\ StopCallsAgree
                    /\ CleanStopIsComplete /\ SignalInv /\ RequestInv
<1>. SUFFICES ASSUME IInv, [Next]_vars PROVE Rest'
  BY NextType DEF IInv
<1>. USE LifecycleAssumption
     DEF IInv, TypeOK, BootInv, HookInv, CallInv, RequestInv, StopCallsAgree,
         CleanStopIsComplete, SignalInv, AllDone, Ready, Stoppers, bootVars, stopVars,
         callVars, signalVars
<1>1. CASE Start
  BY <1>1 DEF Start, BeginStart
<1>2. CASE LoadSucceeds
  BY <1>2 DEF LoadSucceeds
<1>3. CASE LoadFails
  BY <1>3 DEF LoadFails, FailStart
<1>4. CASE StartHookRejected
  BY <1>4 DEF StartHookRejected, FailStart
<1>5. CASE StartHooksDone
  BY <1>5 DEF StartHooksDone
<1>6. CASE RegistrationFails
  BY <1>6 DEF RegistrationFails, FailStart
<1>7. CASE FinishStart
  BY <1>7 DEF FinishStart
<1>8. CASE Drained
  BY <1>8 DEF Drained
<1>9. CASE StopFails
  BY <1>9 DEF StopFails, AnswerLeader
<1>10. CASE StopSucceeds
  BY <1>10 DEF StopSucceeds, AnswerLeader
<1>11. CASE HandlerRekills
  BY <1>11 DEF HandlerRekills
<1>12. CASE HandlerExits
  BY <1>12 DEF HandlerExits
<1>13. ASSUME NEW p \in Plugins, StartHookSettles(p) PROVE Rest'
  BY <1>13 DEF StartHookSettles
<1>14. ASSUME NEW r \in Requests, RequestArrives(r) PROVE Rest'
  BY <1>14 DEF RequestArrives, EnsureStarted, BeginStart, Advance
<1>15. ASSUME NEW r \in Requests, RequestResumes(r) PROVE Rest'
  BY <1>15 DEF RequestResumes, EnsureStarted, Advance
<1>16. ASSUME NEW r \in Requests, ContextSettles(r) PROVE Rest'
  BY <1>16 DEF ContextSettles, Advance
<1>17. ASSUME NEW r \in Requests, ExecutionEnds(r) PROVE Rest'
  BY <1>17 DEF ExecutionEnds, Advance
<1>18. ASSUME NEW c \in Callers, UserStops(c) PROVE Rest'
  BY <1>18 DEF UserStops, CallStop, AnswerStopped, LeadStop, Answer
<1>19. ASSUME NEW c \in Stoppers, StopResumes(c) PROVE Rest'
  BY <1>19 DEF StopResumes, AnswerStopped, Answer
<1>20. ASSUME NEW p \in DrainPlugins, DrainHookSettles(p) PROVE Rest'
  BY <1>20 DEF DrainHookSettles, Settle
<1>21. ASSUME NEW d \in Disposers, DisposerSettles(d) PROVE Rest'
  BY <1>21 DEF DisposerSettles, Settle
<1>22. ASSUME NEW s \in Signals, SignalKills(s) PROVE Rest'
  BY <1>22 DEF SignalKills
<1>23. ASSUME NEW s \in Signals, SignalHandled(s) PROVE Rest'
  BY <1>23 DEF SignalHandled, CallStop, AnswerStopped, LeadStop, Answer
<1>24. CASE UNCHANGED vars
  BY <1>24 DEF vars
<1>. QED
  BY <1>1, <1>2, <1>3, <1>4, <1>5, <1>6, <1>7, <1>8, <1>9, <1>10, <1>11,
     <1>12, <1>13, <1>14, <1>15, <1>16, <1>17, <1>18, <1>19, <1>20, <1>21,
     <1>22, <1>23, <1>24
     DEF Next, StartStep, StopStep

LEMMA Invariance == Spec => []IInv
  BY InitInv, NextInv, PTL DEF Spec

-----------------------------------------------------------------------------
(***************************************************************************)
(* The safety properties.                                                  *)
(***************************************************************************)

\* All calls of stop() end the same way, and never too early.
THEOREM Agreement == Spec => []StopCallsAgree
<1>1. IInv => StopCallsAgree
  BY DEF IInv
<1>. QED
  BY <1>1, Invariance, PTL

\* The hooks of one stage of the server's life end before those of the next
\* are called.
THEOREM Stages == Spec => []StagesInOrder
<1>1. IInv => StagesInOrder
  BY DEF IInv, TypeOK, Phases, BootInv, HookInv, Ready, StagesInOrder
<1>. QED
  BY <1>1, Invariance, PTL

\* A shutdown that ends without error is complete.
THEOREM CleanStop == Spec => []CleanStopIsComplete
<1>1. IInv => CleanStopIsComplete
  BY DEF IInv
<1>. QED
  BY <1>1, Invariance, PTL

\* No operation gets past the gate of a server whose start is not completed.
THEOREM GatedOperations == Spec => []OperationsAfterStart
<1>1. IInv => OperationsAfterStart
  BY DEF IInv, BootInv, RequestInv, OperationsAfterStart
<1>. QED
  BY <1>1, Invariance, PTL

\* What a step does to the hooks.
LEMMA HookSteps ==
  ASSUME [Next]_vars
  PROVE  /\ \/ UNCHANGED drainHook
            \/ phase = "started"
            \/ \E p \in DrainPlugins : DrainHookSettles(p)
         /\ \/ UNCHANGED disposal
            \/ phase = "draining" /\ AllDone(drainHook)
            \/ \E d \in Disposers : DisposerSettles(d)
<1>. DEFINE Goal ==
       /\ \/ UNCHANGED drainHook
          \/ phase = "started"
          \/ \E p \in DrainPlugins : DrainHookSettles(p)
       /\ \/ UNCHANGED disposal
          \/ phase = "draining" /\ AllDone(drainHook)
          \/ \E d \in Disposers : DisposerSettles(d)
<1>. USE DEF bootVars, stopVars, callVars, signalVars
<1>1. CASE Start
  BY <1>1 DEF Start, BeginStart
<1>2. CASE LoadSucceeds
  BY <1>2 DEF LoadSucceeds
<1>3. CASE LoadFails
  BY <1>3 DEF LoadFails, FailStart
<1>4. CASE StartHookRejected
  BY <1>4 DEF StartHookRejected, FailStart
<1>5. CASE StartHooksDone
  BY <1>5 DEF StartHooksDone
<1>6. CASE RegistrationFails
  BY <1>6 DEF RegistrationFails, FailStart
<1>7. CASE FinishStart
  BY <1>7 DEF FinishStart
<1>8. CASE Drained
  BY <1>8 DEF Drained
<1>9. CASE StopFails
  BY <1>9 DEF StopFails, AnswerLeader
<1>10. CASE StopSucceeds
  BY <1>10 DEF StopSucceeds, AnswerLeader
<1>11. CASE HandlerRekills
  BY <1>11 DEF HandlerRekills
<1>12. CASE HandlerExits
  BY <1>12 DEF HandlerExits
<1>13. ASSUME NEW p \in Plugins, StartHookSettles(p) PROVE Goal
  BY <1>13 DEF StartHookSettles
<1>14. ASSUME NEW r \in Requests, RequestArrives(r) PROVE Goal
  BY <1>14 DEF RequestArrives, EnsureStarted, BeginStart, Advance
<1>15. ASSUME NEW r \in Requests, RequestResumes(r) PROVE Goal
  BY <1>15 DEF RequestResumes, EnsureStarted, Advance
<1>16. ASSUME NEW r \in Requests, ContextSettles(r) PROVE Goal
  BY <1>16 DEF ContextSettles, Advance
<1>17. ASSUME NEW r \in Requests, ExecutionEnds(r) PROVE Goal
  BY <1>17 DEF ExecutionEnds, Advance
<1>18. ASSUME NEW c \in Callers, UserStops(c) PROVE Goal
  BY <1>18 DEF UserStops, CallStop, AnswerStopped, LeadStop, Answer
<1>19. ASSUME NEW c \in Stoppers, StopResumes(c) PROVE Goal
  BY <1>19 DEF StopResumes, AnswerStopped, Answer
<1>20. ASSUME NEW p \in DrainPlugins, DrainHookSettles(p) PROVE Goal
  BY <1>20 DEF DrainHookSettles, Settle
<1>21. ASSUME NEW d \in Disposers, DisposerSettles(d) PROVE Goal
  BY <1>21 DEF DisposerSettles, Settle
<1>22. ASSUME NEW s \in Signals, SignalKills(s) PROVE Goal
  BY <1>22 DEF SignalKills
<1>23. ASSUME NEW s \in Signals, SignalHandled(s) PROVE Goal
  BY <1>23 DEF SignalHandled, CallStop, AnswerStopped, LeadStop, Answer
<1>24. CASE UNCHANGED vars
  BY <1>24 DEF vars
<1>. QED
  BY <1>1, <1>2, <1>3, <1>4, <1>5, <1>6, <1>7, <1>8, <1>9, <1>10, <1>11,
     <1>12, <1>13, <1>14, <1>15, <1>16, <1>17, <1>18, <1>19, <1>20, <1>21,
     <1>22, <1>23, <1>24
     DEF Next, StartStep, StopStep

\* No second stop() and no signal runs a hook again.
THEOREM HooksOnce == Spec => HooksRunOnce
<1>. DEFINE Once ==
       /\ \A p \in DrainPlugins :
            drainHook[p] \in {"done", "failed"} => drainHook'[p] = drainHook[p]
       /\ \A d \in Disposers :
            disposal[d] \in {"done", "failed"} => disposal'[d] = disposal[d]
<1>1. ASSUME IInv, [Next]_vars PROVE Once
  <2>1. ASSUME NEW p \in DrainPlugins, drainHook[p] \in {"done", "failed"}
        PROVE  drainHook'[p] = drainHook[p]
    <3>1. phase # "started"
      BY <1>1, <2>1 DEF IInv, HookInv
    <3>. QED
      BY <1>1, <2>1, <3>1, HookSteps DEF DrainHookSettles, IInv, TypeOK
  <2>2. ASSUME NEW d \in Disposers, disposal[d] \in {"done", "failed"}
        PROVE  disposal'[d] = disposal[d]
    <3>1. phase # "draining"
      BY <1>1, <2>2 DEF IInv, HookInv
    <3>. QED
      BY <1>1, <2>2, <3>1, HookSteps DEF DisposerSettles, IInv, TypeOK
  <2>. QED
    BY <2>1, <2>2
<1>. QED
  BY <1>1, Invariance, PTL DEF Spec, HooksRunOnce

\* A signal kills the process only before the server is started and after a
\* shutdown without error.
THEOREM NoKill == Spec => NoKillDuringShutdown
<1>. DEFINE Kept ==
       process' = "killed" /\ StopOnSignals =>
         phase \notin {"started", "draining", "stopping"}
<1>1. ASSUME IInv, [Next]_vars, process = "running" PROVE Kept
  <2>. USE <1>1 DEF IInv, SignalInv, bootVars, stopVars, callVars, signalVars
  <2>1. CASE Start
    BY <2>1 DEF Start, BeginStart
  <2>2. CASE LoadSucceeds
    BY <2>2 DEF LoadSucceeds
  <2>3. CASE LoadFails
    BY <2>3 DEF LoadFails, FailStart
  <2>4. CASE StartHookRejected
    BY <2>4 DEF StartHookRejected, FailStart
  <2>5. CASE StartHooksDone
    BY <2>5 DEF StartHooksDone
  <2>6. CASE RegistrationFails
    BY <2>6 DEF RegistrationFails, FailStart
  <2>7. CASE FinishStart
    BY <2>7 DEF FinishStart
  <2>8. CASE Drained
    BY <2>8 DEF Drained
  <2>9. CASE StopFails
    BY <2>9 DEF StopFails, AnswerLeader
  <2>10. CASE StopSucceeds
    BY <2>10 DEF StopSucceeds, AnswerLeader
  <2>11. CASE HandlerRekills
    BY <2>11 DEF HandlerRekills, StopCallsAgree, Stoppers
  <2>12. CASE HandlerExits
    BY <2>12 DEF HandlerExits
  <2>13. ASSUME NEW p \in Plugins, StartHookSettles(p) PROVE Kept
    BY <2>13 DEF StartHookSettles
  <2>14. ASSUME NEW r \in Requests, RequestArrives(r) PROVE Kept
    BY <2>14 DEF RequestArrives, EnsureStarted, BeginStart, Advance
  <2>15. ASSUME NEW r \in Requests, RequestResumes(r) PROVE Kept
    BY <2>15 DEF RequestResumes, EnsureStarted, Advance
  <2>16. ASSUME NEW r \in Requests, ContextSettles(r) PROVE Kept
    BY <2>16 DEF ContextSettles, Advance
  <2>17. ASSUME NEW r \in Requests, ExecutionEnds(r) PROVE Kept
    BY <2>17 DEF ExecutionEnds, Advance
  <2>18. ASSUME NEW c \in Callers, UserStops(c) PROVE Kept
    BY <2>18 DEF UserStops, CallStop, AnswerStopped, LeadStop, Answer
  <2>19. ASSUME NEW c \in Stoppers, StopResumes(c) PROVE Kept
    BY <2>19 DEF StopResumes, AnswerStopped, Answer
  <2>20. ASSUME NEW p \in DrainPlugins, DrainHookSettles(p) PROVE Kept
    BY <2>20 DEF DrainHookSettles, Settle
  <2>21. ASSUME NEW d \in Disposers, DisposerSettles(d) PROVE Kept
    BY <2>21 DEF DisposerSettles, Settle
  <2>22. ASSUME NEW s \in Signals, SignalKills(s) PROVE Kept
    BY <2>22 DEF SignalKills
  <2>23. ASSUME NEW s \in Signals, SignalHandled(s) PROVE Kept
    BY <2>23 DEF SignalHandled, CallStop, AnswerStopped, LeadStop, Answer
  <2>24. CASE UNCHANGED vars
    BY <2>24 DEF vars
  <2>. QED
    BY <2>1, <2>2, <2>3, <2>4, <2>5, <2>6, <2>7, <2>8, <2>9, <2>10, <2>11,
       <2>12, <2>13, <2>14, <2>15, <2>16, <2>17, <2>18, <2>19, <2>20, <2>21,
       <2>22, <2>23, <2>24
       DEF Next, StartStep, StopStep
<1>2. ASSUME [Next]_vars, process # "running" PROVE UNCHANGED vars
  BY <1>2 DEF Next
<1>3. ASSUME IInv, [Next]_vars PROVE [Kept]_vars
  BY <1>1, <1>2, <1>3
<1>. QED
  BY <1>3, Invariance, PTL DEF Spec, NoKillDuringShutdown

-----------------------------------------------------------------------------
(***************************************************************************)
(* The server implements the contract of stop().                           *)
(***************************************************************************)
LEMMA InitRefines == Init => Contract!Init
  BY DEF Init, Contract!Init, AbstractStage, AbstractReply

\* A step that changes neither the phase, the error nor the calls stutters.
LEMMA Stutters ==
  ASSUME UNCHANGED <<phase, stopError, callVars>>
  PROVE  UNCHANGED Contract!vars
  BY DEF callVars, Contract!vars, AbstractStage, AbstractReply

LEMMA CallRefines ==
  ASSUME IInv, NEW c \in Stoppers, CallStop(c)
  PROVE  [Contract!Next]_(Contract!vars)
<1>. USE DEF IInv, TypeOK, CallInv, Answer, AbstractStage, AbstractReply, stopVars
<1>1. CASE phase \in {"initialized", "starting", "failedToStart"}
  <2>1. Contract!CallRefused(c)
    BY <1>1 DEF CallStop, LeadStop, Contract!CallRefused
  <2>. QED
    BY <2>1 DEF Contract!Next
<1>2. CASE phase = "stopped"
  <2>1. Contract!Answer(c)
    BY <1>2 DEF CallStop, AnswerStopped, LeadStop, Contract!Answer, Contract!ReplyOf
  <2>. QED
    BY <2>1 DEF Contract!Next
<1>3. CASE phase \in {"draining", "stopping"}
  <2>1. Contract!CallJoins(c)
    BY <1>3 DEF CallStop, LeadStop, Contract!CallJoins
  <2>. QED
    BY <2>1 DEF Contract!Next
<1>4. CASE phase = "started"
  <2>1. stopCall[c] = "idle" /\ LeadStop(c)
    BY <1>4 DEF CallStop
  <2>2. thrown' = thrown
    BY <2>1 DEF LeadStop
  <2>3. Contract!CallCloses(c)
    BY <1>4, <2>1, <2>2 DEF LeadStop, Contract!CallCloses
  <2>. QED
    BY <2>3 DEF Contract!Next
<1>. QED
  BY <1>1, <1>2, <1>3, <1>4 DEF Phases

LEMMA EndRefines ==
  ASSUME IInv, StopFails \/ StopSucceeds
  PROVE  [Contract!Next]_(Contract!vars)
<1>. DEFINE L == {c \in Stoppers : stopCall[c] = "leading"}
<1>1. Contract!Close(stopError', L)
  BY DEF IInv, TypeOK, CallInv, StopFails, StopSucceeds, AnswerLeader,
         AbstractStage, AbstractReply, Contract!Close, Contract!ReplyOf
<1>2. stopError' \in Errors \cup {None}
  BY DEF IInv, TypeOK, StopFails, StopSucceeds
<1>. QED
  BY <1>1, <1>2 DEF Contract!Next

LEMMA NextRefines ==
  IInv /\ [Next]_vars => [Contract!Next]_(Contract!vars)
<1>. DEFINE Goal == [Contract!Next]_(Contract!vars)
<1>. SUFFICES ASSUME IInv, [Next]_vars PROVE Goal
  OBVIOUS
<1>. USE DEF bootVars, stopVars
<1>1. CASE Start
  BY <1>1 DEF Start, BeginStart, callVars, AbstractStage, AbstractReply, Contract!vars
<1>2. CASE LoadSucceeds
  BY <1>2, Stutters DEF LoadSucceeds
<1>3. CASE LoadFails
  BY <1>3 DEF LoadFails, FailStart, IInv, BootInv, callVars, AbstractStage,
         AbstractReply, Contract!vars
<1>4. CASE StartHookRejected
  BY <1>4 DEF StartHookRejected, FailStart, IInv, BootInv, callVars, AbstractStage,
         AbstractReply, Contract!vars
<1>5. CASE StartHooksDone
  BY <1>5, Stutters DEF StartHooksDone
<1>6. CASE RegistrationFails
  BY <1>6 DEF RegistrationFails, FailStart, IInv, BootInv, callVars, AbstractStage,
         AbstractReply, Contract!vars
<1>7. CASE FinishStart
  <2>1. Contract!BecomeReady
    BY <1>7 DEF FinishStart, IInv, BootInv, callVars, AbstractStage,
              AbstractReply, Contract!BecomeReady
  <2>. QED
    BY <2>1 DEF Contract!Next
<1>8. CASE Drained
  BY <1>8 DEF Drained, callVars, AbstractStage, AbstractReply, Contract!vars
<1>9. CASE StopFails \/ StopSucceeds
  BY <1>9, EndRefines
<1>10. CASE HandlerRekills \/ HandlerExits
  BY <1>10, Stutters DEF HandlerRekills, HandlerExits
<1>11. ASSUME NEW p \in Plugins, StartHookSettles(p) PROVE Goal
  BY <1>11, Stutters DEF StartHookSettles
<1>12. ASSUME NEW r \in Requests, RequestArrives(r) PROVE Goal
  BY <1>12 DEF RequestArrives, EnsureStarted, BeginStart, Advance, callVars,
              AbstractStage, AbstractReply, Contract!vars
<1>13. ASSUME NEW r \in Requests, RequestResumes(r) PROVE Goal
  BY <1>13, Stutters DEF RequestResumes, EnsureStarted, Advance
<1>14. ASSUME NEW r \in Requests, ContextSettles(r) PROVE Goal
  BY <1>14, Stutters DEF ContextSettles, EnsureStarted, Advance
<1>15. ASSUME NEW r \in Requests, ExecutionEnds(r) PROVE Goal
  BY <1>15, Stutters DEF ExecutionEnds, EnsureStarted, Advance
<1>16. ASSUME NEW c \in Callers, UserStops(c) PROVE Goal
  BY <1>16, CallRefines DEF UserStops, Stoppers
<1>17. ASSUME NEW c \in Stoppers, StopResumes(c) PROVE Goal
  <2>1. phase = "stopped"
    BY <1>17 DEF StopResumes, IInv, CallInv
  <2>. USE <1>17, <2>1 DEF StopResumes, AnswerStopped, Answer, IInv, TypeOK,
            AbstractStage, AbstractReply, Contract!Answer, Contract!ReplyOf
  <2>2. Contract!Answer(c)
    <3>1. CASE stopError = None
      BY <3>1
    <3>2. CASE stopError # None
      BY <3>2
    <3>. QED
      BY <3>1, <3>2
  <2>. QED
    BY <2>2 DEF Contract!Next
<1>18. ASSUME NEW p \in DrainPlugins, DrainHookSettles(p) PROVE Goal
  BY <1>18, Stutters DEF DrainHookSettles
<1>19. ASSUME NEW d \in Disposers, DisposerSettles(d) PROVE Goal
  BY <1>19, Stutters DEF DisposerSettles
<1>20. ASSUME NEW s \in Signals, SignalKills(s) PROVE Goal
  BY <1>20, Stutters DEF SignalKills
<1>21. ASSUME NEW s \in Signals, SignalHandled(s) PROVE Goal
  BY <1>21, CallRefines DEF SignalHandled, Stoppers
<1>22. CASE UNCHANGED vars
  BY <1>22, Stutters DEF vars
<1>. QED
  BY <1>1, <1>2, <1>3, <1>4, <1>5, <1>6, <1>7, <1>8, <1>9, <1>10, <1>11,
     <1>12, <1>13, <1>14, <1>15, <1>16, <1>17, <1>18, <1>19, <1>20, <1>21,
     <1>22
     DEF Next, StartStep, StopStep

\* The shutdown with its stages, its barrier and its signals keeps the promise
\* of stop(): one verdict, told to every call, and never before it is known.
THEOREM Implementation == Spec => ImplementsContract
  BY InitRefines, InitInv, NextRefines, Invariance, PTL
     DEF Spec, ImplementsContract, Contract!Spec

=============================================================================
