---------------------------- MODULE StopContract ----------------------------
(***************************************************************************)
(* What ApolloServerBase.stop() promises to the code that calls it, with   *)
(* none of the shutdown machinery.  A server that never became ready       *)
(* refuses the call.  The first call made to a ready server closes it, the *)
(* shutdown ends with one verdict -- an error, or None when all went well  *)
(* -- and every call, however it was interleaved with the shutdown, is     *)
(* answered with that one verdict and never before it is known.            *)
(*                                                                         *)
(* (CHANGELOG.md:41: "the original call to server.stop() throws the error, *)
(* and any concurrent and subsequent calls to server.stop() throw the same *)
(* error".)  Nothing is said here of when a call is answered: that is a    *)
(* liveness property, and the server does not have it.                     *)
(***************************************************************************)
CONSTANTS Stoppers,   \* the callers of stop()
          Errors,     \* what a shutdown can fail with
          None        \* no error

VARIABLES stage,      \* "down", "up", "closing", "closed"
          verdict,    \* how the shutdown ended
          reply,      \* the state of each call of stop()
          replyError  \* the error a call threw

vars == <<stage, verdict, reply, replyError>>

Replies == {"idle", "pending", "refused", "returned", "threw"}

ContractTypeOK ==
  /\ stage \in {"down", "up", "closing", "closed"}
  /\ verdict \in Errors \cup {None}
  /\ reply \in [Stoppers -> Replies]
  /\ replyError \in [Stoppers -> Errors \cup {None}]

Init ==
  /\ stage = "down"
  /\ verdict = None
  /\ reply = [c \in Stoppers |-> "idle"]
  /\ replyError = [c \in Stoppers |-> None]

\* The reply that carries the verdict v.
ReplyOf(v) == IF v = None THEN "returned" ELSE "threw"

BecomeReady ==
  /\ stage = "down"
  /\ stage' = "up"
  /\ UNCHANGED <<verdict, reply, replyError>>

CallRefused(c) ==
  /\ reply[c] = "idle" /\ stage = "down"
  /\ reply' = [reply EXCEPT ![c] = "refused"]
  /\ UNCHANGED <<stage, verdict, replyError>>

CallCloses(c) ==
  /\ reply[c] = "idle" /\ stage = "up"
  /\ stage' = "closing"
  /\ reply' = [reply EXCEPT ![c] = "pending"]
  /\ UNCHANGED <<verdict, replyError>>

CallJoins(c) ==
  /\ reply[c] = "idle" /\ stage = "closing"
  /\ reply' = [reply EXCEPT ![c] = "pending"]
  /\ UNCHANGED <<stage, verdict, replyError>>

\* The shutdown ends; the calls in S learn it in the same step.
Close(v, S) ==
  /\ stage = "closing"
  /\ \A c \in S : reply[c] = "pending"
  /\ stage' = "closed"
  /\ verdict' = v
  /\ reply' = [c \in Stoppers |-> IF c \in S THEN ReplyOf(v) ELSE reply[c]]
  /\ replyError' = [c \in Stoppers |-> IF c \in S THEN v ELSE replyError[c]]

\* A call is answered: one that joined the shutdown, or one that came after.
Answer(c) ==
  /\ stage = "closed"
  /\ reply[c] \in {"idle", "pending"}
  /\ reply' = [reply EXCEPT ![c] = ReplyOf(verdict)]
  /\ replyError' = [replyError EXCEPT ![c] = verdict]
  /\ UNCHANGED <<stage, verdict>>

Next ==
  \/ BecomeReady
  \/ \E c \in Stoppers :
       CallRefused(c) \/ CallCloses(c) \/ CallJoins(c) \/ Answer(c)
  \/ \E v \in Errors \cup {None}, S \in SUBSET Stoppers : Close(v, S)

Spec == Init /\ [][Next]_vars
=============================================================================
