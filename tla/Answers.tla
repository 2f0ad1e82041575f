------------------------------- MODULE Answers -------------------------------
(***************************************************************************)
(* An HTTP request with the execution of its first operation.  What the    *)
(* execution has come to when willSendResponse() ended is what             *)
(* runHttpQuery() gets; the fields that still run then go on, even after   *)
(* the answer.  The other operations of a batch are left as HttpQuery has  *)
(* them: each is executed by itself.                                       *)
(***************************************************************************)
EXTENDS Execution

CONSTANTS Frameworks, Batches, Unset

VARIABLES framework, request, httpPc, op, outcome, cacheable, httpHeader, status,
          answer, executed

Http == INSTANCE HttpQuery WITH pc <- httpPc, header <- httpHeader

httpVars == <<framework, request, httpPc, op, outcome, cacheable, httpHeader, status,
              answer, executed>>

ASSUME AnswersAssumption == Http!HttpAssumption

AnswersInit == Init /\ Http!Init

\* The first operation responds with the data and the header of its execution.  Or
\* with errors only: graphql-js refuses its variables, or an executor of the user
\* rejects, before any field is resolved, or a hook does at the end.
RespondsAsSent ==
  IF outcome'[1] = "errors"
  THEN /\ pc = "ending" \/ \A f \in Fields : field[f] \in {"idle", "resolving"}
       /\ 1 \notin cacheable'
  ELSE /\ pc = "sent"
       /\ outcome'[1] = IF response = {} THEN "data" ELSE "partial"
       /\ 1 \in cacheable' <=> header # Undefined

HttpStep ==
  /\ Http!Next
  /\ (op # <<>> /\ op[1] = "executing" /\ op'[1] = "done" /\ outcome'[1] # "thrown")
       => RespondsAsSent
  /\ UNCHANGED vars

\* Of an execution that has come to errors only, nothing more is sent.
ExecutionStep ==
  /\ 1 \in executed /\ outcome[1] # "errors"
  /\ Next
  /\ UNCHANGED httpVars

AnswersNext == HttpStep \/ ExecutionStep

AnswersSpec == AnswersInit /\ [][AnswersNext]_<<vars, httpVars>>

-----------------------------------------------------------------------------
\* A batch is answered as a whole, as HttpQuery says.  And the answer to one
\* operation is called cacheable only if its execution was: for the strictest of
\* the policies of all its fields, every one of which was resolved before.
AnswersAreWhole ==
  /\ Http!AnswersAreWhole
  /\ answer # Unset /\ ~Http!IsBatch /\ answer.header = "max-age" =>
       /\ outcome[1] = "data"
       /\ \A f \in Fields : field[f] = "done"
       /\ IsRestricted(preset) \/ header = Strictest(Fields)
=============================================================================
