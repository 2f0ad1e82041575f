----------------------- MODULE OperationRegistryProofs -----------------------
(***************************************************************************)
(* Theorems of OperationRegistry, for any signatures and manifests, any    *)
(* failures of the checks and any number of changes and operations.        *)
(***************************************************************************)
EXTENDS OperationRegistry, TLAPS

\* The store has nothing that was never published.
StoreInv ==
  /\ StoreFollowsManifest
  /\ last \subseteq offered /\ leftovers \subseteq offered

\* What can be read is published, and what is published was offered.
OriginInv ==
  published # NoManifest => {published[i] : i \in DOMAIN published} \ {Malformed} \subseteq offered

IInv == TypeOK /\ StoreInv /\ OriginInv /\ RegisteredAreServed

-----------------------------------------------------------------------------
\* What an update reads are signatures of the manifest.
LEMMA ReadSignatures ==
  ASSUME NEW m \in Manifests
  PROVE  /\ Read(m) \subseteq Signatures
         /\ Read(m) \subseteq {m[i] : i \in DOMAIN m} \ {Malformed}
<1>1. m \in Seq(Signatures \cup {Malformed})
  BY RegistryAssumption
<1>2. \A i \in DOMAIN m : m[i] \in Signatures \cup {Malformed}
  BY <1>1
<1>3. DOMAIN m \subseteq Nat
  BY <1>1
<1>4. ASSUME NEW j \in DOMAIN m, \A b \in {i \in DOMAIN m : m[i] = Malformed} : j < b
      PROVE  m[j] # Malformed
  BY <1>3, <1>4
<1>. QED
  BY <1>2, <1>4 DEF Read

LEMMA InitInv == Init => IInv
<1>. SUFFICES ASSUME Init PROVE IInv
  OBVIOUS
<1>1. TypeOK
  BY DEF Init, TypeOK
<1>2. StoreInv /\ OriginInv /\ RegisteredAreServed
  BY DEF Init, StoreInv, StoreFollowsManifest, OriginInv, RegisteredAreServed
<1>. QED
  BY <1>1, <1>2 DEF IInv

\* An update keeps the account of the store, whether it fails or not.
LEMMA UpdateInv ==
  ASSUME IInv, NEW m \in Manifests, m = published, published # NoManifest,
         UpdateManifest(m), UNCHANGED offered
  PROVE  /\ StoreInv'
         /\ last' \subseteq Signatures /\ store' \subseteq Signatures
         /\ leftovers' \subseteq Signatures
<1>1. Read(m) \subseteq offered /\ Read(m) \subseteq Signatures
  BY ReadSignatures DEF IInv, OriginInv
<1>2. CASE WellFormed(m)
  BY <1>1, <1>2 DEF UpdateManifest, IInv, StoreInv, StoreFollowsManifest, TypeOK
<1>3. CASE ~WellFormed(m)
  BY <1>1, <1>3 DEF UpdateManifest, IInv, StoreInv, StoreFollowsManifest, TypeOK
<1>. QED
  BY <1>2, <1>3

\* An operation in the last manifest is in the store, so that it is not refused;
\* one that is let in is there as well, unless it was not to be forbidden.
LEMMA OperationInv ==
  ASSUME IInv, NEW signature \in Signatures, NEW answer \in Answers,
         Operation(signature, answer)
  PROVE  RegisteredAreServed' /\ verdicts' \subseteq Verdicts
<1>. DEFINE v == [signature |-> signature, answer |-> answer, registered |-> last,
                  refused |-> signature \notin store /\ ShouldForbid(answer) /\ ~dryRun]
<1>1. verdicts' = verdicts \cup {v} /\ UNCHANGED <<forbid, dryRun, offered>>
  BY DEF Operation, options, origin
<1>2. v.refused => v.signature \notin v.registered
  BY DEF IInv, StoreInv, StoreFollowsManifest
<1>3. store \subseteq offered
  BY DEF IInv, StoreInv, StoreFollowsManifest
<1>4. ~v.refused /\ ~dryRun => v.signature \in offered \/ ~ShouldForbid(answer)
  BY <1>3
<1>5. ~ShouldForbid(answer) =>
        \/ forbid \in {"unset", "false"}
        \/ forbid = "function" /\ answer = "false"
  BY DEF ShouldForbid, IInv, TypeOK, Forbid
<1>6. v \in Verdicts
  BY DEF Verdicts, IInv, TypeOK
<1>7. verdicts' \subseteq Verdicts
  BY <1>1, <1>6 DEF IInv, TypeOK
<1>8. RegisteredAreServed'
  BY <1>1, <1>2, <1>4, <1>5 DEF IInv, RegisteredAreServed
<1>. QED
  BY <1>7, <1>8

LEMMA NextInv == IInv /\ [Next]_vars => IInv'
<1>. SUFFICES ASSUME IInv, [Next]_vars PROVE IInv'
  OBVIOUS
<1>. USE DEF IInv, StoreFollowsManifest, options, agent, origin
<1>1. ASSUME NEW m \in Manifests, Publish(m) PROVE IInv'
  <2>1. published' = m /\ offered' = offered \cup ({m[i] : i \in DOMAIN m} \ {Malformed})
    BY <1>1 DEF Publish
  <2>2. offered' \subseteq Signatures
    <3>1. m \in Seq(Signatures \cup {Malformed})
      BY RegistryAssumption
    <3>2. \A i \in DOMAIN m : m[i] \in Signatures \cup {Malformed}
      BY <3>1
    <3>. QED
      BY <2>1, <3>2 DEF TypeOK
  <2>3. TypeOK'
    BY <1>1, <2>1, <2>2 DEF Publish, TypeOK
  <2>4. StoreInv' /\ OriginInv'
    BY <1>1, <2>1 DEF Publish, StoreInv, OriginInv
  <2>5. RegisteredAreServed'
    BY <1>1, <2>1 DEF Publish, RegisteredAreServed
  <2>. QED
    BY <2>3, <2>4, <2>5
<1>2. CASE Pulse
  BY <1>2 DEF Pulse, TypeOK, StoreInv, OriginInv, RegisteredAreServed
<1>3. CASE SecretArrives
  BY <1>3 DEF SecretArrives, TypeOK, StoreInv, OriginInv, RegisteredAreServed
<1>4. CASE CheckFails
  BY <1>4 DEF CheckFails, Started, TypeOK, StoreInv, OriginInv, RegisteredAreServed
<1>5. CASE WrongContentType
  BY <1>5 DEF WrongContentType, Started, TypeOK, StoreInv, OriginInv, RegisteredAreServed
<1>6. CASE NotModified
  BY <1>6 DEF NotModified, Started, TypeOK, StoreInv, OriginInv, RegisteredAreServed
<1>7. CASE Modified
  <2>1. published \in Manifests /\ published # NoManifest /\ UpdateManifest(published)
    BY <1>7 DEF Modified, TypeOK
  <2>2. UNCHANGED <<options, published, changes, offered, hasSecret, requests, verdicts>>
    BY <1>7 DEF Modified
  <2>3. /\ StoreInv' /\ last' \subseteq Signatures /\ store' \subseteq Signatures
        /\ leftovers' \subseteq Signatures
    BY <2>1, <2>2, UpdateInv
  <2>4. TypeOK'
    BY <1>7, <2>2, <2>3 DEF Modified, Started, TypeOK
  <2>. QED
    BY <2>2, <2>3, <2>4 DEF OriginInv, RegisteredAreServed
<1>8. CASE Stop
  BY <1>8 DEF Stop, TypeOK, StoreInv, OriginInv, RegisteredAreServed
<1>9. ASSUME NEW signature \in Signatures, NEW answer \in Answers,
             Operation(signature, answer)
      PROVE  IInv'
  <2>1. RegisteredAreServed' /\ verdicts' \subseteq Verdicts
    BY <1>9, OperationInv
  <2>2. TypeOK'
    BY <1>9, <2>1 DEF Operation, TypeOK
  <2>. QED
    BY <1>9, <2>1, <2>2 DEF Operation, StoreInv, OriginInv
<1>10. CASE UNCHANGED vars
  BY <1>10 DEF vars, TypeOK, StoreInv, OriginInv, RegisteredAreServed
<1>. QED
  BY <1>1, <1>2, <1>3, <1>4, <1>5, <1>6, <1>7, <1>8, <1>9, <1>10 DEF Next

LEMMA Invariance == Spec => []IInv
  BY InitInv, NextInv, PTL DEF Spec

-----------------------------------------------------------------------------
\* Every variable keeps its type, for any signatures, manifests and bounds: what
\* a manifest has beside signatures never gets into the store.
THEOREM TypeCorrect == Spec => []TypeOK
  BY Invariance, PTL DEF IInv

\* The agent's store is that of the last manifest that was read to its end, and what
\* failed updates left.
THEOREM StoreFollows == Spec => []StoreFollowsManifest
<1>1. IInv => StoreFollowsManifest
  BY DEF IInv, StoreInv, StoreFollowsManifest
<1>. QED
  BY <1>1, Invariance, PTL

\* didResolveOperation() refuses no operation of the manifest in force, and lets
\* none pass that is in no manifest unless the options allow it.
THEOREM Served == Spec => []RegisteredAreServed
  BY Invariance, PTL DEF IInv
=============================================================================
