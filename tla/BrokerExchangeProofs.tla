------------------------- MODULE BrokerExchangeProofs -------------------------
(***************************************************************************)
(* Theorems about BrokerExchange, for any number of artifacts and any      *)
(* capacity of the connection.  The inductive invariant says, for each     *)
(* step of the server, how much of the response is written, and for each   *)
(* step of the client, how much of it is read and staged.                  *)
(***************************************************************************)
EXTENDS BrokerExchange, TLAPS

\* The staging directory with the first n artifacts complete.
Filled(n) == [f \in Files |->
    IF f[1] = "artifact" /\ f[2] <= n THEN "complete" ELSE "none"]

\* The final directory of a report with n artifacts.
Whole(n) == [f \in Files |->
    IF \/ f[1] = "metadata"
       \/ f[1] = "artifact" /\ f[2] <= n
    THEN "complete" ELSE "none"]

ServerInv ==
    /\ answer # "execution" => manifest = 0
    /\ answer = "none" => sent = 0 /\ bundle = "none" /\ served = "none"
    /\ server \in {"idle", "queued", "reading", "admitting", "running"} => answer = "none"
    /\ server \in {"streaming", "discarding", "finishing", "acking"} => answer # "none"
    /\ server \in {"streaming", "finishing", "acking"} => altered = 0
    /\ server \in {"streaming", "discarding"} => sent < Parts
    /\ server = "finishing" => sent + 1 = Parts
    /\ server = "acking" => sent = Parts /\ ack # "read"
    /\ server \in {"finishing", "acking", "closing", "ended", "crashed"} => bundle # "open"
    /\ server \in {"idle", "queued", "reading"} => request # "read"
    /\ sent <= Parts
    /\ sent = Parts => altered = 0
    /\ served = "ok" => ack = "read"
    /\ served # "none" => server \in {"closing", "ended", "crashed"}

WireInv ==
    /\ ack # "none" => got = Parts
    /\ lost => serverClosed /\ got < sent

Reached == got = Parts /\ answer # "none"
Complete == got = Parts /\ answer = "execution" /\ serverClosed

ClientInv ==
    /\ client \in {"dialing", "requesting", "preamble"} => got = 0 /\ staged = NoFiles
    /\ client = "report" => got = 1 /\ answer = "execution" /\ staged = NoFiles
    /\ client = "output" => got = 2 /\ answer = "execution" /\ staged = NoFiles
    /\ client \in {"artifacts", "filling"} => answer = "execution" /\ got \in 3..(2 + manifest)
    /\ client = "artifacts" => staged = Filled(got - 3)
    /\ client = "filling" => staged = [Filled(got - 3) EXCEPT ![Current] = "partial"]
    /\ client = "done" => got + 1 = Parts /\ answer # "none"
    /\ client \in {"acking", "eof"} => Reached
    /\ client = "eof" => ack # "none"
    /\ client \in {"committing", "closing", "publishing", "published"} => Complete
    /\ client \in {"done", "acking", "eof", "committing", "closing"} => staged = Filled(manifest)
    /\ client = "publishing" =>
          \A i \in 1..MaxArtifacts : staged[Artifact(i)] = Filled(manifest)[Artifact(i)]
    /\ client \in {"preamble", "report", "output", "artifacts", "filling", "done",
                   "acking", "eof"} => request # "none"
    /\ client \in {"dialing", "requesting", "preamble", "report", "output", "artifacts",
                   "filling", "done", "acking"} => ack = "none"

FinalInv ==
    /\ final # NoFiles => final = Whole(manifest) /\ Complete /\ staging = "moved"
    /\ final # NoFiles => client \in {"published", "returned", "crashed"}
    /\ client = "published" => final # NoFiles
    /\ result # "none" => client = "returned"
    /\ result = "published" => final # NoFiles
    /\ result = "failed" => final = NoFiles /\ (staging = "left" \/ staged = NoFiles)

IInv == TypeOK /\ ServerInv /\ WireInv /\ ClientInv /\ FinalInv

-----------------------------------------------------------------------------
(***************************************************************************)
(* The staging directory.                                                  *)
(***************************************************************************)
\* The files are artifacts and metadata, and nothing is both.
LEMMA FileShape ==
    /\ \A f \in Files : (\E i \in 1..MaxArtifacts : f = Artifact(i)) \/ (\E j \in 1..3 : f = Metadata(j))
    /\ \A i \in 1..MaxArtifacts : Artifact(i) \in Files /\ Artifact(i)[1] = "artifact" /\ Artifact(i)[2] = i
    /\ \A j \in 1..3 : Metadata(j) \in Files /\ Metadata(j)[1] = "metadata" /\ Metadata(j)[2] = j
    /\ \A i, k : Artifact(i) = Artifact(k) => i = k
BY DEF Files, Artifact, Metadata

\* Filled(0) is the empty directory.
LEMMA FilledNone == Filled(0) = NoFiles
BY FileShape, ExchangeAssumption DEF Filled, NoFiles

\* Completing the next artifact fills one more.
LEMMA FilledNext ==
    ASSUME NEW n \in Nat, n + 1 <= MaxArtifacts
    PROVE  [[Filled(n) EXCEPT ![Artifact(n + 1)] = "partial"]
               EXCEPT ![Artifact(n + 1)] = "complete"] = Filled(n + 1)
<1>1. \A f \in Files : f = Artifact(n + 1) \/ f[1] # "artifact" \/ f[2] # n + 1
  BY FileShape
<1>2. \A f \in Files : f[1] = "artifact" => f[2] \in 1..MaxArtifacts
  BY FileShape
<1>3. Artifact(n + 1) \in Files /\ Artifact(n + 1)[1] = "artifact" /\ Artifact(n + 1)[2] = n + 1
  BY FileShape, ExchangeAssumption
<1> QED
  BY <1>1, <1>2, <1>3, ExchangeAssumption DEF Filled

\* Filled(n) is a directory.
LEMMA FilledType == \A n : Filled(n) \in Contents
BY DEF Filled, Contents

\* The empty directory.
LEMMA NoFilesType == NoFiles \in Contents
BY DEF NoFiles, Contents

\* Complete artifacts and complete metadata are the whole response.
LEMMA WholeStaged ==
    ASSUME NEW n \in 0..MaxArtifacts, NEW s \in Contents,
           \A i \in 1..MaxArtifacts : s[Artifact(i)] = Filled(n)[Artifact(i)],
           \A j \in 1..3 : s[Metadata(j)] = "complete"
    PROVE  s = Whole(n) /\ s # NoFiles
<1>1. \A f \in Files : s[f] = Whole(n)[f]
  <2>1. ASSUME NEW i \in 1..MaxArtifacts PROVE s[Artifact(i)] = Whole(n)[Artifact(i)]
    BY FileShape DEF Filled, Whole
  <2>2. ASSUME NEW j \in 1..3 PROVE s[Metadata(j)] = Whole(n)[Metadata(j)]
    BY FileShape DEF Whole
  <2> QED
    BY <2>1, <2>2, FileShape
<1>2. s = Whole(n)
  BY <1>1 DEF Contents, Whole
<1>3. s[Metadata(1)] # NoFiles[Metadata(1)]
  BY FileShape DEF NoFiles
<1> QED
  BY <1>2, <1>3

-----------------------------------------------------------------------------
(***************************************************************************)
(* The invariant is inductive.                                             *)
(***************************************************************************)
\* The exchange starts with nothing answered, sent, staged or published.
LEMMA InitInv == Init => IInv
<1> SUFFICES ASSUME Init PROVE IInv
  OBVIOUS
<1>1. TypeOK
  <2>1. staged \in Contents /\ final \in Contents
    BY NoFilesType DEF Init
  <2>2. manifest \in 0..MaxArtifacts /\ sent \in 0..(4 + MaxArtifacts)
    BY ExchangeAssumption DEF Init
  <2>3. got \in 0..sent /\ altered \in 0..sent
    BY DEF Init
  <2> QED
    BY <2>1, <2>2, <2>3 DEF Init, TypeOK, ServerSteps, ClientSteps
<1>2. ServerInv /\ WireInv
  BY DEF Init, ServerInv, WireInv, Parts
<1>3. ClientInv /\ FinalInv
  BY DEF Init, ClientInv, FinalInv
<1> QED
  BY <1>1, <1>2, <1>3 DEF IInv

\* The steps of the session.
LEMMA ServerKeeps == ASSUME IInv, ServerStep PROVE IInv'
<1> USE ExchangeAssumption
    DEF IInv, TypeOK, ServerInv, WireInv, ClientInv, FinalInv, Parts, Serve,
        clientVars, destVars, wireVars, ServerSteps, Reached, Complete, Current
<1>1. CASE Accept
  BY <1>1 DEF Accept
<1>2. CASE CloseListener
  BY <1>2 DEF CloseListener
<1>3. CASE ReadRequest
  BY <1>3 DEF ReadRequest
<1>4. CASE ReadRequestFails
  BY <1>4 DEF ReadRequestFails, Reject
<1>5. CASE Deny
  BY <1>5 DEF Deny, Reject
<1>6. CASE StartRun
  BY <1>6 DEF StartRun
<1>7. CASE RunFails
  BY <1>7 DEF RunFails, Reject
<1>8. CASE SendFails
  BY <1>8 DEF SendFails
<1>9. CASE DiscardBundle
  BY <1>9 DEF DiscardBundle, HandleReturns
<1>10. CASE ReleaseBundle
  BY <1>10 DEF ReleaseBundle
<1>11. CASE SendDone
  BY <1>11 DEF SendDone, Writable
<1>12. CASE ReadAck
  BY <1>12 DEF ReadAck, HandleReturns
<1>13. CASE FinishFails
  BY <1>13 DEF FinishFails, HandleReturns
<1>14. CASE CloseConnection
  BY <1>14 DEF CloseConnection, CloseServer
<1>15. ASSUME NEW n \in 0..MaxArtifacts, RunReturns(n) PROVE IInv'
  BY <1>15 DEF RunReturns
<1>16. ASSUME NEW changed \in BOOLEAN, SendPart(changed) PROVE IInv'
  BY <1>16 DEF SendPart, Writable
<1> QED
  BY <1>1, <1>2, <1>3, <1>4, <1>5, <1>6, <1>7, <1>8, <1>9, <1>10, <1>11, <1>12, <1>13, <1>14, <1>15, <1>16 DEF ServerStep

\* The service stop, and the death of the broker.
LEMMA BrokerKeeps == ASSUME IInv, Cancel \/ InterruptActive \/ BrokerDies PROVE IInv'
<1> USE ExchangeAssumption
    DEF IInv, TypeOK, ServerInv, WireInv, ClientInv, FinalInv, Parts, Serve,
        clientVars, destVars, wireVars, serverVars, closeVars, ServerSteps, Reached,
        Complete, Current, CloseServer
<1>1. CASE Cancel
  BY <1>1 DEF Cancel
<1>2. CASE InterruptActive
  BY <1>2 DEF InterruptActive, Active
<1>3. CASE BrokerDies
  BY <1>3 DEF BrokerDies
<1> QED
  BY <1>1, <1>2, <1>3

\* The steps of the client.
LEMMA ClientKeeps == ASSUME IInv, ClientStep \/ Fails PROVE IInv'
<1> USE ExchangeAssumption
    DEF IInv, TypeOK, ServerInv, WireInv, ClientInv, FinalInv, Parts, Go, Keeping,
        destVars, wireVars, serverVars, ClientSteps, Reached, Complete, Current
<1>1. CASE Connect
  BY <1>1 DEF Connect, ServerSteps
<1>2. CASE SendRequest
  BY <1>2 DEF SendRequest
<1>3. CASE ReadPreamble
  BY <1>3, FilledNone DEF ReadPreamble, Receive, Readable
<1>4. CASE ReadReport
  BY <1>4 DEF ReadReport, Receive, Readable
<1>5. CASE ReadOutput
  BY <1>5, FilledNone, FilledType DEF ReadOutput, Receive, Readable
<1>6. CASE OpenArtifact
  <2>1. Current' = Current /\ Parts' = Parts
    BY <1>6 DEF OpenArtifact
  <2>2. staged' \in Contents
    BY <1>6 DEF OpenArtifact, Contents
  <2> QED
    BY <1>6, <2>1, <2>2 DEF OpenArtifact
<1>7. CASE FillArtifact
  <2> DEFINE n == got - 3
  <2>1. /\ n \in Nat /\ n + 1 <= MaxArtifacts /\ Current = Artifact(n + 1)
        /\ staged = [Filled(n) EXCEPT ![Artifact(n + 1)] = "partial"]
    BY <1>7 DEF FillArtifact
  <2>2. [staged EXCEPT ![Current] = "complete"] = Filled(n + 1)
    BY <2>1, <1>7, FilledNext DEF FillArtifact, Receive
  <2> QED
    BY <1>7, <2>1, <2>2, FilledType DEF FillArtifact, Receive, Readable
<1>8. CASE ReadDone
  BY <1>8 DEF ReadDone, Receive, Readable
<1>9. CASE SendAck
  BY <1>9 DEF SendAck
<1>10. CASE ReadEnd
  BY <1>10 DEF ReadEnd, Readable
<1>11. CASE Commit
  BY <1>11 DEF Commit
<1>12. CASE CloseTransport
  BY <1>12 DEF CloseTransport
<1>13. CASE Rename
  BY <1>13, WholeStaged, NoFilesType DEF Rename
<1>14. CASE Return
  BY <1>14 DEF Return
<1>15. CASE StreamEnds
  BY <1>15 DEF StreamEnds
<1>16. CASE Fails
  BY <1>16 DEF Fails
<1>17. ASSUME NEW j \in 1..3, CreateMetadata(j) PROVE IInv'
  BY <1>17, FileShape DEF CreateMetadata, Contents
<1>18. ASSUME NEW j \in 1..3, WriteMetadata(j) PROVE IInv'
  BY <1>18, FileShape DEF WriteMetadata, Contents
<1>19. ASSUME NEW kept \in SUBSET Files, Abort(kept) PROVE IInv'
  BY <1>19, FileShape DEF Abort, Contents
<1> QED
  BY <1>1, <1>2, <1>3, <1>4, <1>5, <1>6, <1>7, <1>8, <1>9, <1>10, <1>11, <1>12, <1>13, <1>14, <1>15, <1>16, <1>17, <1>18, <1>19 DEF ClientStep

\* The death of the client.
LEMMA ClientDeathKeeps == ASSUME IInv, NEW hangs \in BOOLEAN, ClientDies(hangs) PROVE IInv'
BY ExchangeAssumption
DEF IInv, TypeOK, ServerInv, WireInv, ClientInv, FinalInv, Parts, Go, destVars, wireVars,
    serverVars, ClientSteps, Reached, Complete, Current, ClientDies

\* Every step keeps the invariant.
LEMMA NextKeeps == IInv /\ [Next]_vars => IInv'
<1> SUFFICES ASSUME IInv, [Next]_vars PROVE IInv'
  OBVIOUS
<1>1. CASE UNCHANGED vars
  BY <1>1 DEF vars, IInv, TypeOK, ServerInv, WireInv, ClientInv, FinalInv, Parts, serverVars,
              wireVars, closeVars, clientVars, destVars, Reached, Complete, Current
<1> QED
  BY <1>1, ServerKeeps, BrokerKeeps, ClientKeeps, ClientDeathKeeps DEF Next

LEMMA SpecInv == Spec => []IInv
BY InitInv, NextKeeps, PTL DEF Spec

-----------------------------------------------------------------------------
(***************************************************************************)
(* The properties.                                                         *)
(***************************************************************************)
\* Every variable keeps its type.
THEOREM TypeCorrect == Spec => []TypeOK
BY SpecInv, PTL DEF IInv

\* The final directory appears as a whole, with the content of the report, and
\* only after the end of an execution's stream (Publish).
THEOREM PublishedWhole == Spec => []PublishedIsWhole
<1>1. IInv => PublishedIsWhole
  BY DEF IInv, FinalInv, ServerInv, Complete, PublishedIsWhole, Response, Whole, TypeOK, Parts
<1> QED
  BY <1>1, SpecInv, PTL

\* Exchange returns nil exactly when it has published, and cleans up otherwise.
THEOREM VerdictsTrue == Spec => []VerdictTrue
<1>1. IInv => VerdictTrue
  BY DEF IInv, FinalInv, VerdictTrue, Response, Whole
<1> QED
  BY <1>1, SpecInv, PTL

\* No path through the session keeps the artifact handles (WriteExecution).
THEOREM BundlesReleased == Spec => []BundleReleased
<1>1. IInv => BundleReleased
  BY DEF IInv, ServerInv, BundleReleased
<1> QED
  BY <1>1, SpecInv, PTL

\* A session that returned nil has delivered its response, and the disconnect
\* discards none of it.
THEOREM ServedMeansDelivered == Spec => []DeliveredWhenServed
<1>1. IInv => DeliveredWhenServed
  BY DEF IInv, ServerInv, WireInv, DeliveredWhenServed, TypeOK, Parts
<1> QED
  BY <1>1, SpecInv, PTL

\* The session and the client never both wait with nothing under way.
THEOREM NobodyStandsOff == Spec => []NoStandoff
<1>1. IInv => NoStandoff
  BY DEF IInv, ServerInv, WireInv, ClientInv, NoStandoff, TypeOK, Parts, Readable, Reached
<1> QED
  BY <1>1, SpecInv, PTL

-----------------------------------------------------------------------------
(***************************************************************************)
(* The exchange implements ResponsePublication.                            *)
(***************************************************************************)
Abstract == <<answer, IF final = NoFiles THEN "absent" ELSE "whole", result>>

\* The session answers once; nothing else of the server is visible.
LEMMA ServerPublishes ==
    ASSUME IInv, ServerStep \/ Cancel \/ InterruptActive \/ BrokerDies
    PROVE  Publication!Answer \/ UNCHANGED Abstract
<1> USE DEF Serve, clientVars, destVars, Abstract, Publication!Answer, HandleReturns
<1>1. CASE ServerStep
  <2>1. UNCHANGED <<final, result>>
    BY <1>1 DEF ServerStep, Accept, CloseListener, ReadRequest, ReadRequestFails, Deny, StartRun,
                RunFails, RunReturns, SendPart, SendFails, DiscardBundle, ReleaseBundle,
                SendDone, ReadAck, FinishFails, CloseConnection, Reject
  <2>2. CASE ReadRequestFails \/ Deny \/ RunFails \/ \E n \in 0..MaxArtifacts : RunReturns(n)
    <3>1. answer = "none"
      BY <2>2 DEF IInv, ServerInv, ReadRequestFails, Deny, RunFails, RunReturns
    <3>2. answer' \in {"execution", "rejected"}
      BY <2>2 DEF ReadRequestFails, Deny, RunFails, RunReturns, Reject
    <3> QED
      BY <2>1, <3>1, <3>2
  <2>3. CASE \/ Accept \/ CloseListener \/ ReadRequest \/ StartRun
             \/ (\E changed \in BOOLEAN : SendPart(changed)) \/ SendFails \/ DiscardBundle
             \/ ReleaseBundle \/ SendDone \/ ReadAck \/ FinishFails \/ CloseConnection
    <3>1. answer' = answer
      BY <2>3 DEF Accept, CloseListener, ReadRequest, StartRun, SendPart, SendFails,
                  DiscardBundle, ReleaseBundle, SendDone, ReadAck, FinishFails, CloseConnection
    <3> QED
      BY <2>1, <3>1
  <2> QED
    BY <1>1, <2>2, <2>3 DEF ServerStep
<1>2. CASE Cancel \/ InterruptActive \/ BrokerDies
  BY <1>2 DEF Cancel, InterruptActive, BrokerDies, serverVars
<1> QED
  BY <1>1, <1>2

\* The client publishes, then succeeds, or fails before it has published.
LEMMA ClientPublishes ==
    ASSUME IInv, \/ ClientStep \/ Fails
                 \/ \E hangs \in BOOLEAN : ClientDies(hangs)
    PROVE  Publication!Next \/ UNCHANGED Abstract
<1> USE DEF Go, Abstract, Keeping, destVars, serverVars
<1>1. CASE Rename
  <2>1. /\ answer = "execution" /\ result = "none" /\ staged # NoFiles
    BY <1>1, WholeStaged DEF IInv, TypeOK, ClientInv, FinalInv, Complete, Rename
  <2> QED
    BY <1>1, <2>1 DEF Rename, Publication!Next, Publication!Publish
<1>2. CASE Return
  <2>1. final # NoFiles /\ result = "none"
    BY <1>2 DEF IInv, TypeOK, FinalInv, Return
  <2> QED
    BY <1>2, <2>1 DEF Return, Publication!Next, Publication!Succeed
<1>3. ASSUME NEW kept \in SUBSET Files, Abort(kept) PROVE Publication!Next
  <2>1. final = NoFiles /\ result = "none"
    BY <1>3 DEF IInv, TypeOK, FinalInv, Abort
  <2> QED
    BY <1>3, <2>1 DEF Abort, Publication!Next, Publication!Fail
<1>4. CASE \/ Connect \/ SendRequest \/ ReadPreamble \/ ReadReport \/ ReadOutput
           \/ OpenArtifact \/ FillArtifact \/ ReadDone \/ SendAck \/ ReadEnd
           \/ Commit \/ CloseTransport
           \/ (\E j \in 1..3 : CreateMetadata(j) \/ WriteMetadata(j))
           \/ StreamEnds \/ Fails \/ (\E hangs \in BOOLEAN : ClientDies(hangs))
  BY <1>4 DEF Connect, SendRequest, ReadPreamble, ReadReport, ReadOutput, OpenArtifact,
              FillArtifact, ReadDone, SendAck, ReadEnd, Commit, CloseTransport,
              CreateMetadata, WriteMetadata, StreamEnds, Fails, ClientDies
<1> QED
  BY <1>1, <1>2, <1>3, <1>4 DEF ClientStep

\* What the execute job sees of an exchange is a response publication: one
\* answer, one whole directory, and a verdict that agrees with it.
THEOREM ExchangeIsPublication == Spec => IsPublication
<1>1. Init => Publication!Init
  BY DEF Init, Publication!Init
<1>2. IInv /\ [Next]_vars => [Publication!Next]_(Publication!vars)
  <2> SUFFICES ASSUME IInv, [Next]_vars PROVE Publication!Next \/ UNCHANGED Abstract
    BY DEF Abstract, Publication!vars
  <2>1. CASE UNCHANGED vars
    BY <2>1 DEF vars, serverVars, clientVars, destVars, Abstract
  <2> QED
    BY <2>1, ServerPublishes, ClientPublishes DEF Next, Publication!Next
<1> QED
  BY <1>1, <1>2, SpecInv, PTL DEF Spec, IsPublication, Publication!Spec
=============================================================================
