---------------------------- MODULE BrokerExchange ----------------------------
(***************************************************************************)
(* One connection between the control client and the broker:               *)
(* src/internal/controlclient, src/internal/brokerwire,                    *)
(* src/internal/brokersession, HandleOne of the broker hosts and the       *)
(* Linux response destination.                                             *)
(*                                                                         *)
(* A response is a sequence of parts, written in a fixed order to a        *)
(* reliable first-in first-out connection and numbered from 1:             *)
(*   execution   preamble, report, retained output, one part per artifact, *)
(*               DONE                                                      *)
(*   rejected    preamble, DONE                                            *)
(* so the connection is the number of parts sent and received.  The client *)
(* answers DONE with ACK, the server closes, and the client wants to see   *)
(* the end of the stream before it commits.                                *)
(*                                                                         *)
(* Abstractions.  A part stands for all its frames; a stream that breaks   *)
(* inside a part breaks before it.  The client is genuine: its envelope    *)
(* decodes and the report it gets is bound to its request.  Any operation  *)
(* on the connection, the bundle and the file system may fail.             *)
(***************************************************************************)
EXTENDS Naturals

CONSTANTS
    MaxArtifacts,       \* artifacts a report may list
    Buffer,             \* parts the connection holds
    InterruptsActive    \* host.Close runs beside HandleOne (Windows)

ASSUME ExchangeAssumption ==
    /\ MaxArtifacts \in Nat
    /\ Buffer \in Nat \ {0}
    /\ InterruptsActive \in BOOLEAN

VARIABLES
    server,         \* where the session is
    answer,         \* outcome of the preamble
    manifest,       \* artifacts listed in the report
    bundle,         \* output.ArtifactBundle
    served,         \* what Handle returned
    cancelled,      \* the service context is done
    request, ack,   \* the two messages of the client
    sent, got,      \* parts written and read
    altered,        \* the part whose content is not what the report says, or 0
    lost,           \* unread parts were discarded by a disconnect
    serverClosed, clientClosed,
    client,         \* where the client is
    staged,         \* files of the staging directory
    staging,        \* the staging directory
    committed,      \* destination.artifactsCommitted
    final,          \* the files of the final directory
    result          \* what Exchange returned

serverVars == <<server, answer, manifest, bundle, served>>
wireVars   == <<request, ack, sent, got, altered, lost>>
closeVars  == <<serverClosed, clientClosed>>
destVars   == <<staged, staging, committed, final>>
clientVars == <<client, destVars, result>>
vars == <<serverVars, cancelled, wireVars, closeVars, clientVars>>

Artifact(i) == <<"artifact", i>>
Metadata(j) == <<"metadata", j>>      \* report, stdout, stderr
Files == {Artifact(i) : i \in 1..MaxArtifacts} \cup {Metadata(j) : j \in 1..3}
Contents == [Files -> {"none", "partial", "complete"}]
NoFiles == [f \in Files |-> "none"]

\* The number of parts of the response, DONE included.
Parts == IF answer = "execution" THEN 4 + manifest ELSE 2

ServerSteps == {"idle", "queued", "reading", "admitting", "running", "streaming", "discarding",
                "finishing", "acking", "closing", "ended", "crashed"}
ClientSteps == {"dialing", "requesting", "preamble", "report", "output", "artifacts",
                "filling", "done", "acking", "eof", "committing", "closing",
                "publishing", "published", "failing", "returned", "crashed"}

TypeOK ==
    /\ server \in ServerSteps
    /\ answer \in {"none", "execution", "rejected"}
    /\ manifest \in 0..MaxArtifacts
    /\ bundle \in {"none", "open", "closed"}
    /\ served \in {"none", "ok", "error"}
    /\ cancelled \in BOOLEAN
    /\ request \in {"none", "sent", "read"}
    /\ ack \in {"none", "sent", "read"}
    /\ sent \in 0..(4 + MaxArtifacts)
    /\ got \in 0..sent
    /\ altered \in 0..sent
    /\ lost \in BOOLEAN
    /\ serverClosed \in BOOLEAN /\ clientClosed \in BOOLEAN
    /\ client \in ClientSteps
    /\ staged \in Contents
    /\ staging \in {"present", "removed", "left", "moved"}
    /\ committed \in BOOLEAN
    /\ final \in Contents
    /\ result \in {"none", "published", "failed"}

\* controlresponse.New has created the staging directory.
Init ==
    /\ server = "idle" /\ answer = "none" /\ manifest = 0
    /\ bundle = "none" /\ served = "none" /\ cancelled = FALSE
    /\ request = "none" /\ ack = "none"
    /\ sent = 0 /\ got = 0 /\ altered = 0 /\ lost = FALSE
    /\ serverClosed = FALSE /\ clientClosed = FALSE
    /\ client = "dialing" /\ staged = NoFiles /\ staging = "present"
    /\ committed = FALSE /\ final = NoFiles /\ result = "none"

-----------------------------------------------------------------------------
(***************************************************************************)
(* The server: Session.Handle inside HandleOne.                            *)
(***************************************************************************)
Serve(step) == server' = step /\ UNCHANGED <<cancelled, clientVars, clientClosed>>

\* The deferred Close of HandleOne follows.
HandleReturns(outcome) == Serve("closing") /\ served' = outcome

Reject ==
    /\ Serve("streaming")
    /\ answer' = "rejected"
    /\ UNCHANGED <<manifest, bundle, served, wireVars, serverClosed>>

Accept ==
    /\ server = "queued"
    /\ ~cancelled
    /\ Serve("reading")
    /\ UNCHANGED <<answer, manifest, bundle, served, wireVars, serverClosed>>

\* The listener is closed, perhaps with the connection still in its queue.
CloseListener ==
    /\ server \in {"idle", "queued"}
    /\ cancelled
    /\ Serve("ended")
    /\ serverClosed' = TRUE
    /\ UNCHANGED <<answer, manifest, bundle, served, wireVars>>

ReadRequest ==
    /\ server = "reading"
    /\ request = "sent"
    /\ ~serverClosed
    /\ Serve("admitting")
    /\ request' = "read"
    /\ UNCHANGED <<answer, manifest, bundle, served, ack, sent, got, altered, lost,
                   serverClosed>>

\* The deadline, the end of the stream, or a failed read: invalid_frame.
ReadRequestFails == server = "reading" /\ Reject

\* Not authorized, or cancelled before the run.
Deny == server = "admitting" /\ Reject

StartRun ==
    /\ server = "admitting"
    /\ ~cancelled
    /\ Serve("running")
    /\ UNCHANGED <<answer, manifest, bundle, served, wireVars, serverClosed>>

\* Runner.Run returned an error and no output: execution_unavailable.
RunFails == server = "running" /\ Reject

RunReturns(n) ==
    /\ server = "running"
    /\ Serve("streaming")
    /\ answer' = "execution"
    /\ manifest' = n
    /\ bundle' = IF n = 0 THEN "none" ELSE "open"
    /\ UNCHANGED <<served, wireVars, serverClosed>>

Writable == ~serverClosed /\ ~clientClosed /\ sent - got < Buffer

\* An artifact whose content changed under the open handle is noticed by its
\* digest, after its bytes were sent.
SendPart(changed) ==
    /\ server = "streaming"
    /\ sent + 1 < Parts
    /\ Writable
    /\ changed => answer = "execution" /\ sent \in 3..(2 + manifest)
    /\ sent' = sent + 1
    /\ altered' = IF changed THEN sent + 1 ELSE altered
    /\ Serve(IF changed THEN "discarding" ELSE "streaming")
    /\ UNCHANGED <<answer, manifest, bundle, served, request, ack, got, lost, serverClosed>>

\* Fault: an early return forgets the bundle.
SendFailsLeaks ==
    /\ server = "streaming"
    /\ HandleReturns("error")
    /\ UNCHANGED <<answer, manifest, bundle, wireVars, serverClosed>>

\* The response deadline, a closed peer, a bundle that does not open.
SendFails ==
    /\ server = "streaming"
    /\ Serve("discarding")
    /\ UNCHANGED <<answer, manifest, bundle, served, wireVars, serverClosed>>

\* WriteExecution closes the bundle whatever it returns.
DiscardBundle ==
    /\ server = "discarding"
    /\ HandleReturns("error")
    /\ bundle' = IF bundle = "open" THEN "closed" ELSE bundle
    /\ UNCHANGED <<answer, manifest, wireVars, serverClosed>>

ReleaseBundle ==
    /\ server = "streaming"
    /\ sent + 1 = Parts
    /\ Serve("finishing")
    /\ bundle' = IF bundle = "open" THEN "closed" ELSE bundle
    /\ UNCHANGED <<answer, manifest, served, wireVars, serverClosed>>

\* Fault: the exchange ends with DONE.
SendDoneIsEnough ==
    /\ server = "finishing"
    /\ Writable
    /\ sent' = sent + 1
    /\ HandleReturns("ok")
    /\ UNCHANGED <<answer, manifest, bundle, request, ack, got, altered, lost, serverClosed>>

SendDone ==
    /\ server = "finishing"
    /\ Writable
    /\ sent' = sent + 1
    /\ Serve("acking")
    /\ UNCHANGED <<answer, manifest, bundle, served, request, ack, got, altered, lost,
                   serverClosed>>

ReadAck ==
    /\ server = "acking"
    /\ ack = "sent"
    /\ ~serverClosed
    /\ ack' = "read"
    /\ HandleReturns("ok")
    /\ UNCHANGED <<answer, manifest, bundle, request, sent, got, altered, lost, serverClosed>>

\* A deadline passes, the peer closes, or the connection fails.
FinishFails ==
    /\ server \in {"finishing", "acking"}
    /\ HandleReturns("error")
    /\ UNCHANGED <<answer, manifest, bundle, wireVars, serverClosed>>

\* DisconnectNamedPipe discards what the client has not read; so does a socket
\* closed with the ACK unread.
CloseServer(discards) ==
    /\ serverClosed' = TRUE
    /\ lost' = IF serverClosed THEN lost ELSE discards /\ got < sent
    /\ UNCHANGED <<request, ack, sent, got, altered>>

\* Fault: the connection is closed on the successful path only.
CloseConnectionWhenServed ==
    /\ server = "closing"
    /\ Serve("ended")
    /\ IF served = "ok" THEN \E discards \in BOOLEAN : CloseServer(discards)
                        ELSE UNCHANGED <<serverClosed, wireVars>>
    /\ UNCHANGED <<answer, manifest, bundle, served>>

CloseConnection ==
    /\ server = "closing"
    /\ Serve("ended")
    /\ \E discards \in BOOLEAN : CloseServer(discards)
    /\ UNCHANGED <<answer, manifest, bundle, served>>

ServerStep ==
    \/ Accept \/ CloseListener \/ ReadRequest \/ ReadRequestFails
    \/ Deny \/ StartRun \/ RunFails \/ (\E n \in 0..MaxArtifacts : RunReturns(n))
    \/ (\E changed \in BOOLEAN : SendPart(changed)) \/ SendFails
    \/ DiscardBundle \/ ReleaseBundle \/ SendDone \/ ReadAck \/ FinishFails
    \/ CloseConnection

-----------------------------------------------------------------------------
(***************************************************************************)
(* The service is stopped; on Windows host.Close closes the active         *)
(* connection under the session.  The broker may also die.                 *)
(***************************************************************************)
Cancel ==
    /\ ~cancelled
    /\ cancelled' = TRUE
    /\ UNCHANGED <<serverVars, wireVars, closeVars, clientVars>>

Active == server \notin {"idle", "queued", "ended", "crashed"}

InterruptActive ==
    /\ InterruptsActive
    /\ cancelled
    /\ Active
    /\ ~serverClosed
    /\ \E discards \in BOOLEAN : CloseServer(discards)
    /\ UNCHANGED <<serverVars, cancelled, clientClosed, clientVars>>

BrokerDies ==
    /\ server \notin {"ended", "crashed"}
    /\ Serve("crashed")
    /\ \E discards \in BOOLEAN : CloseServer(discards)
    /\ bundle' = IF bundle = "open" THEN "closed" ELSE bundle
    /\ UNCHANGED <<answer, manifest, served>>

-----------------------------------------------------------------------------
(***************************************************************************)
(* The client: Exchange, ReadResponseExchange and the destination.         *)
(***************************************************************************)
Go(step) == client' = step /\ UNCHANGED <<serverVars, cancelled, serverClosed>>

Keeping == UNCHANGED <<clientClosed, destVars, result>>

Connect ==
    /\ client = "dialing"
    /\ server = "idle"
    /\ client' = "requesting"
    /\ server' = "queued"
    /\ UNCHANGED <<answer, manifest, bundle, served, cancelled, serverClosed, wireVars>>
    /\ Keeping

SendRequest ==
    /\ client = "requesting"
    /\ ~serverClosed
    /\ Go("preamble")
    /\ request' = "sent"
    /\ UNCHANGED <<ack, sent, got, altered, lost>> /\ Keeping

Readable == got < sent /\ ~lost

Receive ==
    /\ Readable
    /\ got' = got + 1
    /\ UNCHANGED <<request, ack, sent, altered, lost>>

ReadPreamble ==
    /\ client = "preamble"
    /\ Receive
    /\ Go(IF answer = "rejected" THEN "done" ELSE "report")
    /\ Keeping

ReadReport == client = "report" /\ Receive /\ Go("output") /\ Keeping

ReadOutput ==
    /\ client = "output"
    /\ Receive
    /\ Go(IF manifest = 0 THEN "done" ELSE "artifacts")
    /\ Keeping

\* The artifact the next part belongs to.
Current == Artifact(got - 2)

OpenArtifact ==
    /\ client = "artifacts"
    /\ Go("filling")
    /\ staged' = [staged EXCEPT ![Current] = "partial"]
    /\ UNCHANGED <<wireVars, clientClosed, staging, committed, final, result>>

FillArtifact ==
    /\ client = "filling"
    /\ Receive
    /\ IF altered = got + 1
       THEN /\ staged' = staged
            /\ Go("failing")
       ELSE /\ staged' = [staged EXCEPT ![Current] = "complete"]
            /\ Go(IF got - 2 = manifest THEN "done" ELSE "artifacts")
    /\ UNCHANGED <<clientClosed, staging, committed, final, result>>

ReadDone == client = "done" /\ Receive /\ Go("acking") /\ Keeping

SendAck ==
    /\ client = "acking"
    /\ ~serverClosed
    /\ Go("eof")
    /\ ack' = "sent"
    /\ UNCHANGED <<request, sent, got, altered, lost>> /\ Keeping

\* Fault: a rejection is taken for an empty response.
ReadEndForgetsRejection ==
    /\ client = "eof"
    /\ serverClosed
    /\ ~Readable
    /\ Go("committing")
    /\ UNCHANGED wireVars /\ Keeping

\* A rejection is an error of Exchange.
ReadEnd ==
    /\ client = "eof"
    /\ serverClosed
    /\ ~Readable
    /\ Go(IF answer = "rejected" THEN "failing" ELSE "committing")
    /\ UNCHANGED wireVars /\ Keeping

Commit ==
    /\ client = "committing"
    /\ Go("closing")
    /\ committed' = (manifest > 0)
    /\ UNCHANGED <<wireVars, clientClosed, staged, staging, final, result>>

CloseTransport ==
    /\ client = "closing"
    /\ Go("publishing")
    /\ clientClosed' = TRUE
    /\ UNCHANGED <<wireVars, destVars, result>>

\* destination.Publish writes the report, stdout and stderr, in this order.
CreateMetadata(j) ==
    /\ client = "publishing"
    /\ staged[Metadata(j)] = "none"
    /\ \A i \in 1..3 : i < j => staged[Metadata(i)] = "complete"
    /\ Go("publishing")
    /\ staged' = [staged EXCEPT ![Metadata(j)] = "partial"]
    /\ UNCHANGED <<wireVars, clientClosed, staging, committed, final, result>>

WriteMetadata(j) ==
    /\ client = "publishing"
    /\ staged[Metadata(j)] = "partial"
    /\ Go("publishing")
    /\ staged' = [staged EXCEPT ![Metadata(j)] = "complete"]
    /\ UNCHANGED <<wireVars, clientClosed, staging, committed, final, result>>

Rename ==
    /\ client = "publishing"
    /\ \A j \in 1..3 : staged[Metadata(j)] = "complete"
    /\ manifest > 0 => committed
    /\ Go("published")
    /\ final' = staged
    /\ staged' = NoFiles
    /\ staging' = "moved"
    /\ UNCHANGED <<wireVars, clientClosed, committed, result>>

Return ==
    /\ client = "published"
    /\ Go("returned")
    /\ result' = "published"
    /\ UNCHANGED <<wireVars, clientClosed, destVars>>

\* Every step before the rename can fail.
Fails ==
    /\ client \notin {"published", "failing", "returned", "crashed"}
    /\ Go("failing")
    /\ UNCHANGED wireVars /\ Keeping

\* The stream ended, or a write finds the connection closed.
StreamEnds ==
    /\ \/ client \in {"dialing", "requesting", "acking"}
       \/ client \in {"preamble", "report", "output", "filling", "done"} /\ ~Readable
    /\ serverClosed
    /\ Go("failing")
    /\ UNCHANGED wireVars /\ Keeping

\* The connection is closed, and Abort removes every file it created, then the
\* directories; what cannot be removed is kept, and the directories with it.
Abort(kept) ==
    /\ client = "failing"
    /\ Go("returned")
    /\ clientClosed' = TRUE
    /\ staged' = [f \in Files |-> IF f \in kept THEN staged[f] ELSE "none"]
    /\ staging' \in IF staged' = NoFiles THEN {"removed", "left"} ELSE {"left"}
    /\ result' = "failed"
    /\ UNCHANGED <<wireVars, committed, final>>

ClientStep ==
    \/ Connect \/ SendRequest \/ ReadPreamble \/ ReadReport \/ ReadOutput
    \/ OpenArtifact \/ FillArtifact \/ ReadDone \/ SendAck \/ ReadEnd
    \/ Commit \/ CloseTransport
    \/ (\E j \in 1..3 : CreateMetadata(j) \/ WriteMetadata(j))
    \/ Rename \/ Return \/ StreamEnds \/ (\E kept \in SUBSET Files : Abort(kept))

\* The client process is killed, or it hangs and keeps the connection.
ClientDies(hangs) ==
    /\ client \notin {"returned", "crashed"}
    /\ Go("crashed")
    /\ clientClosed' = (clientClosed \/ ~hangs)
    /\ UNCHANGED <<wireVars, destVars, result>>

-----------------------------------------------------------------------------
Next ==
    \/ ServerStep \/ Cancel \/ InterruptActive \/ BrokerDies
    \/ ClientStep \/ Fails \/ \E hangs \in BOOLEAN : ClientDies(hangs)

Spec == Init /\ [][Next]_vars

(***************************************************************************)
(* Fairness.  Every operation of the session has a deadline and the run is *)
(* bounded by its timeout, so the server always gets on.  The client reads *)
(* and writes without a deadline: it gets on when it can, unless it died.  *)
(***************************************************************************)
FairSpec == Spec /\ WF_vars(ServerStep) /\ WF_vars(ClientStep)

-----------------------------------------------------------------------------
(***************************************************************************)
(* Properties.                                                             *)
(***************************************************************************)
Response == [f \in Files |->
    IF \/ f[1] = "metadata"
       \/ f[1] = "artifact" /\ f[2] <= manifest
    THEN "complete" ELSE "none"]

\* The final directory appears as a whole: it holds the files of the report,
\* every one complete and with the content the report says, and it appears
\* only for an execution whose stream ended after DONE.
PublishedIsWhole ==
    final # NoFiles =>
        /\ final = Response
        /\ answer = "execution" /\ altered = 0
        /\ got = Parts /\ serverClosed

\* Exchange returns nil exactly when the directory was published; after an
\* error nothing of the response is left but what could not be removed.
VerdictTrue ==
    /\ result = "published" => final = Response /\ staging = "moved"
    /\ result = "failed" =>
          /\ final = NoFiles
          /\ staging = "left" \/ staged = NoFiles

\* When HandleOne has returned, or the broker died, the artifact handles are
\* closed, on every path through WriteExecution and reject.
BundleReleased == server \in {"ended", "crashed"} => bundle # "open"

\* A session that returned nil has delivered every part of its response, and
\* the disconnect that follows discards nothing (docs/adr/0012: the handshake
\* "prevents Windows message-pipe disconnect from discarding an unread response
\* tail").
DeliveredWhenServed == served = "ok" => got = Parts /\ ack = "read" /\ ~lost

\* The two sides never wait for each other with nothing under way: no deadline
\* is needed to end an exchange in which nothing failed.
NoStandoff ==
    ~ /\ server \in {"reading", "acking"} /\ ~serverClosed
      /\ client \in {"preamble", "report", "output", "filling", "done", "eof"}
      /\ ~Readable
      /\ request # "sent" /\ ack # "sent"

\* A client that hangs cannot occupy the broker: the session ends.
ServerEnds == Active ~> ~Active

\* The client has no deadline, yet its exchange ends, for the server's does.
ClientEnds ==
    client \notin {"dialing", "returned", "crashed"} ~> client \in {"returned", "crashed"}

\* Neither side keeps the other: every exchange ends at both ends
\* (the deadlines of HandleOne, the client's read of the end).
ExchangeEnds == ServerEnds /\ ClientEnds

\* The exchange implements what the execute job expects of it.
Publication == INSTANCE ResponsePublication WITH
    final <- IF final = NoFiles THEN "absent" ELSE "whole"
IsPublication == Publication!Spec
=============================================================================
