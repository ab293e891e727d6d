--------------------------- MODULE ArtifactDelivery ---------------------------
(***************************************************************************)
(* The way of an artifact: collected from the working directory, listed in *)
(* the report, streamed out of the bundle (src/internal/brokerwire) and    *)
(* stored in the response directory of the client.  BrokerExchange has the *)
(* connection in detail; here a stream that breaks is a failure of the     *)
(* destination, and the server closes the bundle when its part is over.    *)
(***************************************************************************)
EXTENDS ArtifactCollection, ResponseDirectory

CONSTANTS
    Reserved,       \* group names that Windows does not take for a directory
    EntryOverhead,  \* what the report says of a file beside its path
    MaxReport       \* v1.MaxExecutionReportBytes

deliveryVars == <<collectVars, destinationVars>>

files == artifacts.files
ReportSize == FoldSeq(LAMBDA f, sum : Len(f.path) + EntryOverhead + sum, 0, files)

Storable == platform = "windows" => \A f \in ToSet(files) : f.group \notin Reserved

DeliveryInit == CollectInit /\ DestinationInit

Streams ==
    /\ caller = "returned"
    /\ UNCHANGED <<treeVars, walkVars, pipeVars, expired, caller, artifacts>>

\* MarshalCanonicalExecutionReport, then preamble, report and output.
SendReport ==
    /\ Streams
    /\ ReportSize <= MaxReport
    /\ Proceed("report", IF files = <<>> THEN "publishing" ELSE "begin")
    /\ UNCHANGED <<bundle, stageVars>>

\* "report-encode-failed": the client sees the stream end.
ReportTooLarge ==
    /\ Streams
    /\ ReportSize > MaxReport
    /\ Proceed("report", "failing")
    /\ CloseBundle
    /\ UNCHANGED stageVars

\* writeArtifact reads the bundle, readArtifact fills the file.
Transfer ==
    /\ Streams
    /\ \/ Begin(Storable) \/ EnsureDirectory(files) \/ OpenArtifact(files) \/ CloseArtifact
    /\ bundle = "open"
    /\ UNCHANGED bundle

NamesRefused == Streams /\ BeginRefused(Storable) /\ CloseBundle

Finish == Streams /\ Commit(files) /\ CloseBundle

Store ==
    /\ Streams
    /\ \/ CreateMetadata(files) \/ FillMetadata \/ Publish \/ PublishRefused \/ Abort
    /\ UNCHANGED bundle

Break == Streams /\ DestinationFails /\ CloseBundle

Deliver == SendReport \/ ReportTooLarge \/ NamesRefused \/ Transfer \/ Finish \/ Store

Interfere == Rival /\ caller = "returned" /\ UNCHANGED collectVars

DeliveryNext ==
    \/ CollectStep /\ UNCHANGED destinationVars
    \/ Deliver \/ Break \/ Interfere

DeliverySpec == DeliveryInit /\ [][DeliveryNext]_deliveryVars

\* The context of a collection has a deadline; nothing is assumed of a writer
\* of a named pipe, of other processes or of an operation that fails.
FairDelivery ==
    /\ DeliverySpec
    /\ WF_deliveryVars(WalkStep /\ UNCHANGED destinationVars)
    /\ WF_deliveryVars(HelperStep /\ UNCHANGED destinationVars)
    /\ WF_deliveryVars(CallerStep /\ UNCHANGED destinationVars)
    /\ WF_deliveryVars(Expire /\ UNCHANGED destinationVars)
    /\ WF_deliveryVars(Deliver)

-----------------------------------------------------------------------------
\* The response directory appears with every artifact of the manifest, or not
\* at all (Publish).
PublishedIsWhole == PublishedWhole(files)

\* The response directory is all there, or nothing of it but what cannot be
\* removed (Publish, Abort).
ResponseWhole == PublishedIsWhole /\ AbortLeavesOnlyTheStuck

\* When Collect is back no helper is left; the bundle is open exactly while
\* the response still has files to stream (collectArtifacts, WriteExecution).
BundleAccounted ==
    caller = "returned" =>
        /\ helper # "alive"
        /\ bundle = "open" <=> files # <<>> /\ stream \in {"report", "begin", "files", "filling"}

\* A statement of the documentation that names and sizes of artifacts refute:
\* README, "Disagreements".
\* docs/protocol-v1.md: a command outcome is independent of the collection.
\* A report the runner made can be sent and stored, whatever it lists
\* (WriteExecution, Begin).
OutcomeIndependent == caller = "returned" => ReportSize <= MaxReport /\ Storable

\* A collection ends and its response is published or removed, whatever is in
\* the tree: a named pipe without a writer, and a helper whose receiver has
\* stopped reading, end with the deadline.
DeliveryEnds == <>(stream \in {"published", "aborted"})
=============================================================================
