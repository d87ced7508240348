----------------------------- MODULE ReportService -----------------------------
(***************************************************************************)
(* report-service: RequestReport stores a job and publishes                *)
(* report.requested on the channel of its pod; a consumer of the same pods *)
(* generates the report, stores it in MinIO and marks the job ready. The   *)
(* scheduler publishes report.requested too, without a job.                *)
(***************************************************************************)
EXTENDS WorkQueue

CONSTANTS
    Job         \* jobs, and the messages that request them

ReportQueue == "report_requested_queue"

ASSUME ReportAssumption ==
    /\ ReportQueue \in Queue
    /\ Job \subseteq Event \ Malformed
    /\ None \notin Pod

VARIABLES
    rows,       \* job -> status of its row in report_jobs, "none" without a row
    urls,       \* jobs whose row has a download URL
    objects,    \* MinIO: jobs whose report is stored
    asking,     \* job -> the pod that stored its row and has to publish, or None
    completed,  \* jobs announced with report.completed
    orphaned    \* history: messages given back while a goroutine went on with them

jobVars == <<rows, urls, objects, asking, completed, orphaned>>
reportVars == <<queueVars, jobVars>>

Status == {"queued", "processing", "ready", "failed"}

ReportInit ==
    /\ QueueInit
    /\ rows = [j \in Job |-> "none"]
    /\ urls = {}
    /\ objects = {}
    /\ asking = [j \in Job |-> None]
    /\ completed = {}
    /\ orphaned = {}
-------------------------------------------------------------------------------
(***************************************************************************)
(* RequestReport                                                           *)
(***************************************************************************)

CreateRow(j) == rows' = [rows EXCEPT ![j] = "queued"]

Request(j, p) ==
    /\ rows[j] = "none"
    /\ CreateRow(j)
    /\ asking' = [asking EXCEPT ![j] = p]
    /\ UNCHANGED <<queueVars, urls, objects, completed, orphaned>>

\* The INSERT commits and its answer is lost: the request ends with an error.
RequestUncertain(j) ==
    /\ rows[j] = "none"
    /\ Fault
    /\ CreateRow(j)
    /\ UNCHANGED <<ready, unacked, settled, dead, channel, at, job>>
    /\ UNCHANGED <<urls, objects, asking, completed, orphaned>>

\* A closed channel refuses the message, and without publisher confirms it may be
\* lost on the way; RequestReport succeeds in any case.
PublishRequested(j) ==
    /\ asking[j] # None
    /\ \/ channel[asking[j]] = "open" /\ Publish(j)
       \/ channel[asking[j]] = "closed" /\ UNCHANGED queueVars
       \/ Fault /\ UNCHANGED <<ready, unacked, settled, dead, channel, at, job>>
    /\ asking' = [asking EXCEPT ![j] = None]
    /\ UNCHANGED <<rows, urls, objects, completed, orphaned>>

\* weekly_report.go, or any other publisher.
PublishOther(e) ==
    /\ e \notin Job
    /\ Publish(e)
    /\ UNCHANGED jobVars
-------------------------------------------------------------------------------
(***************************************************************************)
(* The consumer                                                            *)
(***************************************************************************)

\* UPDATE ... WHERE id = ?: unconditional, and no error when there is no row.
SetStatus(j, status) == rows' = [rows EXCEPT ![j] = IF @ = "none" THEN @ ELSE status]

TakeRequest(c) == Deliver(c) /\ UNCHANGED jobVars

Discard(c) ==
    /\ at[c] = "received"
    /\ job[c] \in Malformed
    /\ Reply(c, "dead")
    /\ UNCHANGED jobVars

MarkProcessing(c) ==
    /\ at[c] = "received"
    /\ job[c] \in Job
    /\ SetStatus(job[c], "processing")
    /\ Goto(c, "upload")
    /\ UNCHANGED <<faults, urls, objects, asking, completed, orphaned>>

\* Mutant: an empty job id is not refused by the database.
MarkProcessingUnchecked(c) ==
    /\ at[c] = "received"
    /\ job[c] \notin Malformed
    /\ \/ job[c] \notin Job /\ Goto(c, "upload") /\ UNCHANGED <<faults, rows>>
       \/ Fault /\ job[c] \in Job /\ Goto(c, "failed") /\ UNCHANGED rows
    /\ UNCHANGED <<urls, objects, asking, completed, orphaned>>

\* Without a job the id is "", which PostgreSQL does not take for a UUID.
MarkProcessingFails(c) ==
    /\ at[c] = "received"
    /\ job[c] \notin Malformed
    /\ Goto(c, "failed")
    /\ \/ job[c] \notin Job /\ UNCHANGED <<faults, rows>>
       \/ Fault /\ job[c] \in Job /\ (SetStatus(job[c], "processing") \/ UNCHANGED rows)
    /\ UNCHANGED <<urls, objects, asking, completed, orphaned>>

\* UploadJSON, and the signing of the download URL.
Upload(c) ==
    /\ at[c] = "upload"
    /\ objects' = objects \cup {job[c]}
    /\ Goto(c, "mark_ready")
    /\ UNCHANGED <<faults, rows, urls, asking, completed, orphaned>>

\* Mutant: the error of the upload is not looked at.
UploadFailsUnnoticed(c) ==
    /\ at[c] = "upload"
    /\ Fault
    /\ objects' = objects \cup {job[c]} \/ UNCHANGED objects
    /\ Goto(c, "mark_ready")
    /\ UNCHANGED <<rows, urls, asking, completed, orphaned>>

UploadFails(c) ==
    /\ at[c] = "upload"
    /\ Fault
    /\ objects' = objects \cup {job[c]} \/ UNCHANGED objects
    /\ Goto(c, "failed")
    /\ UNCHANGED <<rows, urls, asking, completed, orphaned>>

StoreReady(j) == SetStatus(j, "ready") /\ urls' = urls \cup {j}

MarkReady(c) ==
    /\ at[c] = "mark_ready"
    /\ StoreReady(job[c])
    /\ Goto(c, "announce")
    /\ UNCHANGED <<faults, objects, asking, completed, orphaned>>

\* Mutant: an error of the last update is ignored, as that of the announcement is.
MarkReadyFailsUnnoticed(c) ==
    /\ at[c] = "mark_ready"
    /\ Fault
    /\ StoreReady(job[c]) \/ UNCHANGED <<rows, urls>>
    /\ Goto(c, "announce")
    /\ UNCHANGED <<objects, asking, completed, orphaned>>

MarkReadyFails(c) ==
    /\ at[c] = "mark_ready"
    /\ Fault
    /\ StoreReady(job[c]) \/ UNCHANGED <<rows, urls>>
    /\ Goto(c, "failed")
    /\ UNCHANGED <<objects, asking, completed, orphaned>>

\* report.completed; neither the lookup of the job nor Publish can fail generate.
Announce(c) ==
    /\ at[c] = "announce"
    /\ \/ /\ channel[PodOf(c)] = "open"
          /\ completed' = completed \cup {job[c]}
          /\ UNCHANGED faults
       \/ channel[PodOf(c)] = "closed" /\ UNCHANGED <<completed, faults>>
       \/ Fault /\ UNCHANGED completed
    /\ Goto(c, "generated")
    /\ UNCHANGED <<rows, urls, objects, asking, orphaned>>

AcknowledgeRequest(c) ==
    /\ at[c] = "generated"
    /\ Reply(c, "ack")
    /\ UNCHANGED jobVars

\* After its back-off the message goes back; out of retries the job is marked failed.
RejectRequest(c) ==
    LET verdict == FailureVerdict(job[c])
    IN  /\ at[c] = "failed"
        /\ IF verdict = "dead" /\ job[c] \in Job
             THEN SetStatus(job[c], "failed") ELSE UNCHANGED rows
        /\ Reply(c, verdict)
        /\ UNCHANGED <<urls, objects, asking, completed, orphaned>>

Generate(c) ==
    \/ Discard(c) \/ MarkProcessing(c) \/ MarkProcessingFails(c) \/ Upload(c) \/ UploadFails(c)
    \/ MarkReady(c) \/ MarkReadyFails(c) \/ Announce(c) \/ AcknowledgeRequest(c) \/ RejectRequest(c)
-------------------------------------------------------------------------------
(***************************************************************************)
(* Pods and channels                                                       *)
(***************************************************************************)

\* The goroutine finishes the message it has; the broker delivers it to another.
Close(p) ==
    /\ ChannelCloses(p)
    /\ orphaned' = orphaned \cup {job[c] : c \in {d \in Consumer : PodOf(d) = p /\ at[d] # "idle"}}
    /\ UNCHANGED <<rows, urls, objects, asking, completed>>

Restart(p) ==
    /\ PodRestarts(p)
    /\ asking' = [j \in Job |-> IF asking[j] = p THEN None ELSE asking[j]]
    /\ UNCHANGED <<rows, urls, objects, completed, orphaned>>

ReportNext ==
    \/ \E j \in Job : (\E p \in Pod : Request(j, p)) \/ RequestUncertain(j) \/ PublishRequested(j)
    \/ \E e \in Event : PublishOther(e)
    \/ \E c \in Consumer : TakeRequest(c) \/ Generate(c)
    \/ \E p \in Pod : Close(p) \/ Restart(p)

ReportSpec == ReportInit /\ [][ReportNext]_reportVars

\* Without a prefetch limit the broker pushes every message to the buffer of some
\* consumer, which works through it in order: no message is passed over for ever.
ReportFairSpec ==
    /\ ReportSpec
    /\ \A c \in Consumer, e \in Event : SF_reportVars(TakeRequest(c) /\ job'[c] = e)
    /\ \A c \in Consumer : WF_reportVars(Generate(c))
-------------------------------------------------------------------------------
(***************************************************************************)
(* Properties                                                              *)
(***************************************************************************)

\* Every variable has its type.
ReportTypeOK ==
    /\ QueueTypeOK({"upload", "mark_ready", "announce", "generated", "failed"})
    /\ \A c \in Consumer : at[c] \in {"upload", "mark_ready", "announce", "generated"}
           => job[c] \in Job
    /\ rows \in [Job -> Status \cup {"none"}]
    /\ urls \subseteq Job
    /\ objects \subseteq Job
    /\ asking \in [Job -> Pod \cup {None}]
    /\ completed \subseteq Job
    /\ orphaned \subseteq Event

\* The poller of a job and the subscribers of report.completed are never sent to a
\* report that is not in MinIO, whichever call failed, was repeated, or was made by
\* two pods at once.
ReadyReportsExist ==
    \A j \in Job : rows[j] = "ready" \/ j \in urls \/ j \in completed => j \in objects

\* A request that left the queue leaves its job ready, unless its message was given
\* back while a goroutine of a closed channel went on: that one may set the status
\* back to processing after everyone else is done, and stop there.
AckedReportsReady == \A j \in Job \cap settled : j \in orphaned \/ rows[j] = "ready"

\* While one pod keeps its channel, a request that waits in the queue makes its job
\* ready, also next to messages that fail for ever.
EveryReportGenerated ==
    (\E p \in Pod : [](channel[p] = "open")) =>
        \A j \in Job : j \in ready ~> rows[j] = "ready"
===============================================================================
