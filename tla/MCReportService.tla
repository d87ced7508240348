---------------------------- MODULE MCReportService ----------------------------
(* A requested report, the weekly request of the scheduler, which names no     *)
(* job, and a message that is not JSON.                                         *)
EXTENDS ReportService, TLC

MCQueue == {ReportQueue}
MCQueueOf == [e \in Event |-> ReportQueue]
===============================================================================
