----------------------- MODULE MCBackgroundTaskQueue -----------------------
(***************************************************************************)
(* Four overlapping calls of QueueBackgroundWorkItem and one worker.       *)
(***************************************************************************)
EXTENDS BackgroundTaskQueue

CONSTANTS p1, p2, p3, p4
=============================================================================
