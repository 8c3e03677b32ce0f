------------------------------ MODULE ScanJobs ------------------------------
(***************************************************************************)
(* The scan jobs of the discovery service: the rows of scan_jobs and the    *)
(* hosts stored under them (job_manager.py), the background flow that runs  *)
(* each scan (scan_orchestrator.py), the stop and delete handlers           *)
(* (api/v1/scans.py), the retention task (workers/scan_tasks.py), and the   *)
(* managed hosts that refer to a job (host_manager.py).                     *)
(*                                                                          *)
(* Every JobManager call opens its own session and commits, so each call is *)
(* one atomic step on the database and everything may happen between two    *)
(* calls.  An UPDATE of a row that is gone changes nothing.                 *)
(***************************************************************************)
EXTENDS Naturals, FiniteSets

CONSTANTS
    Jobs,           \* job identifiers (uuid4, never reused)
    Clients,        \* activations of the stop and delete handlers
    NoJob,          \* what an idle client works on
    ScanTypes,      \* the scan types that are requested
    Faults          \* which of "scanner", "database" and "crash" may happen

ASSUME ConstantsAssumption ==
    /\ NoJob \notin Jobs
    /\ ScanTypes \subseteq {"python", "fast", "detailed", "hybrid"}
    /\ Faults \subseteq {"scanner", "database", "crash"}

VARIABLES
    status,         \* scan_jobs.status, or "none"/"deleted" when there is no row
    progress,       \* scan_jobs.progress
    scan_type,      \* scan_jobs.scan_type
    hosts,          \* whether discovered_hosts has rows of the job
    managed,        \* the jobs some managed host was discovered by
    old,            \* the ended jobs whose completed_at is past the retention time
    flow,           \* where the background flow of each job is
    found,          \* how many hosts the last scanner of the flow found
    pc, job         \* where each client handler is, and the job it works on

row     == <<status, progress, scan_type, hosts, managed, old>>
flows   == <<flow, found>>
clients == <<pc, job>>
vars    == <<row, flows, clients>>

Terminal  == {"completed", "failed", "cancelled"}
JobStatus == {"pending", "running"} \cup Terminal
Exists(j) == status[j] \in JobStatus

(* "lost": the flow was not started although the row was inserted, ended     *)
(* without its last write, or died with the process.                          *)
FlowPoints == {"none", "created", "launched", "scanning", "phase1", "masscan",
               "phase2", "nmap", "store", "finish", "complete", "cancel", "fail",
               "done", "lost"}

(* "several": too many for nmap's target parser; "many": more than            *)
(* hybrid_max_hosts_for_nmap.                                                 *)
Counts == {"none", "one", "several", "many"}

TypeOK ==
    /\ status \in [Jobs -> JobStatus \cup {"none", "deleted"}]
    /\ progress \in [Jobs -> 0..100]
    /\ scan_type \in [Jobs -> {"python", "fast", "detailed", "hybrid"}]
    /\ hosts \in [Jobs -> BOOLEAN]
    /\ managed \subseteq Jobs
    /\ old \subseteq Jobs
    /\ flow \in [Jobs -> FlowPoints]
    /\ found \in [Jobs -> Counts]
    /\ pc \in [Clients -> {"idle", "stop", "delete", "remove"}]
    /\ job \in [Clients -> Jobs \cup {NoJob}]
    /\ \A c \in Clients : pc[c] # "idle" => job[c] \in Jobs

Init ==
    /\ status = [j \in Jobs |-> "none"]
    /\ progress = [j \in Jobs |-> 0]
    /\ scan_type \in [Jobs -> ScanTypes]
    /\ hosts = [j \in Jobs |-> FALSE]
    /\ managed = {}
    /\ old = {}
    /\ flow = [j \in Jobs |-> "none"]
    /\ found = [j \in Jobs |-> "none"]
    /\ pc = [c \in Clients |-> "idle"]
    /\ job = [c \in Clients |-> NoJob]

-----------------------------------------------------------------------------
(* JobManager: the writes.                                                   *)

(* UPDATE scan_jobs SET status = s WHERE id = j *)
UpdateStatus(j, s) == status' = IF Exists(j) THEN [status EXCEPT ![j] = s] ELSE status

(* Mutant: the progress of a phase is added. *)
UpdateProgressAdds(j, p) ==
    progress' = IF Exists(j) THEN [progress EXCEPT ![j] = @ + p] ELSE progress

UpdateProgress(j, p) ==
    progress' = IF Exists(j) THEN [progress EXCEPT ![j] = p] ELSE progress

(* Mutant: the foreign key of managed_hosts is missing. *)
CanDeleteManaged(js) == js # {} /\ \A j \in js : Exists(j)

(* DELETE FROM scan_jobs: hosts and ports go with their job, and the foreign  *)
(* key of managed_hosts, which has no ON DELETE, refuses the statement.       *)
CanDelete(js) == js # {} /\ js \cap managed = {} /\ \A j \in js : Exists(j)

DeleteRows(js) ==
    /\ CanDelete(js)
    /\ status' = [j \in Jobs |-> IF j \in js THEN "deleted" ELSE status[j]]
    /\ hosts' = [j \in Jobs |-> hosts[j] /\ j \notin js]
    /\ old' = old \ js

(* The flow goes on to p. *)
Goto(j, p) == flow' = [flow EXCEPT ![j] = p]

-----------------------------------------------------------------------------
(* ScanOrchestrator.                                                         *)

(* create_job: the INSERT commits, and the row is read back before the flow  *)
(* is started.                                                               *)
CreateJob(j) ==
    /\ flow[j] = "none"
    /\ status[j] = "none"
    /\ status' = [status EXCEPT ![j] = "pending"]
    /\ Goto(j, "created")
    /\ UNCHANGED <<progress, scan_type, hosts, managed, old, found, clients>>

(* The row is read back (session.refresh) and the flow is started.  If the    *)
(* row is gone that raises, and no flow is started.                          *)
Launch(j) ==
    /\ flow[j] = "created"
    /\ Goto(j, IF Exists(j) THEN "launched" ELSE "lost")
    /\ UNCHANGED <<row, found, clients>>

MarkRunning(j) ==
    /\ flow[j] = "launched"
    /\ UpdateStatus(j, "running")
    /\ Goto(j, IF scan_type[j] = "hybrid" THEN "phase1" ELSE "scanning")
    /\ UNCHANGED <<progress, scan_type, hosts, managed, old, found, clients>>

(* The scanner raises: it is not available, or it broke.                      *)
ScannerFails(j) ==
    /\ "scanner" \in Faults
    /\ flow[j] \in {"scanning", "masscan", "nmap"}
    /\ Goto(j, "fail")
    /\ UNCHANGED <<row, found, clients>>

(* masscan and nmap are killed at their timeout, which they report as a       *)
(* ScanCancelledError; the python scanner has no such timeout.                *)
ScannerTimesOut(j) ==
    /\ "scanner" \in Faults
    /\ flow[j] \in {"scanning", "masscan", "nmap"}
    /\ scan_type[j] # "python"
    /\ Goto(j, "cancel")
    /\ UNCHANGED <<row, found, clients>>

(* _execute_single_scan: one scanner, then the hosts are stored.  The         *)
(* progress callback it passes is a coroutine function that _notify_progress  *)
(* calls without awaiting, so the scanners' reports write nothing.            *)
SingleScanEnds(j) ==
    /\ flow[j] = "scanning"
    /\ \E n \in {"none", "several"} : found' = [found EXCEPT ![j] = n]
    /\ Goto(j, "store")
    /\ UNCHANGED <<row, clients>>

(* Mutant: the second phase starts the first scanner again. *)
PhaseStartsOver(j) ==
    /\ \/ flow[j] = "phase1" /\ UpdateProgress(j, 10)
       \/ flow[j] = "phase2" /\ UpdateProgress(j, 45)
    /\ Goto(j, "masscan")
    /\ UNCHANGED <<status, scan_type, hosts, managed, old, found, clients>>

(* _execute_hybrid_scan: a phase starts with an update of the progress.       *)
PhaseStarts(j) ==
    /\ \/ /\ flow[j] = "phase1"
          /\ UpdateProgress(j, 10)
          /\ Goto(j, "masscan")
       \/ /\ flow[j] = "phase2"
          /\ UpdateProgress(j, 45)
          /\ Goto(j, "nmap")
    /\ UNCHANGED <<status, scan_type, hosts, managed, old, found, clients>>

(* Mutant: the hosts are not stored when nmap is skipped. *)
Phase1EndsUnstored(j) ==
    /\ flow[j] = "masscan"
    /\ \E n \in Counts :
         /\ found' = [found EXCEPT ![j] = n]
         /\ Goto(j, IF n \in {"none", "many"} THEN "finish" ELSE "phase2")
    /\ UNCHANGED <<row, clients>>

(* masscan ends: too many hosts are stored as they are, no host ends the      *)
(* scan, and else nmap looks at the hosts.                                    *)
Phase1Ends(j) ==
    /\ flow[j] = "masscan"
    /\ \E n \in Counts :
         /\ found' = [found EXCEPT ![j] = n]
         /\ Goto(j, CASE n = "none" -> "finish"
                      [] n = "many" -> "store"
                      [] OTHER      -> "phase2")
    /\ UNCHANGED <<row, clients>>

(* nmap ends.  Its targets are joined with commas, which parse_ip_range       *)
(* refuses: with more than one host the scanner raises before it starts.      *)
Phase2Ends(j) ==
    /\ flow[j] = "nmap"
    /\ \/ /\ found[j] = "one"
          /\ \E n \in {"none", "one"} : found' = [found EXCEPT ![j] = n]
          /\ Goto(j, "store")
       \/ /\ found[j] # "one"
          /\ Goto(j, "fail")
          /\ UNCHANGED found
    /\ UNCHANGED <<row, clients>>

(* Mutant: the hosts are stored whether their job exists or not. *)
StoreHostsOrphaned(j) ==
    /\ flow[j] = "store"
    /\ Goto(j, IF scan_type[j] = "hybrid" THEN "finish" ELSE "complete")
    /\ hosts' = [hosts EXCEPT ![j] = found[j] # "none"]
    /\ UNCHANGED <<status, progress, scan_type, managed, old, found, clients>>

(* store_discovered_hosts: a row of discovered_hosts needs its job.           *)
StoreHosts(j) ==
    /\ flow[j] = "store"
    /\ IF found[j] # "none" /\ ~Exists(j)
         THEN /\ Goto(j, "fail")
              /\ UNCHANGED hosts
         ELSE /\ Goto(j, IF scan_type[j] = "hybrid" THEN "finish" ELSE "complete")
              /\ hosts' = [hosts EXCEPT ![j] = found[j] # "none"]
    /\ UNCHANGED <<status, progress, scan_type, managed, old, found, clients>>

(* The last progress update of a hybrid scan. *)
FinishHybrid(j) ==
    /\ flow[j] = "finish"
    /\ UpdateProgress(j, 100)
    /\ Goto(j, "complete")
    /\ UNCHANGED <<status, scan_type, hosts, managed, old, found, clients>>

(* Neither helper returns the hosts it stored, so len(discovered_hosts) after *)
(* this write raises, and the flow goes on to its error branch.               *)
MarkCompleted(j) ==
    /\ flow[j] = "complete"
    /\ UpdateStatus(j, "completed")
    /\ Goto(j, "fail")
    /\ UNCHANGED <<progress, scan_type, hosts, managed, old, found, clients>>

MarkCancelled(j) ==
    /\ flow[j] = "cancel"
    /\ UpdateStatus(j, "cancelled")
    /\ Goto(j, "done")
    /\ UNCHANGED <<progress, scan_type, hosts, managed, old, found, clients>>

(* Mutant: the error is logged and not written. *)
MarkFailedUnwritten(j) ==
    /\ flow[j] = "fail"
    /\ Goto(j, "done")
    /\ UNCHANGED <<row, found, clients>>

MarkFailed(j) ==
    /\ flow[j] = "fail"
    /\ UpdateStatus(j, "failed")
    /\ Goto(j, "done")
    /\ UNCHANGED <<progress, scan_type, hosts, managed, old, found, clients>>

(* A database call raises: inside the try block of the flow it leads to the   *)
(* error branch, and in the handlers of the exceptions it ends the task.      *)
(* When the new row cannot be read back, create_job and execute_scan raise:   *)
(* the INSERT has committed, and no flow is started for the pending row.      *)
DatabaseFails(j) ==
    /\ "database" \in Faults
    /\ \/ /\ flow[j] \in {"launched", "phase1", "phase2", "store", "finish", "complete"}
          /\ Goto(j, "fail")
       \/ /\ flow[j] \in {"created", "cancel", "fail"}
          /\ Goto(j, "lost")
    /\ UNCHANGED <<row, found, clients>>

-----------------------------------------------------------------------------
(* The handlers of api/v1/scans.py and the other writers of the tables.       *)

(* Mutant: a pending job can be stopped too. *)
StopScanPending(c, j) ==
    /\ pc[c] = "idle"
    /\ status[j] \in {"pending", "running"}
    /\ pc' = [pc EXCEPT ![c] = "stop"]
    /\ job' = [job EXCEPT ![c] = j]
    /\ UNCHANGED <<row, flows>>

(* stop_scan: cancel_job reads the status in one session, and refuses to stop *)
(* what is not running, a pending job too ...                                *)
StopScan(c, j) ==
    /\ pc[c] = "idle"
    /\ status[j] = "running"
    /\ pc' = [pc EXCEPT ![c] = "stop"]
    /\ job' = [job EXCEPT ![c] = j]
    /\ UNCHANGED <<row, flows>>

(* ... and writes it in another.  Nothing tells the scanner or the flow.      *)
CancelJob(c) ==
    /\ pc[c] = "stop"
    /\ UpdateStatus(job[c], "cancelled")
    /\ pc' = [pc EXCEPT ![c] = "idle"]
    /\ job' = [job EXCEPT ![c] = NoJob]
    /\ UNCHANGED <<progress, scan_type, hosts, managed, old, flows>>

(* delete_scan: the same two steps of cancel_job, then the row is deleted.    *)
DeleteScan(c, j) ==
    /\ pc[c] = "idle"
    /\ Exists(j)
    /\ pc' = [pc EXCEPT ![c] = IF status[j] = "running" THEN "delete" ELSE "remove"]
    /\ job' = [job EXCEPT ![c] = j]
    /\ UNCHANGED <<row, flows>>

CancelDeleted(c) ==
    /\ pc[c] = "delete"
    /\ UpdateStatus(job[c], "cancelled")
    /\ pc' = [pc EXCEPT ![c] = "remove"]
    /\ UNCHANGED <<progress, scan_type, hosts, managed, old, flows, job>>

(* delete_job: the hosts go with the row; a managed host that refers to the   *)
(* job makes the DELETE fail.                                                 *)
RemoveJob(c) ==
    /\ pc[c] = "remove"
    /\ \/ DeleteRows({job[c]})
       \/ ~CanDelete({job[c]}) /\ UNCHANGED <<status, hosts, old>>
    /\ pc' = [pc EXCEPT ![c] = "idle"]
    /\ job' = [job EXCEPT ![c] = NoJob]
    /\ UNCHANGED <<progress, scan_type, managed, flows>>

(* A database call of a handler raises: it answers 500 and has done no more.  *)
ClientFails(c) ==
    /\ "database" \in Faults
    /\ pc[c] # "idle"
    /\ pc' = [pc EXCEPT ![c] = "idle"]
    /\ job' = [job EXCEPT ![c] = NoJob]
    /\ UNCHANGED <<row, flows>>

(* The retention time of an ended job passes; its flow is long over.          *)
Age(j) ==
    /\ status[j] \in Terminal
    /\ flow[j] \in {"done", "lost"}
    /\ \A c \in Clients : job[c] # j
    /\ old' = old \cup {j}
    /\ UNCHANGED <<status, progress, scan_type, hosts, managed, flows, clients>>

(* cleanup_old_scans, daily: one DELETE for every ended job past the          *)
(* retention time, which fails as a whole if a managed host refers to one.    *)
CleanupOldScans ==
    /\ DeleteRows({j \in old : status[j] \in Terminal})
    /\ UNCHANGED <<progress, scan_type, managed, flows, clients>>

(* HostManager.add_host_from_discovery and delete_host. *)
ManageHost(j) ==
    /\ hosts[j]
    /\ managed' = managed \cup {j}
    /\ UNCHANGED <<status, progress, scan_type, hosts, old, flows, clients>>

ForgetHost(j) ==
    /\ managed' = managed \ {j}
    /\ UNCHANGED <<status, progress, scan_type, hosts, old, flows, clients>>

(* The process restarts: the rows stay, the flows and the handlers are gone,  *)
(* and nothing looks at the rows when the service starts.                     *)
Restart ==
    /\ "crash" \in Faults
    /\ flow' = [j \in Jobs |-> IF flow[j] \in {"none", "done"} THEN flow[j] ELSE "lost"]
    /\ pc' = [c \in Clients |-> "idle"]
    /\ job' = [c \in Clients |-> NoJob]
    /\ UNCHANGED <<row, found>>

FlowStep(j) ==
    \/ Launch(j) \/ MarkRunning(j) \/ SingleScanEnds(j)
    \/ PhaseStarts(j) \/ Phase1Ends(j) \/ Phase2Ends(j)
    \/ ScannerFails(j) \/ ScannerTimesOut(j)
    \/ StoreHosts(j) \/ FinishHybrid(j)
    \/ MarkCompleted(j) \/ MarkCancelled(j) \/ MarkFailed(j)

Next ==
    \/ \E j \in Jobs :
         \/ CreateJob(j) \/ FlowStep(j) \/ DatabaseFails(j)
         \/ ManageHost(j) \/ ForgetHost(j) \/ Age(j)
    \/ \E c \in Clients, j \in Jobs : StopScan(c, j) \/ DeleteScan(c, j)
    \/ \E c \in Clients : CancelJob(c) \/ CancelDeleted(c) \/ RemoveJob(c) \/ ClientFails(c)
    \/ CleanupOldScans
    \/ Restart

(* The event loop resumes every flow whose awaited call has answered, and     *)
(* every scanner ends: masscan and nmap at their timeout, the python scanner  *)
(* because each connection attempt has one.                                   *)
Fairness == \A j \in Jobs : WF_vars(FlowStep(j))

Spec     == Init /\ [][Next]_vars
FairSpec == Spec /\ Fairness
-----------------------------------------------------------------------------
(* What holds. *)

(* A job that has ended never runs or waits again, although the flow writes   *)
(* its status without looking at what stop, delete and cleanup wrote.         *)
EndedStaysEnded ==
    [][\A j \in Jobs : status[j] \in Terminal => status'[j] \in Terminal \cup {"deleted"}]_vars

(* A flow that ran to its end leaves no row behind in pending or running,     *)
(* whichever writes of the clients came between its own.                      *)
FinishedFlowIsTerminal ==
    \A j \in Jobs : flow[j] = "done" /\ Exists(j) => status[j] \in Terminal

(* While a job says completed, all that its scanner found is in the database. *)
CompletedMeansStored ==
    \A j \in Jobs : status[j] = "completed" => (found[j] # "none") = hosts[j]

(* No host outlives its job and no managed host refers to a missing one, even *)
(* when a delete runs while the scan is still going on.                       *)
ReferencesHold ==
    \A j \in Jobs : hosts[j] \/ j \in managed => Exists(j)

(* Every scan ends or is deleted, whatever scanners and clients do and        *)
(* wherever a database call inside the try block fails, unless its flow is    *)
(* lost: never started because the new row could not be read back, broken off *)
(* in the handler of an exception, or dropped by a crash.  A lost flow may    *)
(* leave its row pending or running for ever.                                 *)
ScanSettles ==
    \A j \in Jobs :
        flow[j] = "created" ~> ~Exists(j) \/ status[j] \in Terminal \/ flow[j] = "lost"

(* The table of jobs goes through the lifecycle of ScanLifecycle.             *)
Lifecycle == INSTANCE ScanLifecycle WITH
    phase   <- [j \in Jobs |-> IF status[j] \in Terminal THEN "ended" ELSE status[j]],
    results <- hosts
ImplementsLifecycle == Lifecycle!Spec
=============================================================================
