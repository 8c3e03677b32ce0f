--------------------------- MODULE ScanJobs_proofs --------------------------
(***************************************************************************)
(* Proofs about ScanJobs, for any jobs, clients and faults: the flow of a   *)
(* scan, the handlers and the retention task interleave on the rows and     *)
(* keep them consistent.                                                    *)
(***************************************************************************)
EXTENDS ScanJobs, TLAPS

Early  == {"none", "created", "launched"}
Before == Early \cup {"scanning", "phase1", "masscan", "phase2", "nmap", "store"}

(* What is true of each job: it waits while its flow is early and not while   *)
(* it scans; its hosts are stored before the flow is about to complete it,    *)
(* and only the flow completes it.                                            *)
JobOK(j) ==
    /\ flow[j] = "none" <=> status[j] = "none"
    /\ flow[j] \in {"created", "launched"} => status[j] \in {"pending", "deleted"}
    /\ flow[j] \in Before \ Early => status[j] # "pending"
    /\ flow[j] \in Before => ~hosts[j]
    /\ flow[j] \in {"finish", "complete"} /\ Exists(j) => (found[j] # "none" <=> hosts[j])
    /\ status[j] = "completed" =>
         /\ flow[j] \in {"fail", "done", "lost"}
         /\ found[j] # "none" <=> hosts[j]
    /\ hosts[j] \/ j \in managed => Exists(j)
    /\ flow[j] = "done" /\ Exists(j) => status[j] \in Terminal

(* A client cancels a job that has been running.                              *)
ClientOK(c) == pc[c] \in {"stop", "delete"} => flow[job[c]] \notin Early

IInv == TypeOK /\ (\A j \in Jobs : JobOK(j)) /\ (\A c \in Clients : ClientOK(c))

LEMMA InitIInv == Init => IInv
<1> SUFFICES ASSUME Init
             PROVE  IInv
  OBVIOUS
<1>1. TypeOK
  <2>1. scan_type \in [Jobs -> {"python", "fast", "detailed", "hybrid"}]
    BY ConstantsAssumption DEF Init
  <2>2. QED
    BY <2>1 DEF Init, TypeOK, FlowPoints, Counts
<1>2. ASSUME NEW j \in Jobs
      PROVE  JobOK(j)
  BY DEF Init, JobOK
<1>3. ASSUME NEW c \in Clients
      PROVE  ClientOK(c)
  BY DEF Init, ClientOK
<1>4. QED
  BY <1>1, <1>2, <1>3 DEF IInv

-----------------------------------------------------------------------------
(* The steps of the flow of a job change its place, and at most one column.   *)
LEMMA FlowTypeOK ==
    ASSUME TypeOK, NEW j \in Jobs, CreateJob(j) \/ FlowStep(j) \/ DatabaseFails(j)
    PROVE  TypeOK'
<1> USE DEF TypeOK, FlowPoints, Counts, JobStatus, Terminal, Goto, Exists, clients, row
<1>1. CASE CreateJob(j) \/ Launch(j) \/ MarkRunning(j) \/ DatabaseFails(j)
  BY <1>1 DEF CreateJob, Launch, MarkRunning, DatabaseFails, UpdateStatus
<1>2. CASE ScannerFails(j) \/ ScannerTimesOut(j) \/ SingleScanEnds(j)
  BY <1>2 DEF ScannerFails, ScannerTimesOut, SingleScanEnds
<1>3. CASE PhaseStarts(j) \/ FinishHybrid(j)
  BY <1>3 DEF PhaseStarts, FinishHybrid, UpdateProgress
<1>4. CASE Phase1Ends(j)
  BY <1>4 DEF Phase1Ends
<1>5. CASE Phase2Ends(j)
  BY <1>5 DEF Phase2Ends
<1>6. CASE StoreHosts(j)
  BY <1>6 DEF StoreHosts
<1>7. CASE MarkCompleted(j) \/ MarkCancelled(j) \/ MarkFailed(j)
  BY <1>7 DEF MarkCompleted, MarkCancelled, MarkFailed, UpdateStatus
<1>8. QED
  BY <1>1, <1>2, <1>3, <1>4, <1>5, <1>6, <1>7 DEF FlowStep

LEMMA ClientTypeOK ==
    ASSUME TypeOK, NEW c \in Clients,
           \/ \E j \in Jobs : StopScan(c, j) \/ DeleteScan(c, j)
           \/ CancelJob(c) \/ CancelDeleted(c) \/ RemoveJob(c) \/ ClientFails(c)
    PROVE  TypeOK'
<1> USE DEF TypeOK, JobStatus, Terminal, Exists, row, flows
<1>1. ASSUME NEW j \in Jobs, StopScan(c, j) \/ DeleteScan(c, j)
      PROVE  TypeOK'
  BY <1>1 DEF StopScan, DeleteScan
<1>2. CASE CancelJob(c)
  <2>1. job[c] \in Jobs
    BY <1>2 DEF CancelJob
  <2>2. QED
    BY <1>2, <2>1 DEF CancelJob, UpdateStatus
<1>3. CASE CancelDeleted(c)
  <2>1. job[c] \in Jobs
    BY <1>3 DEF CancelDeleted
  <2>2. QED
    BY <1>3, <2>1 DEF CancelDeleted, UpdateStatus
<1>4. CASE RemoveJob(c)
  <2>1. /\ status' \in [Jobs -> JobStatus \cup {"none", "deleted"}]
        /\ hosts' \in [Jobs -> BOOLEAN]
        /\ old' \subseteq Jobs
    <3>1. CASE DeleteRows({job[c]})
      <4>1. status' = [j \in Jobs |-> IF j \in {job[c]} THEN "deleted" ELSE status[j]]
        BY <3>1 DEF DeleteRows
      <4>2. hosts' = [j \in Jobs |-> hosts[j] /\ j \notin {job[c]}]
        BY <3>1 DEF DeleteRows
      <4>3. old' \subseteq Jobs
        BY <3>1 DEF DeleteRows
      <4>4. hosts' \in [Jobs -> BOOLEAN]
        BY <4>2
      <4>5. QED
        BY <4>1, <4>3, <4>4
    <3>2. CASE UNCHANGED <<status, hosts, old>>
      BY <3>2
    <3>3. QED
      BY <1>4, <3>1, <3>2 DEF RemoveJob
  <2>2. /\ pc' \in [Clients -> {"idle", "stop", "delete", "remove"}]
        /\ job' \in [Clients -> Jobs \cup {NoJob}]
        /\ \A d \in Clients : pc'[d] # "idle" => job'[d] \in Jobs
    BY <1>4 DEF RemoveJob
  <2>3. QED
    BY <1>4, <2>1, <2>2 DEF RemoveJob
<1>5. CASE ClientFails(c)
  BY <1>5 DEF ClientFails
<1>6. QED
  BY <1>1, <1>2, <1>3, <1>4, <1>5

LEMMA NextTypeOK == ASSUME TypeOK, [Next]_vars PROVE TypeOK'
<1>1. CASE \E j \in Jobs : ManageHost(j) \/ ForgetHost(j) \/ Age(j)
  BY <1>1 DEF TypeOK, ManageHost, ForgetHost, Age, flows, clients
<1>2. CASE CleanupOldScans
  BY <1>2 DEF TypeOK, CleanupOldScans, DeleteRows, flows, clients
<1>3. CASE Restart
  BY <1>3 DEF TypeOK, Restart, FlowPoints, row
<1>4. CASE UNCHANGED vars
  BY <1>4 DEF TypeOK, vars, row, flows, clients
<1>5. QED
  BY <1>1, <1>2, <1>3, <1>4, FlowTypeOK, ClientTypeOK DEF Next

-----------------------------------------------------------------------------
(* What JobOK looks at, left alone.                                           *)
Same(j) ==
    /\ status'[j] = status[j] /\ flow'[j] = flow[j]
    /\ hosts'[j] = hosts[j] /\ found'[j] = found[j]
    /\ j \in managed' <=> j \in managed

LEMMA SameJobOK == ASSUME NEW j \in Jobs, JobOK(j), Same(j) PROVE JobOK(j)'
BY DEF JobOK, Same, Exists

FlowAction(j) == CreateJob(j) \/ FlowStep(j) \/ DatabaseFails(j)

(* The flow of a job does not touch another job.                              *)
LEMMA FlowLeavesOthers ==
    ASSUME TypeOK, NEW j \in Jobs, NEW k \in Jobs, k # j, FlowAction(j)
    PROVE  Same(k)
<1> USE DEF TypeOK, Same, Goto, row, clients
<1>1. CASE CreateJob(j) \/ Launch(j) \/ MarkRunning(j) \/ DatabaseFails(j)
  BY <1>1 DEF CreateJob, Launch, MarkRunning, DatabaseFails, UpdateStatus
<1>2. CASE ScannerFails(j) \/ ScannerTimesOut(j) \/ SingleScanEnds(j)
  BY <1>2 DEF ScannerFails, ScannerTimesOut, SingleScanEnds
<1>3. CASE PhaseStarts(j) \/ FinishHybrid(j) \/ StoreHosts(j)
  BY <1>3 DEF PhaseStarts, FinishHybrid, StoreHosts
<1>4. CASE Phase1Ends(j) \/ Phase2Ends(j)
  BY <1>4 DEF Phase1Ends, Phase2Ends
<1>5. CASE MarkCompleted(j) \/ MarkCancelled(j) \/ MarkFailed(j)
  BY <1>5 DEF MarkCompleted, MarkCancelled, MarkFailed, UpdateStatus
<1>6. QED
  BY <1>1, <1>2, <1>3, <1>4, <1>5 DEF FlowAction, FlowStep

(* The flow keeps its own job in order, and does not get early again.         *)
LEMMA FlowKeepsJobOK ==
    ASSUME TypeOK, NEW j \in Jobs, JobOK(j), FlowAction(j)
    PROVE  JobOK(j)' /\ (flow[j] \notin Early => flow'[j] \notin Early)
<1> USE DEF TypeOK, JobOK, Exists, JobStatus, Terminal, Early, Before, Goto, row, clients
<1>1. CASE CreateJob(j)
  BY <1>1 DEF CreateJob
<1>2. CASE Launch(j) \/ DatabaseFails(j)
  BY <1>2 DEF Launch, DatabaseFails
<1>3. CASE MarkRunning(j)
  BY <1>3 DEF MarkRunning, UpdateStatus
<1>4. CASE ScannerFails(j) \/ ScannerTimesOut(j)
  BY <1>4 DEF ScannerFails, ScannerTimesOut
<1>5. CASE SingleScanEnds(j) \/ PhaseStarts(j) \/ FinishHybrid(j)
  BY <1>5 DEF SingleScanEnds, PhaseStarts, FinishHybrid
<1>6. CASE Phase1Ends(j)
  BY <1>6 DEF Phase1Ends
<1>7. CASE Phase2Ends(j)
  BY <1>7 DEF Phase2Ends
<1>8. CASE StoreHosts(j)
  <2>1. CASE found[j] # "none" /\ ~Exists(j)
    BY <1>8, <2>1 DEF StoreHosts
  <2>2. CASE ~(found[j] # "none" /\ ~Exists(j))
    <3>1. /\ flow[j] = "store" /\ flow'[j] \in {"finish", "complete"}
          /\ hosts'[j] = (found[j] # "none")
          /\ UNCHANGED <<status, managed, found>>
      BY <1>8, <2>2 DEF StoreHosts
    <3>2. QED
      BY <2>2, <3>1
  <2>3. QED
    BY <2>1, <2>2
<1>9. CASE MarkCompleted(j)
  BY <1>9 DEF MarkCompleted, UpdateStatus
<1>10. CASE MarkCancelled(j) \/ MarkFailed(j)
  BY <1>10 DEF MarkCancelled, MarkFailed, UpdateStatus
<1>11. QED
  BY <1>1, <1>2, <1>3, <1>4, <1>5, <1>6, <1>7, <1>8, <1>9, <1>10 DEF FlowAction, FlowStep

(* An UPDATE to cancelled of a job that has been running.                     *)
LEMMA CancelKeepsJobOK ==
    ASSUME TypeOK, NEW k \in Jobs, flow[k] \notin Early, UpdateStatus(k, "cancelled"),
           UNCHANGED <<flow, hosts, found, managed>>, NEW j \in Jobs, JobOK(j)
    PROVE  JobOK(j)'
BY DEF TypeOK, JobOK, Exists, JobStatus, Terminal, Early, UpdateStatus

(* A DELETE.                                                                  *)
LEMMA DeleteKeepsJobOK ==
    ASSUME TypeOK, NEW js \in SUBSET Jobs, DeleteRows(js),
           UNCHANGED <<flow, found, managed>>, NEW j \in Jobs, JobOK(j)
    PROVE  JobOK(j)'
<1>1. CASE j \in js
  <2>1. status'[j] = "deleted" /\ hosts'[j] = FALSE /\ j \notin managed /\ Exists(j)
    BY <1>1 DEF DeleteRows, CanDelete
  <2>2. QED
    BY <2>1 DEF JobOK, Exists, JobStatus, Terminal
<1>2. CASE j \notin js
  BY <1>2, SameJobOK DEF DeleteRows, Same, TypeOK
<1>3. QED
  BY <1>1, <1>2

LEMMA NextJobOK ==
    ASSUME IInv, [Next]_vars, NEW j \in Jobs
    PROVE  JobOK(j)'
<1> USE DEF IInv
<1>1. ASSUME NEW k \in Jobs, FlowAction(k)
      PROVE  JobOK(j)'
  BY <1>1, FlowLeavesOthers, FlowKeepsJobOK, SameJobOK
<1>2. ASSUME NEW c \in Clients, CancelJob(c) \/ CancelDeleted(c)
      PROVE  JobOK(j)'
  <2>1. /\ job[c] \in Jobs /\ flow[job[c]] \notin Early /\ UpdateStatus(job[c], "cancelled")
        /\ UNCHANGED <<flow, hosts, found, managed>>
    BY <1>2 DEF CancelJob, CancelDeleted, ClientOK, TypeOK, flows
  <2>2. QED
    BY <2>1, CancelKeepsJobOK
<1>3. ASSUME NEW c \in Clients, RemoveJob(c)
      PROVE  JobOK(j)'
  <2>1. CASE DeleteRows({job[c]})
    <3>1. job[c] \in Jobs
      BY <1>3 DEF RemoveJob, TypeOK
    <3>2. QED
      BY <1>3, <2>1, <3>1, DeleteKeepsJobOK DEF RemoveJob, flows
  <2>2. CASE ~DeleteRows({job[c]})
    BY <1>3, <2>2, SameJobOK DEF RemoveJob, Same, flows
  <2>3. QED
    BY <2>1, <2>2
<1>4. CASE CleanupOldScans
  <2>1. PICK js \in SUBSET Jobs : DeleteRows(js)
    BY <1>4 DEF CleanupOldScans, TypeOK
  <2>2. QED
    BY <1>4, <2>1, DeleteKeepsJobOK DEF CleanupOldScans, flows
<1>5. ASSUME NEW k \in Jobs, ManageHost(k) \/ ForgetHost(k)
      PROVE  JobOK(j)'
  BY <1>5 DEF ManageHost, ForgetHost, JobOK, Exists, flows
<1>6. CASE Restart
  BY <1>6 DEF Restart, JobOK, Exists, row, TypeOK, Early, Before
<1>7. ASSUME \/ \E k \in Jobs : Age(k)
             \/ \E c \in Clients, k \in Jobs : StopScan(c, k) \/ DeleteScan(c, k)
             \/ \E c \in Clients : ClientFails(c)
             \/ UNCHANGED vars
      PROVE  JobOK(j)'
  BY <1>7, SameJobOK DEF Age, StopScan, DeleteScan, ClientFails, Same, vars, row, flows
<1>8. QED
  BY <1>1, <1>2, <1>3, <1>4, <1>5, <1>6, <1>7 DEF Next, FlowAction

(* A flow that is no longer early stays so.                                   *)
LEMMA NeverEarlyAgain ==
    ASSUME IInv, [Next]_vars, NEW j \in Jobs, flow[j] \notin Early
    PROVE  flow'[j] \notin Early
<1> USE DEF IInv
<1>1. ASSUME NEW k \in Jobs, FlowAction(k)
      PROVE  flow'[j] \notin Early
  BY <1>1, FlowLeavesOthers, FlowKeepsJobOK DEF Same
<1>2. CASE Restart
  BY <1>2 DEF Restart, Early, TypeOK
<1>3. CASE UNCHANGED flow
  BY <1>3
<1>4. QED
  BY <1>1, <1>2, <1>3 DEF Next, FlowAction, ManageHost, ForgetHost, Age, StopScan, DeleteScan,
     CancelJob, CancelDeleted, RemoveJob, ClientFails, CleanupOldScans, vars, flows

LEMMA NextClientOK ==
    ASSUME IInv, [Next]_vars, NEW c \in Clients
    PROVE  ClientOK(c)'
<1> SUFFICES ASSUME pc'[c] \in {"stop", "delete"}
             PROVE  flow'[job'[c]] \notin Early
  BY DEF ClientOK
<1> USE DEF IInv, TypeOK
<1>1. CASE pc[c] \in {"stop", "delete"} /\ job'[c] = job[c]
  BY <1>1, NeverEarlyAgain DEF ClientOK
<1>2. ASSUME NEW j \in Jobs, status[j] = "running", job'[c] = j
      PROVE  flow'[job'[c]] \notin Early
  <2>1. flow[j] \notin Early
    BY <1>2 DEF JobOK, Early
  <2>2. QED
    BY <1>2, <2>1, NeverEarlyAgain
<1>3. \/ pc[c] \in {"stop", "delete"} /\ job'[c] = job[c]
      \/ \E j \in Jobs : status[j] = "running" /\ job'[c] = j
  <2>1. ASSUME NEW d \in Clients, NEW j \in Jobs, StopScan(d, j) \/ DeleteScan(d, j)
        PROVE  \/ pc'[c] = pc[c] /\ job'[c] = job[c]
               \/ status[j] = "running" /\ job'[c] = j
    BY <2>1 DEF StopScan, DeleteScan
  <2>2. ASSUME NEW d \in Clients,
               CancelJob(d) \/ CancelDeleted(d) \/ RemoveJob(d) \/ ClientFails(d)
        PROVE  pc'[c] = pc[c] /\ job'[c] = job[c]
    BY <2>2 DEF CancelJob, CancelDeleted, RemoveJob, ClientFails
  <2>3. CASE Restart
    BY <2>3 DEF Restart
  <2>4. CASE UNCHANGED <<pc, job>>
    BY <2>4
  <2>5. ASSUME NEW j \in Jobs, FlowAction(j)
        PROVE  UNCHANGED <<pc, job>>
    BY <2>5 DEF FlowAction, CreateJob, FlowStep, DatabaseFails, Launch, MarkRunning,
       SingleScanEnds, PhaseStarts, Phase1Ends, Phase2Ends, ScannerFails, ScannerTimesOut,
       StoreHosts, FinishHybrid, MarkCompleted, MarkCancelled, MarkFailed, clients
  <2>6. QED
    BY <2>1, <2>2, <2>3, <2>4, <2>5 DEF Next, FlowAction, ManageHost, ForgetHost, Age,
       CleanupOldScans, vars, clients
<1>4. QED
  BY <1>1, <1>2, <1>3

LEMMA InvariantIInv == Spec => []IInv
<1>1. IInv /\ [Next]_vars => IInv'
  BY NextTypeOK, NextJobOK, NextClientOK DEF IInv
<1>2. QED
  BY InitIInv, <1>1, PTL DEF Spec

-----------------------------------------------------------------------------
(* Every reachable state has the declared types.                              *)
THEOREM TypeCorrect == Spec => []TypeOK
<1>1. IInv => TypeOK
  BY DEF IInv
<1>2. QED
  BY InvariantIInv, <1>1, PTL

(* No host and no managed host refers to a row that is gone.                  *)
THEOREM ReferencesAreKept == Spec => []ReferencesHold
<1>1. IInv => ReferencesHold
  BY DEF IInv, JobOK, ReferencesHold
<1>2. QED
  BY InvariantIInv, <1>1, PTL

(* A flow that ran to its end leaves no row pending or running.               *)
THEOREM FlowsEndTheirJobs == Spec => []FinishedFlowIsTerminal
<1>1. IInv => FinishedFlowIsTerminal
  BY DEF IInv, JobOK, FinishedFlowIsTerminal
<1>2. QED
  BY InvariantIInv, <1>1, PTL

(* A job says completed only when what was found is stored.                   *)
THEOREM CompletedIsStored == Spec => []CompletedMeansStored
<1>1. IInv => CompletedMeansStored
  BY DEF IInv, TypeOK, JobOK, CompletedMeansStored
<1>2. QED
  BY InvariantIInv, <1>1, PTL

(* Neither the flow nor a client brings an ended job back.                    *)
THEOREM EndedIsFinal == Spec => EndedStaysEnded
<1>1. ASSUME IInv, [Next]_vars, NEW j \in Jobs, status[j] \in Terminal
      PROVE  status'[j] \in Terminal \cup {"deleted"}
  <2> USE <1>1 DEF IInv, TypeOK, Terminal
  <2>1. ASSUME NEW k \in Jobs, FlowAction(k), k # j
        PROVE  status'[j] \in Terminal \cup {"deleted"}
    BY <2>1, FlowLeavesOthers DEF Same
  <2>2. CASE FlowAction(j)
    <3>1. flow[j] \notin Early
      BY DEF JobOK, Early
    <3>2. ~CreateJob(j) /\ ~MarkRunning(j)
      BY <3>1 DEF CreateJob, MarkRunning, Early
    <3>3. QED
      BY <2>2, <3>2 DEF FlowAction, FlowStep, DatabaseFails, Launch, SingleScanEnds, PhaseStarts,
         Phase1Ends, Phase2Ends, ScannerFails, ScannerTimesOut, StoreHosts, FinishHybrid,
         MarkCompleted, MarkCancelled, MarkFailed, UpdateStatus, row
  <2>3. ASSUME NEW c \in Clients, CancelJob(c) \/ CancelDeleted(c) \/ RemoveJob(c)
        PROVE  status'[j] \in Terminal \cup {"deleted"}
    BY <2>3 DEF CancelJob, CancelDeleted, RemoveJob, UpdateStatus, DeleteRows
  <2>4. CASE CleanupOldScans
    BY <2>4 DEF CleanupOldScans, DeleteRows
  <2>5. CASE UNCHANGED status
    BY <2>5
  <2>6. QED
    BY <2>1, <2>2, <2>3, <2>4, <2>5 DEF Next, FlowAction, ManageHost, ForgetHost, Age, StopScan,
       DeleteScan, ClientFails, Restart, vars, row
<1>2. IInv /\ [Next]_vars =>
        [\A j \in Jobs : status[j] \in Terminal => status'[j] \in Terminal \cup {"deleted"}]_vars
  BY <1>1
<1>3. QED
  BY InvariantIInv, <1>2, PTL DEF Spec, EndedStaysEnded

-----------------------------------------------------------------------------
(* Refinement: every step of the table is a step of ScanLifecycle.            *)
phase == [j \in Jobs |-> IF status[j] \in Terminal THEN "ended" ELSE status[j]]

(* A write of a terminal status ends the job, or changes nothing to see.      *)
LEMMA EndRefines ==
    ASSUME TypeOK, NEW j \in Jobs, JobOK(j), NEW s \in Terminal,
           UpdateStatus(j, s), UNCHANGED hosts
    PROVE  [Lifecycle!Next]_(Lifecycle!vars)
<1> USE DEF TypeOK, JobStatus, Terminal, Exists
<1>1. CASE status[j] \in {"pending", "running"}
  <2>1. phase' = [phase EXCEPT ![j] = "ended"] /\ phase[j] = status[j]
    BY <1>1 DEF phase, UpdateStatus
  <2>2. Lifecycle!End(j)
    BY <1>1, <2>1 DEF Lifecycle!End, Lifecycle!Move, phase
  <2>3. QED
    BY <2>2 DEF Lifecycle!Next
<1>2. CASE status[j] \notin {"pending", "running"}
  <2>1. phase' = phase
    BY <1>2 DEF phase, UpdateStatus
  <2>2. QED
    BY <2>1 DEF Lifecycle!vars, phase
<1>3. QED
  BY <1>1, <1>2

LEMMA DeleteRefines ==
    ASSUME TypeOK, NEW js \in SUBSET Jobs, DeleteRows(js)
    PROVE  [Lifecycle!Next]_(Lifecycle!vars)
<1>1. \A j \in js : phase[j] \in {"pending", "running", "ended"}
  BY DEF DeleteRows, CanDelete, Exists, JobStatus, Terminal, phase
<1>2. phase' = [j \in Jobs |-> IF j \in js THEN "deleted" ELSE phase[j]]
  BY DEF DeleteRows, phase, Terminal
<1>3. hosts' = [j \in Jobs |-> hosts[j] /\ j \notin js]
  BY DEF DeleteRows
<1>4. Lifecycle!Delete(js)
  BY <1>1, <1>2, <1>3 DEF Lifecycle!Delete, phase
<1>5. QED
  BY <1>4 DEF Lifecycle!Next

LEMMA FlowRefines ==
    ASSUME TypeOK, NEW j \in Jobs, JobOK(j), FlowAction(j)
    PROVE  [Lifecycle!Next]_(Lifecycle!vars)
<1> USE DEF TypeOK, Goto
<1>1. CASE CreateJob(j)
  <2>1. phase[j] = "none" /\ phase' = [phase EXCEPT ![j] = "pending"]
    BY <1>1 DEF CreateJob, phase, Terminal
  <2>2. Lifecycle!Create(j)
    BY <1>1, <2>1 DEF CreateJob, Lifecycle!Create, Lifecycle!Move, phase
  <2>3. QED
    BY <2>2 DEF Lifecycle!Next
<1>2. CASE MarkRunning(j) /\ Exists(j)
  <2>1. status[j] = "pending"
    BY <1>2 DEF MarkRunning, JobOK, Exists, JobStatus, Terminal
  <2>2. phase[j] = "pending" /\ phase' = [phase EXCEPT ![j] = "running"]
    BY <1>2, <2>1 DEF MarkRunning, UpdateStatus, phase, Terminal
  <2>3. Lifecycle!Run(j)
    BY <1>2, <2>2 DEF MarkRunning, Lifecycle!Run, Lifecycle!Move, phase
  <2>4. QED
    BY <2>3 DEF Lifecycle!Next
<1>3. CASE MarkCompleted(j) \/ MarkCancelled(j) \/ MarkFailed(j)
  BY <1>3, EndRefines DEF MarkCompleted, MarkCancelled, MarkFailed, Terminal
<1>4. CASE StoreHosts(j) /\ found[j] # "none" /\ Exists(j)
  <2>1. status[j] \in {"running"} \cup Terminal
    BY <1>4 DEF StoreHosts, JobOK, Exists, JobStatus, Before, Early
  <2>2. phase[j] \in {"running", "ended"} /\ phase' = phase
    BY <1>4, <2>1 DEF phase, StoreHosts
  <2>3. Lifecycle!Publish(j)
    BY <1>4, <2>2 DEF StoreHosts, Lifecycle!Publish, phase
  <2>4. QED
    BY <2>3 DEF Lifecycle!Next
<1>5. CASE StoreHosts(j) /\ ~(found[j] # "none" /\ Exists(j))
  <2>1. hosts[j] = FALSE
    BY <1>5 DEF StoreHosts, JobOK, Before
  <2>2. UNCHANGED <<status, hosts>>
    BY <1>5, <2>1 DEF StoreHosts
  <2>3. QED
    BY <2>2 DEF Lifecycle!vars
<1>6. CASE UNCHANGED <<status, hosts>>
  BY <1>6 DEF Lifecycle!vars
<1>7. QED
  BY <1>1, <1>2, <1>3, <1>4, <1>5, <1>6 DEF FlowAction, FlowStep, DatabaseFails, Launch,
     MarkRunning, UpdateStatus, SingleScanEnds, PhaseStarts, Phase1Ends, Phase2Ends,
     ScannerFails, ScannerTimesOut, FinishHybrid, row

LEMMA NextRefines == ASSUME IInv, [Next]_vars PROVE [Lifecycle!Next]_(Lifecycle!vars)
<1> USE DEF IInv
<1>1. ASSUME NEW j \in Jobs, FlowAction(j)
      PROVE  [Lifecycle!Next]_(Lifecycle!vars)
  BY <1>1, FlowRefines
<1>2. ASSUME NEW c \in Clients, CancelJob(c) \/ CancelDeleted(c)
      PROVE  [Lifecycle!Next]_(Lifecycle!vars)
  <2>1. job[c] \in Jobs /\ UpdateStatus(job[c], "cancelled") /\ UNCHANGED hosts
    BY <1>2 DEF CancelJob, CancelDeleted, TypeOK
  <2>2. QED
    BY <2>1, EndRefines DEF Terminal
<1>3. ASSUME NEW c \in Clients, RemoveJob(c)
      PROVE  [Lifecycle!Next]_(Lifecycle!vars)
  <2>1. job[c] \in Jobs
    BY <1>3 DEF RemoveJob, TypeOK
  <2>2. CASE DeleteRows({job[c]})
    BY <2>1, <2>2, DeleteRefines
  <2>3. CASE UNCHANGED <<status, hosts, old>>
    BY <2>3 DEF Lifecycle!vars
  <2>4. QED
    BY <1>3, <2>2, <2>3 DEF RemoveJob
<1>4. CASE CleanupOldScans
  BY <1>4, DeleteRefines DEF CleanupOldScans, TypeOK
<1>5. CASE UNCHANGED <<status, hosts>>
  BY <1>5 DEF Lifecycle!vars
<1>6. QED
  BY <1>1, <1>2, <1>3, <1>4, <1>5 DEF Next, FlowAction, ManageHost, ForgetHost, Age, StopScan,
     DeleteScan, ClientFails, Restart, vars, row

(* The table implements the lifecycle: jobs wait, run and end once and in     *)
(* order, results only appear on a job that runs or has ended, and a DELETE   *)
(* takes the results with it.                                                 *)
THEOREM TableImplementsLifecycle == Spec => ImplementsLifecycle
<1>1. Init => Lifecycle!Init
  BY DEF Init, Lifecycle!Init, Terminal
<1>2. QED
  BY <1>1, NextRefines, InvariantIInv, PTL DEF Spec, ImplementsLifecycle, Lifecycle!Spec
=============================================================================
