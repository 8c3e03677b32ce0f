----------------------- MODULE ApprovalWorkflow_proofs ----------------------
(***************************************************************************)
(* Proofs about ApprovalWorkflow, for any approvals, handlers and set of    *)
(* operations: what racing handlers store never reopens an approval, and    *)
(* only a handler that was under way before can overwrite a decision.       *)
(***************************************************************************)
EXTENDS ApprovalWorkflow, TLAPS

(* What the handlers carry: nothing before the approval was created, and a    *)
(* decision when they are about to write.                                     *)
HandlersOK ==
    \A h \in Handlers : pc[h] # "idle" =>
        /\ clock[request[h].approval] # "none"
        /\ pc[h] = "write" => verdict[h] # "PENDING"

(* Before it is created an approval is not there and nobody has answered.     *)
FreshOK ==
    \A a \in Approvals : clock[a] = "none" =>
        status[a] = "absent" /\ answered[a] = {}

IInv == TypeOK /\ HandlersOK /\ FreshOK /\ AnsweredLeavesPending

LEMMA InitIInv == Init => IInv
BY ConstantsAssumption DEF Init, IInv, TypeOK, HandlersOK, FreshOK, AnsweredLeavesPending,
     ApprovalStatus, Idle, Calls

(* A decision is a status, and never that of a pending approval.              *)
LEMMA DecisionProperties ==
    ASSUME NEW h \in Handlers
    PROVE  Decision(h) \in ApprovalStatus \ {"PENDING"}
BY DEF Decision, ApprovalStatus

(* A step is one of a handler, or the handlers stay where they are. *)
LEMMA StepOfHandlers ==
    ASSUME [Next]_vars
    PROVE  \/ \E h \in Handlers, op \in Operations, a \in Approvals : Get(h, op, a)
           \/ \E h \in Handlers : Decide(h) \/ Write(h) \/ HandlerFails(h)
           \/ UNCHANGED handlers
<1>1. ASSUME NEW a \in Approvals, Create(a) \/ Tick(a) \/ KeyExpires(a)
      PROVE  UNCHANGED handlers
  BY <1>1 DEF Create, Tick, KeyExpires
<1>2. CASE UNCHANGED vars
  BY <1>2 DEF vars
<1>3. QED
  BY <1>1, <1>2 DEF Next

LEMMA NextTypeOK == ASSUME TypeOK, HandlersOK, [Next]_vars PROVE TypeOK'
<1> USE DEF TypeOK
<1>0. "PENDING" \in ApprovalStatus
  BY DEF ApprovalStatus
<1>1. ASSUME NEW a \in Approvals, Create(a) \/ Tick(a) \/ KeyExpires(a)
      PROVE  TypeOK'
  BY <1>1 DEF Create, Tick, KeyExpires, ApprovalStatus, handlers
<1>2. ASSUME NEW h \in Handlers, NEW op \in Operations, NEW a \in Approvals, Get(h, op, a)
      PROVE  TypeOK'
  <2>1. [op |-> op, approval |-> a] \in Calls
    BY DEF Calls
  <2>2. status[a] \in ApprovalStatus
    BY <1>2 DEF Get
  <2>3. QED
    BY <1>2, <2>1, <2>2 DEF Get
<1>3. ASSUME NEW h \in Handlers, NEW value \in ApprovalStatus, pc[h] # "idle", Answer(h, value)
      PROVE  /\ pc' \in [Handlers -> {"idle", "decide", "write"}]
             /\ request' \in [Handlers -> Calls \cup {Idle}]
             /\ \A g \in Handlers : pc'[g] # "idle" => request'[g] \in Calls
             /\ verdict' \in [Handlers -> ApprovalStatus]
             /\ answered' \in [Approvals -> SUBSET ApprovalStatus]
  <2>1. request[h].approval \in Approvals
    BY <1>3 DEF Calls
  <2>2. QED
    BY <1>3, <1>0, <2>1 DEF Answer
<1>4. ASSUME NEW h \in Handlers, Decide(h)
      PROVE  TypeOK'
  <2>1. Decision(h) \in ApprovalStatus
    BY DecisionProperties
  <2>2. CASE Answer(h, Decision(h))
    BY <1>4, <2>1, <2>2, <1>3 DEF Decide
  <2>3. CASE Writes(h) /\ ~Answer(h, Decision(h))
    BY <1>4, <2>1, <2>3 DEF Decide
  <2>4. QED
    BY <1>4, <2>2, <2>3 DEF Decide
<1>5. ASSUME NEW h \in Handlers, Write(h)
      PROVE  TypeOK'
  <2>1. verdict[h] \in ApprovalStatus /\ request[h].approval \in Approvals
    BY <1>5 DEF Write, Calls
  <2>2. QED
    BY <1>5, <2>1, <1>3 DEF Write
<1>6. ASSUME NEW h \in Handlers, HandlerFails(h)
      PROVE  TypeOK'
  BY <1>6, <1>0 DEF HandlerFails
<1>7. CASE UNCHANGED vars
  BY <1>7 DEF vars, handlers
<1>8. QED
  BY <1>1, <1>2, <1>4, <1>5, <1>6, <1>7 DEF Next

(* What a step does to the key of one approval: nothing, creation, removal,   *)
(* or the write of a decision.                                                *)
LEMMA StepOfKey ==
    ASSUME TypeOK, [Next]_vars, NEW a \in Approvals
    PROVE  \/ status'[a] = status[a]
           \/ Create(a) /\ status'[a] = "PENDING"
           \/ status'[a] = "absent"
           \/ \E h \in Handlers :
                Write(h) /\ request[h].approval = a /\ status'[a] = verdict[h]
<1> USE DEF TypeOK
<1>1. ASSUME NEW b \in Approvals, Create(b) \/ Tick(b) \/ KeyExpires(b)
      PROVE  \/ status'[a] = status[a]
             \/ Create(a) /\ status'[a] = "PENDING"
             \/ status'[a] = "absent"
  BY <1>1 DEF Create, Tick, KeyExpires
<1>2. ASSUME NEW h \in Handlers, Write(h)
      PROVE  \/ status'[a] = status[a]
             \/ request[h].approval = a /\ status'[a] = verdict[h]
  BY <1>2 DEF Write
<1>3. QED
  BY <1>1, <1>2 DEF Next, Get, Decide, HandlerFails, vars

LEMMA NextHandlersOK ==
    ASSUME TypeOK, HandlersOK, FreshOK, [Next]_vars
    PROVE  HandlersOK'
<1> USE DEF TypeOK
<1>0. \A b \in Approvals : clock[b] # "none" => clock'[b] # "none"
  BY DEF Next, Create, Tick, KeyExpires, Get, Decide, Write, HandlerFails, vars
<1>1. CASE UNCHANGED handlers
  BY <1>0, <1>1 DEF HandlersOK, handlers, Calls
<1>2. ASSUME NEW h \in Handlers, NEW op \in Operations, NEW a \in Approvals, Get(h, op, a)
      PROVE  HandlersOK'
  <2>1. clock[a] # "none"
    BY <1>2 DEF Get, FreshOK
  <2>2. /\ request' = [request EXCEPT ![h] = [op |-> op, approval |-> a]]
        /\ pc' = [pc EXCEPT ![h] = "decide"]
        /\ clock' = clock
        /\ \A g \in Handlers \ {h} : verdict'[g] = verdict[g]
    BY <1>2 DEF Get
  <2> SUFFICES ASSUME NEW g \in Handlers, pc'[g] # "idle"
               PROVE  /\ clock'[request'[g].approval] # "none"
                      /\ pc'[g] = "write" => verdict'[g] # "PENDING"
    BY DEF HandlersOK
  <2>3. CASE g = h
    BY <2>1, <2>2, <2>3
  <2>4. CASE g # h
    BY <2>2, <2>4 DEF HandlersOK
  <2>5. QED
    BY <2>3, <2>4
<1>3. ASSUME NEW h \in Handlers, NEW value, Answer(h, value) \/ HandlerFails(h)
      PROVE  \A g \in Handlers :
               \/ pc'[g] = "idle"
               \/ pc'[g] = pc[g] /\ request'[g] = request[g] /\ verdict'[g] = verdict[g]
  BY <1>3 DEF Answer, HandlerFails
<1>4. ASSUME NEW h \in Handlers, NEW value, Answer(h, value) \/ HandlerFails(h)
      PROVE  HandlersOK'
  BY <1>3, <1>4, <1>0 DEF HandlersOK, Calls
<1>5. ASSUME NEW h \in Handlers, Decide(h)
      PROVE  HandlersOK'
  <2>1. Decision(h) # "PENDING"
    BY DecisionProperties
  <2>2. CASE Answer(h, Decision(h))
    BY <2>2, <1>4
  <2>3. CASE ~Answer(h, Decision(h))
    <3>1. /\ pc' = [pc EXCEPT ![h] = "write"] /\ request' = request /\ clock' = clock
          /\ verdict' = [verdict EXCEPT ![h] = Decision(h)] /\ pc[h] = "decide"
      BY <1>5, <2>3 DEF Decide
    <3> SUFFICES ASSUME NEW g \in Handlers, pc'[g] # "idle"
                 PROVE  /\ clock'[request'[g].approval] # "none"
                        /\ pc'[g] = "write" => verdict'[g] # "PENDING"
      BY DEF HandlersOK
    <3>2. CASE g = h
      BY <2>1, <3>1, <3>2 DEF HandlersOK
    <3>3. CASE g # h
      BY <3>1, <3>3 DEF HandlersOK
    <3>4. QED
      BY <3>2, <3>3
  <2>4. QED
    BY <2>2, <2>3
<1>6. ASSUME NEW h \in Handlers, Write(h)
      PROVE  HandlersOK'
  BY <1>6, <1>4 DEF Write
<1>7. ASSUME NEW h \in Handlers, HandlerFails(h)
      PROVE  HandlersOK'
  BY <1>7, <1>4
<1>8. QED
  BY <1>1, <1>2, <1>5, <1>6, <1>7, StepOfHandlers

(* A step answers a status for an approval only at the end of an operation,   *)
(* and not of a cleanup.                                                      *)
LEMMA StepOfAnswers ==
    ASSUME TypeOK, [Next]_vars, NEW a \in Approvals, answered'[a] # answered[a]
    PROVE  \E h \in Handlers :
             /\ pc[h] # "idle" /\ request[h].approval = a /\ request[h].op # "cleanup"
             /\ Write(h) \/ (Decide(h) /\ ~Writes(h))
<1> USE DEF TypeOK
<1>1. PICK h \in Handlers : Decide(h) \/ Write(h)
  BY DEF Next, Create, Tick, KeyExpires, Get, HandlerFails, vars
<1>2. pc[h] # "idle" /\ request[h] \in Calls
  BY <1>1 DEF Decide, Write
<1>3. ASSUME NEW value, Answer(h, value)
      PROVE  request[h].approval = a /\ request[h].op # "cleanup"
  BY <1>2, <1>3 DEF Answer, Calls
<1>4. QED
  BY <1>1, <1>2, <1>3 DEF Decide, Write

LEMMA NextFreshOK ==
    ASSUME TypeOK, HandlersOK, FreshOK, [Next]_vars
    PROVE  FreshOK'
<1> SUFFICES ASSUME NEW a \in Approvals, clock'[a] = "none"
             PROVE  status'[a] = "absent" /\ answered'[a] = {}
  BY DEF FreshOK
<1> USE DEF TypeOK
<1>1. clock[a] = "none"
  BY DEF Next, Create, Tick, KeyExpires, Get, Decide, Write, HandlerFails, vars
<1>2. status[a] = "absent" /\ answered[a] = {}
  BY <1>1 DEF FreshOK
<1>3. answered'[a] = {}
  BY <1>1, <1>2, StepOfAnswers DEF HandlersOK
<1>4. ~Create(a)
  BY DEF Create
<1>5. \A h \in Handlers : Write(h) => request[h].approval # a
  BY <1>1 DEF Write, HandlersOK
<1>6. QED
  BY <1>2, <1>3, <1>4, <1>5, StepOfKey

LEMMA NextAnsweredLeavesPending ==
    ASSUME TypeOK, HandlersOK, FreshOK, AnsweredLeavesPending, [Next]_vars
    PROVE  AnsweredLeavesPending'
<1> SUFFICES ASSUME NEW a \in Approvals, clock'[a] = "open", answered'[a] # {}
             PROVE  status'[a] # "PENDING"
  BY DEF AnsweredLeavesPending
<1> USE DEF TypeOK
<1>1. CASE answered'[a] = answered[a]
  <2>1. clock[a] = "open"
    BY <1>1 DEF Next, Create, Tick, KeyExpires, Get, Decide, Write, HandlerFails, vars, FreshOK
  <2>2. status[a] # "PENDING"
    BY <1>1, <2>1 DEF AnsweredLeavesPending
  <2>3. ~Create(a)
    BY <2>1 DEF Create
  <2>4. \A h \in Handlers : Write(h) => verdict[h] # "PENDING"
    BY DEF Write, HandlersOK
  <2>5. QED
    BY <2>2, <2>3, <2>4, StepOfKey
<1>2. CASE answered'[a] # answered[a]
  <2>1. PICK h \in Handlers :
          /\ pc[h] # "idle" /\ request[h].approval = a /\ request[h].op # "cleanup"
          /\ Write(h) \/ (Decide(h) /\ ~Writes(h))
    BY <1>2, StepOfAnswers
  <2>2. Write(h)
    BY <2>1 DEF Decide, Writes
  <2>3. status'[a] = verdict[h] /\ verdict[h] # "PENDING"
    BY <2>1, <2>2 DEF Write, HandlersOK
  <2>4. QED
    BY <2>3
<1>3. QED
  BY <1>1, <1>2

LEMMA InvariantIInv == Spec => []IInv
<1>1. IInv /\ [Next]_vars => IInv'
  BY NextTypeOK, NextHandlersOK, NextFreshOK, NextAnsweredLeavesPending DEF IInv
<1>2. QED
  BY InitIInv, <1>1, PTL DEF Spec

-----------------------------------------------------------------------------
(* Every reachable state has the declared types.                              *)
THEOREM TypeCorrect == Spec => []TypeOK
<1>1. IInv => TypeOK
  BY DEF IInv
<1>2. QED
  BY InvariantIInv, <1>1, PTL

(* What somebody was told is decided is not pending for anybody else, as long *)
(* as more than a second of the approval is left.                             *)
THEOREM AnsweredIsDecided == Spec => []AnsweredLeavesPending
<1>1. IInv => AnsweredLeavesPending
  BY DEF IInv
<1>2. QED
  BY InvariantIInv, <1>1, PTL

(* No write of any handler, however late, makes an approval pending again.    *)
THEOREM NothingReopens == Spec => NeverReopened
<1>1. ASSUME IInv, [Next]_vars, NEW a \in Approvals, status[a] # "PENDING", clock[a] # "none"
      PROVE  status'[a] # "PENDING"
  <2>1. ~Create(a)
    BY <1>1 DEF Create
  <2>2. \A h \in Handlers : Write(h) => verdict[h] # "PENDING"
    BY <1>1 DEF Write, IInv, HandlersOK
  <2>3. QED
    BY <1>1, <2>1, <2>2, StepOfKey DEF IInv
<1>2. IInv /\ [Next]_vars =>
        [\A a \in Approvals :
           status[a] # "PENDING" /\ clock[a] # "none" => status'[a] # "PENDING"]_vars
  BY <1>1
<1>3. QED
  BY InvariantIInv, <1>2, PTL DEF Spec, NeverReopened

-----------------------------------------------------------------------------
(* The handlers that are under way on an approval after a quiet decision are  *)
(* cancellations.                                                             *)
Standing(a, s) ==
    /\ clock[a] # "none"
    /\ status[a] \in {s, "EXPIRED", "absent"}
    /\ \A h \in Handlers : pc[h] # "idle" /\ request[h].approval = a =>
          request[h].op = "cancel" /\ (pc[h] = "write" => verdict[h] = "EXPIRED")

LEMMA NextStanding ==
    ASSUME IInv, [Next]_vars, NEW a \in Approvals, NEW s \in {"APPROVED", "REJECTED", "EXPIRED"},
           Standing(a, s)
    PROVE  Standing(a, s)'
<1> USE DEF IInv, TypeOK
<1>1. clock'[a] # "none"
  BY DEF Standing, Next, Create, Tick, KeyExpires, Get, Decide, Write, HandlerFails, vars
<1>2. status'[a] \in {s, "EXPIRED", "absent"}
  <2>1. ~Create(a)
    BY DEF Create, Standing
  <2>2. \A h \in Handlers : Write(h) /\ request[h].approval = a => verdict[h] = "EXPIRED"
    BY DEF Write, Standing
  <2>3. QED
    BY <2>1, <2>2, StepOfKey DEF Standing
<1>3. ASSUME NEW h \in Handlers, pc'[h] # "idle", request'[h].approval = a
      PROVE  request'[h].op = "cancel" /\ (pc'[h] = "write" => verdict'[h] = "EXPIRED")
  <2>1. CASE pc'[h] = pc[h] /\ request'[h] = request[h] /\ verdict'[h] = verdict[h]
    BY <1>3, <2>1 DEF Standing
  <2>2. ASSUME NEW op \in Operations, NEW b \in Approvals, Get(h, op, b)
        PROVE  request'[h].op = "cancel" /\ (pc'[h] = "write" => verdict'[h] = "EXPIRED")
    <3>1. b = a /\ request'[h].op = op /\ pc'[h] = "decide"
      BY <1>3, <2>2 DEF Get
    <3>2. status[a] # "PENDING"
      BY DEF Standing
    <3>3. QED
      BY <2>2, <3>1, <3>2 DEF Get, MayRead
  <2>3. CASE Decide(h)
    <3>1. /\ pc[h] = "decide" /\ request'[h] = request[h] /\ verdict'[h] = Decision(h)
      BY <1>3, <2>3 DEF Decide, Answer
    <3>2. request[h].op = "cancel"
      BY <1>3, <3>1 DEF Standing
    <3>3. QED
      BY <3>1, <3>2 DEF Decision
  <2>4. CASE Write(h) \/ HandlerFails(h)
    BY <1>3, <2>4 DEF Write, Answer, HandlerFails
  <2>5. ASSUME NEW g \in Handlers, g # h,
               (\E op \in Operations, b \in Approvals : Get(g, op, b))
               \/ Decide(g) \/ Write(g) \/ HandlerFails(g)
        PROVE  pc'[h] = pc[h] /\ request'[h] = request[h] /\ verdict'[h] = verdict[h]
    BY <2>5 DEF Get, Decide, Write, Answer, HandlerFails
  <2>6. CASE UNCHANGED handlers
    BY <2>1, <2>6 DEF handlers
  <2>7. QED
    BY <2>1, <2>2, <2>3, <2>4, <2>5, <2>6, StepOfHandlers
<1>4. QED
  BY <1>1, <1>2, <1>3 DEF Standing

(* Once a decision is stored and no handler is under way on the approval, no  *)
(* later call makes another decision of it: only a handler that had read it   *)
(* as pending before can.                                                     *)
THEOREM QuietDecisionsStand == Spec => QuietDecisionStands
<1> SUFFICES ASSUME NEW a \in Approvals, NEW s \in {"APPROVED", "REJECTED", "EXPIRED"}
             PROVE  Spec => [](status[a] = s /\ ~UnderWay(a)
                               => [](status[a] \in {s, "EXPIRED", "absent"}))
  BY DEF QuietDecisionStands
<1>1. IInv /\ Standing(a, s) /\ [Next]_vars => Standing(a, s)'
  BY NextStanding
<1>2. IInv /\ status[a] = s /\ ~UnderWay(a) => Standing(a, s)
  BY DEF IInv, FreshOK, UnderWay, Standing
<1>3. Standing(a, s) => status[a] \in {s, "EXPIRED", "absent"}
  BY DEF Standing
<1>4. QED
  BY InvariantIInv, <1>1, <1>2, <1>3, PTL DEF Spec

-----------------------------------------------------------------------------
(* A decision stands until its key expires. *)
DecisionIsFinal ==
    [][\A a \in Approvals :
         status[a] \in {"APPROVED", "REJECTED"} =>
             status'[a] \in {status[a], "absent"}]_vars

(* One handler at a time, and no cancellation: what a handler has read is     *)
(* still undecided.                                                           *)
Serial == (\A g, h \in Handlers : g = h) /\ "cancel" \notin Operations

ReadIsCurrent ==
    \A h \in Handlers : pc[h] # "idle" =>
        status[request[h].approval] \in {"PENDING", "absent"}

LEMMA NextReadIsCurrent ==
    ASSUME Serial, IInv, ReadIsCurrent, [Next]_vars
    PROVE  ReadIsCurrent'
<1> SUFFICES ASSUME NEW h \in Handlers, pc'[h] # "idle"
             PROVE  status'[request'[h].approval] \in {"PENDING", "absent"}
  BY DEF ReadIsCurrent
<1> USE DEF IInv, TypeOK
<1>1. ASSUME NEW op \in Operations, NEW a \in Approvals, Get(h, op, a)
      PROVE  status'[request'[h].approval] \in {"PENDING", "absent"}
  BY <1>1 DEF Get, MayRead, Serial
<1>2. \A g \in Handlers : ~Write(g)
  BY DEF Serial, Write, Answer
<1>3. ASSUME request'[h] = request[h], pc[h] # "idle"
      PROVE  status'[request'[h].approval] \in {"PENDING", "absent"}
  <2>1. request[h].approval \in Approvals
    BY <1>3 DEF Calls
  <2>2. QED
    BY <1>2, <1>3, <2>1, StepOfKey DEF ReadIsCurrent
<1>4. \/ \E op \in Operations, a \in Approvals : Get(h, op, a)
      \/ request'[h] = request[h] /\ pc[h] # "idle"
  <2>1. CASE UNCHANGED handlers
    BY <2>1 DEF handlers
  <2>2. CASE Decide(h) \/ Write(h) \/ HandlerFails(h)
    BY <2>2 DEF Decide, Write, Answer, HandlerFails
  <2>3. QED
    BY <2>1, <2>2, StepOfHandlers DEF Serial
<1>5. QED
  BY <1>1, <1>3, <1>4

(* With one handler at a time a decision stands until its key expires: the    *)
(* check of the status is enough without concurrency.                         *)
THEOREM SerialDecisionsAreFinal == ASSUME Serial PROVE Spec => DecisionIsFinal
<1>1. Init => ReadIsCurrent
  BY DEF Init, ReadIsCurrent
<1>2. IInv /\ ReadIsCurrent /\ [Next]_vars => ReadIsCurrent'
  BY NextReadIsCurrent
<1>3. ASSUME IInv, ReadIsCurrent, [Next]_vars,
             NEW a \in Approvals, status[a] \in {"APPROVED", "REJECTED"}
      PROVE  status'[a] \in {status[a], "absent"}
  <2>1. ~Create(a)
    BY <1>3 DEF Create, IInv, FreshOK
  <2>2. \A h \in Handlers : Write(h) => request[h].approval # a
    BY <1>3 DEF Write, ReadIsCurrent
  <2>3. QED
    BY <1>3, <2>1, <2>2, StepOfKey DEF IInv
<1>4. IInv /\ ReadIsCurrent /\ [Next]_vars =>
        [\A a \in Approvals :
           status[a] \in {"APPROVED", "REJECTED"} =>
             status'[a] \in {status[a], "absent"}]_vars
  BY <1>3
<1>5. QED
  BY InvariantIInv, <1>1, <1>2, <1>4, PTL DEF Spec, DecisionIsFinal
=============================================================================
