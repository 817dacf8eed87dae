------------------------ MODULE DigestDelivery_proofs ------------------------
(***************************************************************************)
(* Proofs about DigestDelivery, for every number of workers, repetitions   *)
(* and faults: whatever the workers and the network do, they only take     *)
(* steps that SubscriptionLease allows a client, so its theorems hold of   *)
(* the composition, and nothing is recorded that was not sent.             *)
(***************************************************************************)
EXTENDS DigestDelivery, SubscriptionLease_proofs

\* The worker's side of DeliveryTypeOK.
WorkerTypeOK ==
    /\ pc \in [Worker -> Step]
    /\ hand \in [Worker -> SUBSET Job]
    /\ job \in [Worker -> Job \cup {NoJob}]
    /\ net \subseteq Request
    /\ tries \in [Worker -> 0..MaxRetries]
    /\ sent \subseteq Message
    /\ faults \in Nat

\* The steps at which a worker has a claimed subscription in work.
Busy == WorkStep \cup {"delete", "nack", "ack"}

\* The subscriptions that were claimed, and those whose digest was sent.
Claimed == { j \in Job : \E g \in grants : g.sub = j.sub /\ g.lock = j.lock }
Delivered == { j \in Job : \E m \in sent : m.job = j /\ m.at <= now }

\* What a worker holds was claimed, and what it acknowledges was sent.
WorkersInv ==
    \A w \in Worker :
        /\ \A j \in hand[w] : j \in Claimed
        /\ pc[w] \in Busy => job[w] \in Claimed
        /\ pc[w] = "ack" => job[w] \in Delivered

\* So it is with the requests under way, however old.
RequestsInv ==
    \A m \in net :
        /\ m.op # "claim" => m.job \in Claimed
        /\ m.op = "ack" => m.job \in Delivered

DeliveryInv == TypeInv /\ WorkerTypeOK /\ WorkersInv /\ RequestsInv /\ RecordedWasSent

-----------------------------------------------------------------------------
(* The clients of SubscriptionLease                                        *)

\* A claim is one of the lease's, or finds nothing to claim and changes nothing.
LEMMA ClaimIsLeaseStep ==
    ASSUME TypeInv, NEW choice \in [ClaimableSet -> Lock \ Issued], Claim(choice)
    PROVE  [Next]_leaseVars
  <1>1. CASE ClaimableSet # {}
    BY <1>1 DEF Next, DoClaim
  <1>2. CASE ClaimableSet = {}
    <2>1. row = [s \in Subscriber |-> row[s]]
      BY DEF TypeInv, TypeOK
    <2>2. row' = [s \in Subscriber |-> row[s]]
      BY <1>2 DEF Claim
    <2>3. grants' = grants
      BY <1>2 DEF Claim
    <2> QED BY <2>1, <2>2, <2>3 DEF Claim, leaseVars
  <1> QED BY <1>1, <1>2

\* An acknowledgement is one of the lease's: the worker was given the lock.
LEMMA AckIsLeaseStep ==
    ASSUME NEW m \in net, RequestsInv, ServeAck(m)
    PROVE  [Next]_leaseVars
  <1>1. CASE UNCHANGED leaseVars
    BY <1>1
  <1>2. CASE /\ m.op \in {"ack", "nack"}
             /\ AckSent(m.job.sub, m.job.lock) \/ AckFailed(m.job.sub, m.job.lock)
    <2>1. m.job \in Claimed
      BY <1>2 DEF RequestsInv
    <2>2. m.job.sub \in Subscriber /\ m.job.lock \in Issued
      BY <2>1 DEF Claimed, Job, Issued
    <2> QED BY <1>2, <2>2 DEF Next, Ack
  <1> QED BY <1>1, <1>2 DEF ServeAck

LEMMA DeleteIsLeaseStep ==
    ASSUME NEW m \in net, RequestsInv, ServeDelete(m)
    PROVE  [Next]_leaseVars
  <1>1. m.job \in Job
    BY DEF RequestsInv, ServeDelete, Claimed
  <1>2. m.job.sub \in Subscriber
    BY <1>1 DEF Job
  <1> QED BY <1>2 DEF ServeDelete, Next, UserRequest

LEMMA DeliveryStepIsLeaseStep ==
    ASSUME TypeInv, RequestsInv, [DeliveryNext]_vars
    PROVE  [Next]_leaseVars
  <1>1. CASE Environment
    BY <1>1 DEF Environment, Next
  <1>2. ASSUME NEW w \in Worker, Work(w) \/ Trouble(w) \/ Restart(w)
        PROVE  UNCHANGED leaseVars
    <2>1. CASE Work(w)
      BY <2>1 DEF Work, StartClaim, Unanswered, NoAnswer, NextJob, EndTick, Preview, Send
    <2>2. CASE Trouble(w)
      BY <2>2 DEF Trouble, TimeOut, NoAnswer, Fail, SendAmbiguous, SendForbidden, Crash
    <2>3. CASE Restart(w)
      BY <2>3 DEF Restart
    <2> QED BY <1>2, <2>1, <2>2, <2>3
  <1>3. ASSUME NEW m \in net, Serve(m) PROVE [Next]_leaseVars
    <2>1. CASE ServeClaim(m)
      BY <2>1, ClaimIsLeaseStep DEF ServeClaim
    <2> QED BY <1>3, <2>1, AckIsLeaseStep, DeleteIsLeaseStep DEF Serve
  <1>4. ASSUME NEW m \in net, Refuse(m) \/ LoseRequest(m) PROVE UNCHANGED leaseVars
    BY <1>4 DEF Refuse, LoseRequest
  <1>5. CASE UNCHANGED vars
    BY <1>5 DEF vars
  <1> QED BY <1>1, <1>2, <1>3, <1>4, <1>5 DEF DeliveryNext

-----------------------------------------------------------------------------
(* What the workers hold                                                   *)

\* What has happened stays so.
Onward == Claimed \subseteq Claimed' /\ Delivered \subseteq Delivered'

LEMMA NothingIsUndone ==
    ASSUME TypeInv, WorkerTypeOK, [Next]_leaseVars, sent \subseteq sent'
    PROVE  Onward
  <1>1. grants \subseteq grants' /\ now' \in {now, now + 1} /\ now \in Nat
    BY DEF TypeInv, TypeOK, Next, leaseVars, Tick, DoClaim, Claim, UserRequest, Subscribe,
           Change, Delete, MarkSent, Ack, AckSent, AckFailed
  <1>2. Claimed \subseteq Claimed'
    BY <1>1 DEF Claimed
  <1>3. Delivered \subseteq Delivered'
    <2> SUFFICES ASSUME NEW j \in Job, NEW m \in sent, m.job = j, m.at <= now
                 PROVE  m \in sent' /\ m.at <= now'
      BY DEF Delivered
    <2>1. m.at \in Nat
      BY DEF WorkerTypeOK, Message
    <2> QED BY <1>1, <2>1
  <1> QED BY <1>2, <1>3 DEF Onward

\* A worker that moves on keeps to what was claimed and sent.
LEMMA MovingOnIsSafe ==
    ASSUME WorkerTypeOK, WorkersInv, RequestsInv, Onward,
           NEW w \in Worker, NEW next \in Step, NEW rest \in SUBSET net,
           MoveOn(w, next, rest), job' = job,
           \A v \in Worker : \A j \in hand'[v] : j \in Claimed',
           next \in Busy => job[w] \in Claimed',
           next = "ack" => job[w] \in Delivered'
    PROVE  /\ pc' \in [Worker -> Step] /\ net' \subseteq Request
           /\ tries' \in [Worker -> 0..MaxRetries]
           /\ WorkersInv' /\ RequestsInv'
  <1> DEFINE call == CallOf(w, next, 0)
  <1>1. pc' = [pc EXCEPT ![w] = next] /\ pc \in [Worker -> Step]
    BY DEF MoveOn, WorkerTypeOK
  <1>2. next \in CallStep => /\ call \in Request /\ call.op = next /\ call.job = job[w]
    <2>1. job[w] \in Job \cup {NoJob} /\ 0 \in 0..MaxRetries
      BY DeliveryAssumption DEF WorkerTypeOK
    <2> QED BY <2>1 DEF CallOf, Request
  <1>3. next \in CallStep => net' = rest \cup {call} /\ tries' = [tries EXCEPT ![w] = 0]
    BY DEF MoveOn
  <1>4. next \notin CallStep => net' = rest /\ tries' = tries
    BY DEF MoveOn
  <1> HIDE DEF call
  <1>5. net' \subseteq Request /\ tries' \in [Worker -> 0..MaxRetries]
    BY <1>2, <1>3, <1>4, DeliveryAssumption DEF WorkerTypeOK
  <1>6. WorkersInv'
    <2> SUFFICES ASSUME NEW v \in Worker
                 PROVE  /\ pc'[v] \in Busy => job[v] \in Claimed'
                        /\ pc'[v] = "ack" => job[v] \in Delivered'
      BY DEF WorkersInv
    <2>1. CASE v = w
      BY <2>1, <1>1
    <2>2. CASE v # w
      BY <2>2, <1>1 DEF WorkersInv, Onward
    <2> QED BY <2>1, <2>2
  <1>7. RequestsInv'
    <2> SUFFICES ASSUME NEW m \in net'
                 PROVE  /\ m.op # "claim" => m.job \in Claimed'
                        /\ m.op = "ack" => m.job \in Delivered'
      BY DEF RequestsInv
    <2>1. CASE m \in rest
      BY <2>1 DEF RequestsInv, Onward
    <2>2. CASE m \notin rest
      <3>1. next \in CallStep /\ m = call
        BY <2>2, <1>3, <1>4
      <3>2. next # "claim" => next \in Busy
        BY <3>1 DEF CallStep, Busy
      <3> QED BY <3>1, <3>2, <1>2
    <2> QED BY <2>1, <2>2
  <1> QED BY <1>1, <1>5, <1>6, <1>7

\* Where an abandoned or answered call leads needs no more than the call did.
LEMMA AfterACall ==
    ASSUME NEW op \in CallStep
    PROVE  /\ After(op) \in Step /\ After(op) # "ack"
           /\ After(op) \in Busy => op \in Busy
  BY DEF CallStep, After, Step, WorkStep, Busy

\* Nothing but requests disappears.
LEMMA RequestsGone ==
    ASSUME WorkersInv, RequestsInv, Onward, net' \subseteq net,
           UNCHANGED <<pc, hand, job>>
    PROVE  WorkersInv' /\ RequestsInv'
  <1>1. WorkersInv'
    BY DEF WorkersInv, Onward
  <1>2. RequestsInv'
    BY DEF RequestsInv, Onward
  <1> QED BY <1>1, <1>2

-----------------------------------------------------------------------------
(* One lemma per part of the worker's program and of the network           *)

WorkerSafe == WorkerTypeOK /\ WorkersInv /\ RequestsInv

\* The repeated request is for the subscription in work.
LEMMA RetryIsSafe ==
    ASSUME WorkerSafe, Onward, NEW w \in Worker, pc[w] \in CallStep, Retry(w),
           UNCHANGED <<hand, job, sent>>, faults' \in Nat
    PROVE  WorkerSafe'
  <1> DEFINE call == CallOf(w, pc[w], tries[w] + 1)
  <1>1. tries[w] + 1 \in 0..MaxRetries
    BY DeliveryAssumption DEF Retry, WorkerSafe, WorkerTypeOK
  <1>2. job[w] \in Job \cup {NoJob}
    BY DEF WorkerSafe, WorkerTypeOK
  <1>3. call \in Request /\ call.op = pc[w] /\ call.job = job[w]
    BY <1>1, <1>2 DEF CallOf, Request
  <1>4. net' = net \cup {call} /\ pc' = pc /\ tries' = [tries EXCEPT ![w] = @ + 1]
    BY DEF Retry
  <1> HIDE DEF call
  <1>5. WorkerTypeOK'
    BY <1>1, <1>3, <1>4 DEF WorkerSafe, WorkerTypeOK
  <1>6. WorkersInv'
    BY <1>4 DEF WorkerSafe, WorkersInv, Onward
  <1>7. RequestsInv'
    <2>1. call.op # "claim" => call.job \in Claimed'
      BY <1>3 DEF WorkerSafe, WorkersInv, Onward, CallStep, Busy
    <2>2. call.op = "ack" => call.job \in Delivered'
      BY <1>3 DEF WorkerSafe, WorkersInv, Onward
    <2> QED BY <1>4, <2>1, <2>2 DEF WorkerSafe, RequestsInv, Onward
  <1> QED BY <1>5, <1>6, <1>7 DEF WorkerSafe

LEMMA NoAnswerIsSafe ==
    ASSUME WorkerSafe, Onward, NEW w \in Worker, NoAnswer(w), faults' \in Nat
    PROVE  WorkerSafe'
  <1>1. CASE Retry(w)
    BY <1>1, RetryIsSafe DEF NoAnswer
  <1>2. CASE GiveUp(w)
    <2> DEFINE next == After(pc[w])
    <2>1. /\ next \in Step /\ next # "ack"
          /\ next \in Busy => pc[w] \in Busy
      BY AfterACall DEF NoAnswer
    <2>2. MoveOn(w, next, net) /\ UNCHANGED <<hand, job, sent>>
      BY <1>2 DEF GiveUp, NoAnswer
    <2> HIDE DEF next
    <2>3. next \in Busy => job[w] \in Claimed'
      BY <2>1 DEF WorkerSafe, WorkersInv, Onward
    <2>4. \A v \in Worker : \A j \in hand'[v] : j \in Claimed'
      BY <2>2 DEF WorkerSafe, WorkersInv, Onward
    <2>5. /\ pc' \in [Worker -> Step] /\ net' \subseteq Request
          /\ tries' \in [Worker -> 0..MaxRetries]
          /\ WorkersInv' /\ RequestsInv'
      BY <2>1, <2>2, <2>3, <2>4, MovingOnIsSafe DEF WorkerSafe
    <2> QED BY <2>2, <2>5 DEF WorkerSafe, WorkerTypeOK
  <1> QED BY <1>1, <1>2 DEF NoAnswer

\* A worker moves on with the subscription it has in work, if it goes on to
\* acknowledge, after a message was sent.
LEMMA WorkMovesOn ==
    ASSUME WorkerSafe, Onward, NEW w \in Worker, pc[w] \in WorkStep,
           NEW next \in Step, MoveOn(w, next, net), UNCHANGED <<hand, job>>,
           next = "ack" => job[w] \in Delivered', sent' \subseteq Message, faults' \in Nat
    PROVE  WorkerSafe'
  <1>1. job[w] \in Claimed'
    BY DEF WorkerSafe, WorkersInv, Busy, Onward
  <1>2. \A v \in Worker : \A j \in hand'[v] : j \in Claimed'
    BY DEF WorkerSafe, WorkersInv, Onward
  <1>3. /\ pc' \in [Worker -> Step] /\ net' \subseteq Request
        /\ tries' \in [Worker -> 0..MaxRetries]
        /\ WorkersInv' /\ RequestsInv'
    BY <1>1, <1>2, MovingOnIsSafe DEF WorkerSafe
  <1> QED BY <1>3 DEF WorkerSafe, WorkerTypeOK

LEMMA SendingIsSafe ==
    ASSUME TypeInv, WorkerSafe, Onward, UNCHANGED leaseVars, NEW w \in Worker,
           Send(w) \/ SendAmbiguous(w)
    PROVE  WorkerSafe'
  <1>1. job[w] \in Job /\ now \in Nat
    BY DEF Send, SendAmbiguous, WorkerSafe, WorkersInv, Busy, WorkStep, Claimed, TypeInv,
           TypeOK
  <1>2. PICK a \in BOOLEAN : sent' = sent \cup {[job |-> job[w], at |-> now, ambiguous |-> a]}
    BY DEF Send, SendAmbiguous
  <1> DEFINE m == [job |-> job[w], at |-> now, ambiguous |-> a]
  <1>3. m \in Message /\ m.job = job[w] /\ m.at = now
    BY <1>1 DEF Message
  <1>4. sent' = sent \cup {m}
    BY <1>2
  <1> HIDE DEF m
  <1>5. sent' \subseteq Message /\ job[w] \in Delivered'
    <2>1. now' = now /\ job' = job
      BY DEF leaseVars, Send, SendAmbiguous
    <2>2. m \in sent' /\ m.at <= now'
      BY <1>1, <1>3, <1>4, <2>1
    <2> QED BY <1>1, <1>3, <1>4, <2>1, <2>2 DEF WorkerSafe, WorkerTypeOK, Delivered
  <1>6. PICK next \in {"ack", "nack", "loop"} : MoveOn(w, next, net)
    BY DEF Send, SendAmbiguous, AfterFailure
  <1>7. next \in Step /\ pc[w] \in WorkStep
    BY <1>6 DEF Step, CallStep, WorkStep, Send, SendAmbiguous
  <1>8. faults' \in Nat /\ UNCHANGED <<hand, job>>
    BY DEF Send, SendAmbiguous, Fault, WorkerSafe, WorkerTypeOK
  <1> QED BY <1>5, <1>6, <1>7, <1>8, WorkMovesOn

LEMMA FailingIsSafe ==
    ASSUME WorkerSafe, Onward, NEW w \in Worker, Fail(w) \/ SendForbidden(w)
    PROVE  WorkerSafe'
  <1>1. PICK next \in {"delete", "nack", "loop"} : MoveOn(w, next, net)
    BY DEF Fail, SendForbidden, AfterFailure
  <1>2. next \in Step /\ next # "ack" /\ pc[w] \in WorkStep
    BY <1>1 DEF Step, CallStep, WorkStep, Fail, SendForbidden
  <1>3. faults' \in Nat /\ UNCHANGED <<hand, job, sent>>
    BY DEF Fail, SendForbidden, Fault, WorkerSafe, WorkerTypeOK
  <1>4. sent' \subseteq Message
    BY <1>3 DEF WorkerSafe, WorkerTypeOK
  <1> QED BY <1>1, <1>2, <1>3, <1>4, WorkMovesOn

\* The rest of a tick works with what the worker holds already.
LEMMA TickingIsSafe ==
    ASSUME WorkerSafe, Onward, NEW w \in Worker,
           \/ StartClaim(w) \/ NextJob(w) \/ EndTick(w) \/ Preview(w)
           \/ Crash(w) \/ Restart(w)
    PROVE  WorkerSafe'
  <1>1. CASE StartClaim(w)
    <2>1. /\ "claim" \in Step /\ "claim" \notin Busy
          /\ MoveOn(w, "claim", net) /\ UNCHANGED <<hand, job, sent, faults>>
      BY <1>1 DEF StartClaim, Step, CallStep, Busy, WorkStep
    <2>2. \A v \in Worker : \A j \in hand'[v] : j \in Claimed'
      BY <2>1 DEF WorkerSafe, WorkersInv, Onward
    <2>3. /\ pc' \in [Worker -> Step] /\ net' \subseteq Request
          /\ tries' \in [Worker -> 0..MaxRetries]
          /\ WorkersInv' /\ RequestsInv'
      BY <2>1, <2>2, MovingOnIsSafe DEF WorkerSafe
    <2> QED BY <2>1, <2>3 DEF WorkerSafe, WorkerTypeOK
  <1>2. CASE NextJob(w)
    <2>1. PICK j \in hand[w] : /\ job' = [job EXCEPT ![w] = j]
                               /\ hand' = [hand EXCEPT ![w] = @ \ {j}]
                               /\ pc' = [pc EXCEPT ![w] = "preview"]
                               /\ UNCHANGED <<net, tries, sent, faults>>
      BY <1>2 DEF NextJob
    <2>2. j \in Job /\ j \in Claimed'
      BY DEF WorkerSafe, WorkerTypeOK, WorkersInv, Onward
    <2>3. WorkerTypeOK'
      BY <2>1, <2>2 DEF WorkerSafe, WorkerTypeOK, Step, WorkStep
    <2>4. WorkersInv'
      <3> SUFFICES ASSUME NEW v \in Worker
                   PROVE  /\ \A i \in hand'[v] : i \in Claimed'
                          /\ pc'[v] \in Busy => job'[v] \in Claimed'
                          /\ pc'[v] = "ack" => job'[v] \in Delivered'
        BY DEF WorkersInv
      <3>1. CASE v = w
        BY <3>1, <2>1, <2>2 DEF WorkerSafe, WorkerTypeOK, WorkersInv, Onward
      <3>2. CASE v # w
        BY <3>2, <2>1 DEF WorkerSafe, WorkerTypeOK, WorkersInv, Onward
      <3> QED BY <3>1, <3>2
    <2>5. RequestsInv'
      BY <2>1 DEF WorkerSafe, RequestsInv, Onward
    <2> QED BY <2>3, <2>4, <2>5 DEF WorkerSafe
  <1>3. CASE EndTick(w) \/ Crash(w) \/ Restart(w)
    <2>1. PICK next \in {"idle", "down"} : pc' = [pc EXCEPT ![w] = next]
      BY <1>3 DEF EndTick, Crash, Restart
    <2>2. /\ hand' \in {hand, [hand EXCEPT ![w] = {}]}
          /\ job' \in {job, [job EXCEPT ![w] = NoJob]}
          /\ UNCHANGED <<net, tries, sent>> /\ faults' \in Nat
      BY <1>3 DEF EndTick, Crash, Restart, Fault, WorkerSafe, WorkerTypeOK
    <2>3. next \in Step /\ next \notin Busy /\ next # "ack"
      BY DEF Step, Busy, WorkStep, CallStep
    <2>4. WorkerTypeOK'
      BY <2>1, <2>2, <2>3 DEF WorkerSafe, WorkerTypeOK
    <2>5. WorkersInv'
      <3> SUFFICES ASSUME NEW v \in Worker
                   PROVE  /\ \A i \in hand'[v] : i \in Claimed'
                          /\ pc'[v] \in Busy => job'[v] \in Claimed'
                          /\ pc'[v] = "ack" => job'[v] \in Delivered'
        BY DEF WorkersInv
      <3>1. CASE v = w
        BY <3>1, <2>1, <2>2, <2>3 DEF WorkerSafe, WorkerTypeOK, WorkersInv, Onward
      <3>2. CASE v # w
        BY <3>2, <2>1, <2>2 DEF WorkerSafe, WorkerTypeOK, WorkersInv, Onward
      <3> QED BY <3>1, <3>2
    <2>6. RequestsInv'
      BY <2>2 DEF WorkerSafe, RequestsInv, Onward
    <2> QED BY <2>4, <2>5, <2>6 DEF WorkerSafe
  <1>4. CASE Preview(w)
    <2>1. /\ pc[w] = "preview" /\ pc' = [pc EXCEPT ![w] = "send"]
          /\ UNCHANGED <<hand, job, net, tries, sent, faults>>
      BY <1>4 DEF Preview
    <2>2. WorkerTypeOK'
      BY <2>1 DEF WorkerSafe, WorkerTypeOK, Step, WorkStep
    <2>3. WorkersInv'
      BY <2>1 DEF WorkerSafe, WorkerTypeOK, WorkersInv, Onward, Busy, WorkStep
    <2>4. RequestsInv'
      BY <2>1 DEF WorkerSafe, RequestsInv, Onward
    <2> QED BY <2>2, <2>3, <2>4 DEF WorkerSafe
  <1> QED BY <1>1, <1>2, <1>3, <1>4

\* The answer to a call, with what it claimed, or a refusal: the worker that
\* still waits moves on, and nobody else notices.
LEMMA RespondingIsSafe ==
    ASSUME WorkerSafe, Onward, NEW m \in net, NEW claimed \in SUBSET Job,
           claimed \subseteq Claimed',
           Respond(m, claimed) \/ (Refuse(m) /\ claimed = {})
    PROVE  WorkerSafe'
  <1>1. m.from \in Worker /\ m.op \in CallStep
    BY DEF WorkerSafe, WorkerTypeOK, Request
  <1>2. CASE /\ net' = net \ {m} /\ UNCHANGED <<pc, hand, job, tries, sent>>
             /\ faults' \in Nat
    <2>1. WorkersInv' /\ RequestsInv'
      BY <1>2, RequestsGone DEF WorkerSafe
    <2> QED BY <2>1, <1>2 DEF WorkerSafe, WorkerTypeOK
  <1>3. ASSUME NEW next \in {"loop", After(m.op)}, Waiting(m), MoveOn(m.from, next, net \ {m}),
               hand' \in {hand, [hand EXCEPT ![m.from] = @ \cup claimed]},
               UNCHANGED <<job, sent>>, faults' \in Nat
        PROVE  WorkerSafe'
    <2> DEFINE w == m.from
    <2>1. m.op = pc[w]
      BY <1>3 DEF Waiting, Pending, CallOf
    <2>2. next \in Step /\ next # "ack" /\ (next \in Busy => pc[w] \in Busy)
      BY <1>1, <2>1, AfterACall DEF Step, Busy, WorkStep
    <2>3. next \in Busy => job[w] \in Claimed'
      BY <1>1, <2>2 DEF WorkerSafe, WorkersInv, Onward
    <2>4. \A v \in Worker : \A j \in hand'[v] : j \in Claimed'
      BY <1>1, <1>3 DEF WorkerSafe, WorkerTypeOK, WorkersInv, Onward
    <2>5. hand' \in [Worker -> SUBSET Job]
      BY <1>1, <1>3 DEF WorkerSafe, WorkerTypeOK
    <2>6. /\ pc' \in [Worker -> Step] /\ net' \subseteq Request
          /\ tries' \in [Worker -> 0..MaxRetries]
          /\ WorkersInv' /\ RequestsInv'
      BY <1>1, <1>3, <2>2, <2>3, <2>4, MovingOnIsSafe DEF WorkerSafe
    <2> QED BY <1>3, <2>5, <2>6 DEF WorkerSafe, WorkerTypeOK
  <1>4. faults \in Nat
    BY DEF WorkerSafe, WorkerTypeOK
  <1>5. CASE Refuse(m)
    BY <1>5, <1>3, <1>4 DEF Refuse, Fault
  <1>6. CASE Respond(m, claimed)
    BY <1>6, <1>2, <1>3, <1>4 DEF Respond, Fault
  <1> QED BY <1>5, <1>6

\* What a claim answers was granted.
LEMMA ClaimAnswersGrants ==
    ASSUME NEW choice \in [ClaimableSet -> Lock \ Issued], Claim(choice)
    PROVE  LET claimed == {[sub |-> s, lock |-> choice[s]] : s \in ClaimableSet}
           IN  claimed \subseteq Job /\ claimed \subseteq Claimed'
  <1> SUFFICES ASSUME NEW s \in ClaimableSet
               PROVE  /\ [sub |-> s, lock |-> choice[s]] \in Job
                      /\ [sub |-> s, lock |-> choice[s]] \in Claimed'
    OBVIOUS
  <1>1. s \in Subscriber /\ choice[s] \in Lock
    BY DEF ClaimableSet
  <1>2. GrantOf(s, row[s], choice[s], now) \in grants'
    BY DEF Claim
  <1>3. /\ GrantOf(s, row[s], choice[s], now).sub = s
        /\ GrantOf(s, row[s], choice[s], now).lock = choice[s]
    BY DEF GrantOf
  <1> QED BY <1>1, <1>2, <1>3 DEF Job, Claimed

LEMMA ServingIsSafe ==
    ASSUME WorkerSafe, Onward, NEW m \in net, Serve(m)
    PROVE  WorkerSafe'
  <1>1. CASE ServeClaim(m)
    BY <1>1, ClaimAnswersGrants, RespondingIsSafe DEF ServeClaim
  <1>2. CASE ServeAck(m) \/ ServeDelete(m)
    BY <1>2, RespondingIsSafe DEF ServeAck, ServeDelete
  <1> QED BY <1>1, <1>2 DEF Serve

-----------------------------------------------------------------------------
(* The inductive invariant                                                 *)

LEMMA DeliveryStarts == DeliveryInit => DeliveryInv
  <1> SUFFICES ASSUME DeliveryInit PROVE DeliveryInv
    OBVIOUS
  <1>1. TypeInv
    BY TypeInvInit DEF DeliveryInit
  <1>2. WorkerTypeOK
    BY DeliveryAssumption DEF DeliveryInit, WorkerTypeOK, Step
  <1>3. WorkersInv /\ RequestsInv
    BY DEF DeliveryInit, WorkersInv, RequestsInv, Busy, WorkStep
  <1>4. RecordedWasSent
    BY DEF DeliveryInit, Init, RecordedWasSent
  <1> QED BY <1>1, <1>2, <1>3, <1>4 DEF DeliveryInv

\* Telegram does not take a message back.
LEMMA SentGrows ==
    ASSUME [DeliveryNext]_vars
    PROVE  sent \subseteq sent'
  <1>1. CASE Environment \/ UNCHANGED vars
    BY <1>1 DEF Environment, workerVars, vars
  <1>2. ASSUME NEW w \in Worker, Work(w) \/ Trouble(w) \/ Restart(w)
        PROVE  sent \subseteq sent'
    BY <1>2 DEF Work, StartClaim, Unanswered, NoAnswer, NextJob, EndTick, Preview, Send,
                Trouble, TimeOut, Fail, SendAmbiguous, SendForbidden, Crash, Restart
  <1>3. ASSUME NEW m \in net, Serve(m) \/ Refuse(m) \/ LoseRequest(m)
        PROVE  sent \subseteq sent'
    BY <1>3 DEF Serve, ServeClaim, ServeAck, ServeDelete, Respond, Refuse, LoseRequest
  <1> QED BY <1>1, <1>2, <1>3 DEF DeliveryNext

\* Only an acknowledgement writes to digest_history, of a digest that was sent.
LEMMA RecordingIsSafe ==
    ASSUME DeliveryInv, [DeliveryNext]_vars
    PROVE  RecordedWasSent'
  <1>1. sent \subseteq sent'
    BY SentGrows
  <1>2. CASE history' = history
    BY <1>1, <1>2 DEF DeliveryInv, RecordedWasSent
  <1>3. ASSUME NEW m \in net, m.op = "ack", AckSent(m.job.sub, m.job.lock)
        PROVE  RecordedWasSent'
    <2> DEFINE h == RecordOf(m.job.sub, row[m.job.sub], m.job.lock, now)
    <2>1. m.job \in Delivered
      BY <1>3 DEF DeliveryInv, RequestsInv
    <2>2. PICK d \in sent : d.job = m.job /\ d.at <= now
      BY <2>1 DEF Delivered
    <2>3. m.job = [sub |-> m.job.sub, lock |-> m.job.lock]
      BY <2>1 DEF Delivered, Job
    <2>4. h.sub = m.job.sub /\ h.lock = m.job.lock /\ h.at = now
      BY DEF RecordOf
    <2>5. history' = history \cup {h}
      BY <1>3 DEF AckSent
    <2> HIDE DEF h
    <2>6. d \in sent' /\ d.job = [sub |-> h.sub, lock |-> h.lock] /\ d.at <= h.at
      BY <1>1, <2>2, <2>3, <2>4
    <2> QED BY <1>1, <2>5, <2>6 DEF DeliveryInv, RecordedWasSent
  <1>4. CASE Environment \/ UNCHANGED vars
    BY <1>2, <1>4 DEF Environment, Tick, UserRequest, Subscribe, Change, Delete, MarkSent,
                      leaseVars, vars
  <1>5. ASSUME NEW w \in Worker, Work(w) \/ Trouble(w) \/ Restart(w)
        PROVE  history' = history
    BY <1>5 DEF Work, StartClaim, Unanswered, NoAnswer, NextJob, EndTick, Preview, Send,
                Trouble, TimeOut, Fail, SendAmbiguous, SendForbidden, Crash, Restart, leaseVars
  <1>6. ASSUME NEW m \in net, ServeClaim(m) \/ ServeDelete(m) \/ Refuse(m) \/ LoseRequest(m)
        PROVE  history' = history
    BY <1>6 DEF ServeClaim, Claim, ServeDelete, Delete, Refuse, LoseRequest, leaseVars
  <1>7. ASSUME NEW m \in net, ServeAck(m)
        PROVE  history' = history \/ (m.op = "ack" /\ AckSent(m.job.sub, m.job.lock))
    BY <1>7 DEF ServeAck, AckFailed, leaseVars
  <1> QED BY <1>2, <1>3, <1>4, <1>5, <1>6, <1>7 DEF DeliveryNext, Serve

LEMMA DeliveryContinues == DeliveryInv /\ [DeliveryNext]_vars => DeliveryInv'
  <1> SUFFICES ASSUME DeliveryInv, [DeliveryNext]_vars PROVE DeliveryInv'
    OBVIOUS
  <1> USE DEF DeliveryInv
  <1>1. TypeInv'
    BY DeliveryStepIsLeaseStep, TypeInvStep
  <1>2. Onward
    BY DeliveryStepIsLeaseStep, NothingIsUndone, SentGrows
  <1>3. WorkerSafe
    BY DEF WorkerSafe
  <1>4. ASSUME UNCHANGED workerVars PROVE WorkerSafe'
    <2>1. WorkersInv' /\ RequestsInv'
      BY <1>2, <1>4, RequestsGone DEF workerVars
    <2> QED BY <2>1, <1>4 DEF workerVars, WorkerSafe, WorkerTypeOK
  <1>5. ASSUME Environment \/ UNCHANGED vars PROVE WorkerSafe'
    BY <1>4, <1>5 DEF Environment, vars
  <1>6. ASSUME NEW w \in Worker, Work(w) \/ Trouble(w) \/ Restart(w)
        PROVE  WorkerSafe'
    <2>1. CASE Unanswered(w) \/ TimeOut(w)
      <3>1. NoAnswer(w) /\ faults' \in Nat
        BY <2>1 DEF Unanswered, TimeOut, Fault, WorkerTypeOK
      <3> QED BY <1>2, <1>3, <3>1, NoAnswerIsSafe
    <2>2. CASE Send(w) \/ SendAmbiguous(w)
      <3>1. UNCHANGED leaseVars
        BY <2>2 DEF Send, SendAmbiguous
      <3> QED BY <1>2, <1>3, <2>2, <3>1, SendingIsSafe
    <2>3. CASE Fail(w) \/ SendForbidden(w)
      BY <1>2, <1>3, <2>3, FailingIsSafe
    <2>4. CASE \/ StartClaim(w) \/ NextJob(w) \/ EndTick(w) \/ Preview(w)
               \/ Crash(w) \/ Restart(w)
      BY <1>2, <1>3, <2>4, TickingIsSafe
    <2> QED BY <1>6, <2>1, <2>2, <2>3, <2>4 DEF Work, Trouble
  <1>7. ASSUME NEW m \in net, Serve(m) \/ Refuse(m) \/ LoseRequest(m)
        PROVE  WorkerSafe'
    <2>1. CASE Serve(m)
      BY <1>2, <1>3, <2>1, ServingIsSafe
    <2>2. CASE Refuse(m)
      <3>1. {} \in SUBSET Job /\ {} \subseteq Claimed'
        OBVIOUS
      <3> QED BY <1>2, <1>3, <2>2, <3>1, RespondingIsSafe
    <2>3. CASE LoseRequest(m)
      <3>1. /\ net' = net \ {m} /\ UNCHANGED <<pc, hand, job, tries, sent>>
            /\ faults' \in Nat
        BY <2>3 DEF LoseRequest, Fault, WorkerTypeOK
      <3>2. WorkersInv' /\ RequestsInv'
        BY <1>2, <3>1, RequestsGone
      <3> QED BY <3>1, <3>2 DEF WorkerSafe, WorkerTypeOK
    <2> QED BY <1>7, <2>1, <2>2, <2>3
  <1>8. WorkerSafe'
    BY <1>5, <1>6, <1>7 DEF DeliveryNext
  <1> QED BY <1>1, <1>8, RecordingIsSafe DEF WorkerSafe

\* The invariant of the worker's program.
THEOREM DeliveryIsSafe == DeliverySpec => []DeliveryInv
  BY DeliveryStarts, DeliveryContinues, PTL DEF DeliverySpec

\* Every variable keeps its type.
THEOREM DeliveryTypes == DeliverySpec => []DeliveryTypeOK
  <1>1. DeliveryInv => DeliveryTypeOK
    BY DEF DeliveryInv, WorkerTypeOK, DeliveryTypeOK, TypeInv
  <1> QED BY <1>1, DeliveryIsSafe, PTL

\* digest_history shows only digests Telegram has delivered under the claim that
\* the acknowledgement names, whatever is lost, late, repeated or restarted.
THEOREM OnlySentIsRecorded == DeliverySpec => []RecordedWasSent
  <1>1. DeliveryInv => RecordedWasSent
    BY DEF DeliveryInv
  <1> QED BY <1>1, DeliveryIsSafe, PTL

\* Refinement: to the API the workers and their network are some of the clients
\* that SubscriptionLease allows for.
THEOREM DeliveryImplementsLease == DeliverySpec => LeaseSpec
  <1>1. DeliveryInit => Init
    BY DEF DeliveryInit
  <1>2. DeliveryInv /\ [DeliveryNext]_vars => [Next]_leaseVars
    BY DeliveryStepIsLeaseStep DEF DeliveryInv
  <1> QED BY <1>1, <1>2, DeliveryIsSafe, PTL DEF DeliverySpec, LeaseSpec, Spec

\* So a subscriber is recorded at most one digest on one local date.
THEOREM DeliveredOncePerLocalDay == DeliverySpec => []OneRecordPerLocalDay
  BY DeliveryImplementsLease, OncePerLocalDay, PTL DEF LeaseSpec

-----------------------------------------------------------------------------
(* Why a digest may arrive twice                                           *)

JobOf(g) == [sub |-> g.sub, lock |-> g.lock]

\* What worker w has still to send.
AtHand(w) == hand[w] \cup (IF pc[w] \in WorkStep THEN {job[w]} ELSE {})

\* The claims that came to nothing: nobody is going to send their digest, and
\* Telegram has confirmed none.
Spent ==
    { j \in Claimed : /\ \A w \in Worker : j \notin AtHand(w)
                      /\ \A m \in sent : m.job = j => m.ambiguous }

\* A claimed subscription is with one worker, once, and not sent yet.
HandsInv ==
    /\ \A w \in Worker : /\ \A v \in Worker : AtHand(w) \cap AtHand(v) # {} => w = v
                         /\ pc[w] \in WorkStep => job[w] \notin hand[w]
                         /\ \A m \in sent : m.job \notin AtHand(w)
    /\ \A m \in sent : m.job \in Claimed

\* A failure is reported of a claim that came to nothing.
FailuresInv ==
    /\ \A w \in Worker : pc[w] \in {"delete", "nack"} => job[w] \in Spent
    /\ \A m \in net : m.op = "nack" => m.job \in Spent

\* What a row still shows of a claim that has lost it: the claim is old, or was
\* followed by a record, or came to nothing.
RowsInv ==
    \A s \in Subscriber, g \in grants :
        row[s].id # 0 /\ g.id = row[s].id =>
            /\ g.lock # row[s].lock => \/ now - g.at >= StaleAfter
                                       \/ row[s].lastSent # Null /\ g.at <= row[s].lastSent
                                       \/ JobOf(g) \in Spent
            /\ g.lock = row[s].lock => g.at <= row[s].updatedAt
            /\ \/ g.attempt <= row[s].attempt
               \/ row[s].lastSent # Null /\ g.at <= row[s].lastSent

\* The same of two claims of one row.
ClaimsInv ==
    \A g1, g2 \in grants :
        g1.id = g2.id /\ ClaimedBefore(g1, g2) =>
            \/ g2.at - g1.at >= StaleAfter
            \/ LocalDate(g1.at, g2.zone) # LocalDate(g2.at, g2.zone)
            \/ JobOf(g1) \in Spent

\* A step on one row keeps both, if it does so for this row.
LEMMA RowStep ==
    ASSUME RowsInv, ClaimsInv, Spent \subseteq Spent', UNCHANGED <<now, grants>>,
           NEW s \in Subscriber, \A t \in Subscriber : t # s => row'[t] = row[t],
           \A g \in grants :
               row'[s].id # 0 /\ g.id = row'[s].id =>
                   /\ g.lock # row'[s].lock =>
                          \/ now - g.at >= StaleAfter
                          \/ row'[s].lastSent # Null /\ g.at <= row'[s].lastSent
                          \/ JobOf(g) \in Spent'
                   /\ g.lock = row'[s].lock => g.at <= row'[s].updatedAt
                   /\ \/ g.attempt <= row'[s].attempt
                      \/ row'[s].lastSent # Null /\ g.at <= row'[s].lastSent
    PROVE  RowsInv' /\ ClaimsInv'
  <1>1. RowsInv'
    <2> SUFFICES ASSUME NEW t \in Subscriber, NEW g \in grants,
                        row'[t].id # 0, g.id = row'[t].id
                 PROVE  /\ g.lock # row'[t].lock =>
                              \/ now - g.at >= StaleAfter
                              \/ row'[t].lastSent # Null /\ g.at <= row'[t].lastSent
                              \/ JobOf(g) \in Spent'
                        /\ g.lock = row'[t].lock => g.at <= row'[t].updatedAt
                        /\ \/ g.attempt <= row'[t].attempt
                           \/ row'[t].lastSent # Null /\ g.at <= row'[t].lastSent
      BY DEF RowsInv
    <2>1. CASE t = s
      BY <2>1
    <2>2. CASE t # s
      BY <2>2 DEF RowsInv
    <2> QED BY <2>1, <2>2
  <1>2. ClaimsInv'
    BY DEF ClaimsInv
  <1> QED BY <1>1, <1>2

\* What LeaseInv says of a claim.
LEMMA GrantFacts ==
    ASSUME TypeInv, LeaseInv, NEW g \in grants
    PROVE  /\ g.at \in Nat /\ g.attempt \in Nat /\ g.zone \in Int /\ now \in Nat
           /\ g.at <= now /\ g.id \in Nat /\ g.id < nextId /\ JobOf(g) \in Claimed
           /\ \A h \in grants : h.lock = g.lock => h = g
  <1>1. g \in Grant /\ now \in Nat
    BY DEF TypeInv, TypeOK
  <1>2. /\ g.at \in Nat /\ g.attempt \in Nat /\ g.zone \in Int /\ g.id \in Nat
        /\ g.sub \in Subscriber /\ g.lock \in Lock
    BY <1>1, ZoneFacts DEF Grant
  <1>3. g.at <= now /\ g.id < nextId
    BY DEF LeaseInv, NothingFromTheFuture, IdsGivenOut
  <1>4. JobOf(g) \in Claimed
    BY <1>2 DEF JobOf, Claimed, Job
  <1>5. \A h \in grants : h.lock = g.lock => h = g
    BY DEF LeaseInv, LockIsFresh
  <1> QED BY <1>1, <1>2, <1>3, <1>4, <1>5

\* An acknowledgement or a request of a user.
LEMMA OneRowAtATime ==
    ASSUME TypeInv, LeaseInv, RowsInv, ClaimsInv, Spent \subseteq Spent',
           NEW s \in Subscriber,
           \/ \E p \in Prefs : Subscribe(s, p) \/ Change(s, p)
           \/ Delete(s) \/ MarkSent(s)
           \/ \E lock \in Lock : AckSent(s, lock)
           \/ \E j \in Spent : j.sub = s /\ AckFailed(s, j.lock)
    PROVE  RowsInv' /\ ClaimsInv'
  <1>1. row \in [Subscriber -> Row] /\ row[s] \in Row /\ now \in Nat \ {0} /\ nextId \in Nat
    BY DEF TypeInv, TypeOK
  <1>2. \A g \in grants :
            /\ g.at \in Nat /\ g.attempt \in Nat /\ g.at <= now /\ g.id \in Nat /\ g.id < nextId
    BY GrantFacts
  <1>3. UNCHANGED <<now, grants>> /\ \A t \in Subscriber : t # s => row'[t] = row[t]
    BY <1>1 DEF Subscribe, Change, Delete, MarkSent, AckSent, AckFailed
  <1> DEFINE Kept ==
        \A g \in grants :
            row'[s].id # 0 /\ g.id = row'[s].id =>
                /\ g.lock # row'[s].lock =>
                       \/ now - g.at >= StaleAfter
                       \/ row'[s].lastSent # Null /\ g.at <= row'[s].lastSent
                       \/ JobOf(g) \in Spent'
                /\ g.lock = row'[s].lock => g.at <= row'[s].updatedAt
                /\ \/ g.attempt <= row'[s].attempt
                   \/ row'[s].lastSent # Null /\ g.at <= row'[s].lastSent
  <1>4. ASSUME NEW p \in Prefs, Subscribe(s, p) PROVE Kept
    <2>1. row'[s].id = nextId
      BY <1>1, <1>4, RowColumns DEF Subscribe
    <2> QED BY <1>2, <2>1
  <1>5. ASSUME NEW p \in Prefs, Change(s, p) PROVE Kept
    <2>1. row'[s] = [WithPrefs(row[s], p) EXCEPT !.updatedAt = now]
      BY <1>1, <1>5 DEF Change, Stamped
    <2>2. /\ row'[s].id = row[s].id /\ row'[s].lock = row[s].lock
          /\ row'[s].lastSent = row[s].lastSent /\ row'[s].attempt = row[s].attempt
          /\ row'[s].updatedAt = now
      BY <1>1, <2>1 DEF WithPrefs, Row
    <2> QED BY <1>2, <2>2 DEF RowsInv
  <1>6. ASSUME Delete(s) PROVE Kept
    <2>1. row'[s].id = 0
      BY <1>1, <1>6, RowColumns DEF Delete
    <2> QED BY <2>1
  <1>7. ASSUME MarkSent(s) \/ \E lock \in Lock : AckSent(s, lock) PROVE Kept
    <2>1. row'[s] = MarkedSent(row[s], now) \/ row'[s] = AckedSent(row[s], now)
      BY <1>1, <1>7 DEF MarkSent, AckSent
    <2>2. row'[s].lastSent = now /\ row'[s].updatedAt = now /\ now # Null
      BY <1>1, <2>1 DEF MarkedSent, AckedSent, Stamped, Row, Null
    <2> QED BY <1>2, <2>2
  <1>8. ASSUME NEW j \in Spent, j.sub = s, AckFailed(s, j.lock) PROVE Kept
    <2>1. row'[s] = AckedFailed(row[s], now) /\ row[s].lock = j.lock
      BY <1>1, <1>8 DEF AckFailed, HoldsLease
    <2>2. /\ row'[s].id = row[s].id /\ row'[s].lock = NoLock
          /\ row'[s].lastSent = row[s].lastSent /\ row'[s].attempt = row[s].attempt
          /\ row'[s].updatedAt = now
      BY <1>1, <2>1 DEF AckedFailed, Stamped, Row
    <2>3. \A g \in grants : g.lock = j.lock => JobOf(g) = j
      <3> SUFFICES ASSUME NEW g \in grants, g.lock = j.lock PROVE JobOf(g) = j
        OBVIOUS
      <3>1. j \in Job /\ \E h \in grants : h.sub = j.sub /\ h.lock = j.lock
        BY DEF Spent, Claimed
      <3>2. g.sub = j.sub
        BY <3>1, GrantFacts
      <3> QED BY <3>1, <3>2 DEF JobOf, Job
    <2> QED BY <1>2, <2>1, <2>2, <2>3 DEF RowsInv
  <1>9. Kept
    BY <1>4, <1>5, <1>6, <1>7, <1>8
  <1> QED BY <1>3, <1>9, RowStep

\* Time only makes a claim older.
LEMMA TimePasses ==
    ASSUME TypeInv, LeaseInv, RowsInv, ClaimsInv, Spent \subseteq Spent',
           Tick \/ UNCHANGED leaseVars
    PROVE  RowsInv' /\ ClaimsInv'
  <1>1. /\ UNCHANGED <<row, grants>> /\ now' \in {now, now + 1} /\ now \in Nat
        /\ StaleAfter \in Nat
    BY LeaseAssumption DEF Tick, leaseVars, TypeInv, TypeOK
  <1>2. \A g \in grants : g.at \in Nat
    BY GrantFacts
  <1>3. RowsInv'
    BY <1>1, <1>2 DEF RowsInv
  <1>4. ClaimsInv'
    BY <1>1 DEF ClaimsInv
  <1> QED BY <1>3, <1>4

\* A claim finds a row free, or its lease stale, and no digest on the local date.
LEMMA ClaimingExplains ==
    ASSUME TypeInv, LeaseInv, RowsInv, ClaimsInv, Spent \subseteq Spent',
           NEW choice \in [ClaimableSet -> Lock \ Issued], Claim(choice)
    PROVE  RowsInv' /\ ClaimsInv'
  <1> DEFINE New(s) == GrantOf(s, row[s], choice[s], now)
  <1>1. row \in [Subscriber -> Row] /\ now \in Nat \ {0} /\ StaleAfter \in Nat
    BY LeaseAssumption DEF TypeInv, TypeOK
  <1>2. \A g \in grants :
            /\ g.at \in Nat /\ g.attempt \in Nat /\ g.zone \in Int /\ g.at <= now
            /\ g.lock \in Issued
    BY GrantFacts DEF Issued
  <1>3. UNCHANGED <<now>> /\ grants' = grants \cup {New(s) : s \in ClaimableSet}
    BY DEF Claim
  <1>4. \A s \in ClaimableSet :
            /\ s \in Subscriber /\ choice[s] \in Lock \ Issued
            /\ row[s].id # 0 /\ IsDue(row[s], now)
            /\ row[s].lock # NoLock => row[s].updatedAt <= now - StaleAfter
    <2> SUFFICES ASSUME NEW s \in ClaimableSet
                 PROVE  /\ s \in Subscriber /\ choice[s] \in Lock \ Issued
                        /\ row[s].id # 0 /\ IsDue(row[s], now)
                        /\ row[s].lock # NoLock => row[s].updatedAt <= now - StaleAfter
      OBVIOUS
    <2>1. s \in Subscriber /\ ClaimableRow(row[s], now)
      BY DEF ClaimableSet, Claimable
    <2>2. row[s].updatedAt \in Nat
      BY <1>1, <2>1 DEF Row
    <2> QED BY <1>1, <2>1, <2>2 DEF ClaimableRow
  <1>5. \A s \in ClaimableSet :
            /\ New(s).id = row[s].id /\ New(s).lock = choice[s] /\ New(s).at = now
            /\ New(s).attempt = row[s].attempt + 1 /\ New(s).zone = row[s].zone
    BY DEF GrantOf
  <1>6. \A s \in ClaimableSet :
            /\ row'[s].id = row[s].id /\ row'[s].lock = choice[s]
            /\ row'[s].attempt = row[s].attempt + 1 /\ row'[s].lastSent = row[s].lastSent
            /\ row'[s].updatedAt = now
    <2> SUFFICES ASSUME NEW s \in ClaimableSet
                 PROVE  /\ row'[s].id = row[s].id /\ row'[s].lock = choice[s]
                        /\ row'[s].attempt = row[s].attempt + 1
                        /\ row'[s].lastSent = row[s].lastSent
                        /\ row'[s].updatedAt = now
      OBVIOUS
    <2>1. row'[s] = Leased(row[s], choice[s], now) /\ row[s] \in Row
      BY <1>1, <1>4 DEF Claim
    <2> QED BY <2>1 DEF Leased, Stamped, Row
  <1>7. \A s \in Subscriber : s \notin ClaimableSet => row'[s] = row[s]
    BY DEF Claim
  <1>8. \A s \in Subscriber : /\ row[s].id \in Nat /\ row[s].attempt \in Nat
                              /\ row[s].lastSent \in Nat /\ row[s].updatedAt \in Nat
                              /\ row[s].zone \in Int /\ row[s].lastSent <= now
    <2>1. \A s \in Subscriber : row[s].lastSent <= now
      BY DEF LeaseInv, NothingFromTheFuture
    <2> QED BY <1>1, <2>1, ZoneFacts DEF Row
  <1>9. \A s, t \in Subscriber : row[s].id # 0 /\ row[s].id = row[t].id => s = t
    BY DEF LeaseInv, IdsGivenOut, Exists
  <1>10. \A s \in ClaimableSet :
             row[s].lastSent # Null => LocalDate(row[s].lastSent, row[s].zone)
                                          # LocalDate(now, row[s].zone)
    BY <1>4 DEF IsDue
  <1> HIDE DEF New
  <1>11. RowsInv'
    <2> SUFFICES ASSUME NEW s \in Subscriber, NEW g \in grants',
                        row'[s].id # 0, g.id = row'[s].id
                 PROVE  /\ g.lock # row'[s].lock =>
                              \/ now' - g.at >= StaleAfter
                              \/ row'[s].lastSent # Null /\ g.at <= row'[s].lastSent
                              \/ JobOf(g) \in Spent'
                        /\ g.lock = row'[s].lock => g.at <= row'[s].updatedAt
                        /\ \/ g.attempt <= row'[s].attempt
                           \/ row'[s].lastSent # Null /\ g.at <= row'[s].lastSent
      BY DEF RowsInv
    <2>1. CASE g \in grants /\ s \in ClaimableSet
      <3>1. /\ g.lock # row[s].lock => \/ now - g.at >= StaleAfter
                                       \/ row[s].lastSent # Null /\ g.at <= row[s].lastSent
                                       \/ JobOf(g) \in Spent
            /\ g.lock = row[s].lock => g.at <= row[s].updatedAt
            /\ \/ g.attempt <= row[s].attempt
               \/ row[s].lastSent # Null /\ g.at <= row[s].lastSent
        BY <1>6, <2>1 DEF RowsInv
      <3>2. g.lock # NoLock
        BY <2>1, LeaseAssumption DEF TypeInv, TypeOK, Grant
      <3> QED BY <3>1, <3>2, <1>1, <1>2, <1>3, <1>4, <1>6, <1>8, <2>1
    <2>2. CASE g \in grants /\ s \notin ClaimableSet
      BY <2>2, <1>3, <1>7 DEF RowsInv
    <2>3. CASE g \notin grants
      <3>1. PICK t \in ClaimableSet : g = New(t)
        BY <2>3, <1>3
      <3>2. t = s
        BY <3>1, <1>4, <1>5, <1>6, <1>7, <1>9
      <3> QED BY <3>1, <3>2, <1>1, <1>5, <1>6, <1>8
    <2> QED BY <2>1, <2>2, <2>3
  <1>12. ClaimsInv'
    <2> SUFFICES ASSUME NEW g1 \in grants', NEW g2 \in grants',
                        g1.id = g2.id, ClaimedBefore(g1, g2)
                 PROVE  \/ g2.at - g1.at >= StaleAfter
                        \/ LocalDate(g1.at, g2.zone) # LocalDate(g2.at, g2.zone)
                        \/ JobOf(g1) \in Spent'
      BY DEF ClaimsInv
    <2>1. CASE g1 \in grants /\ g2 \in grants
      BY <2>1 DEF ClaimsInv
    <2>2. CASE g1 \in grants /\ g2 \notin grants
      <3>1. PICK s \in ClaimableSet : g2 = New(s)
        BY <2>2, <1>3
      <3>2. /\ g1.lock # row[s].lock => \/ now - g1.at >= StaleAfter
                                        \/ row[s].lastSent # Null /\ g1.at <= row[s].lastSent
                                        \/ JobOf(g1) \in Spent
            /\ g1.lock = row[s].lock => g1.at <= row[s].updatedAt
        BY <3>1, <2>2, <1>4, <1>5 DEF RowsInv
      <3>3. g1.lock # NoLock
        BY <2>2, LeaseAssumption DEF TypeInv, TypeOK, Grant
      <3>4. CASE g1.lock = row[s].lock
        BY <3>1, <3>2, <3>3, <3>4, <1>1, <1>2, <1>4, <1>5, <1>8, <2>2
      <3>5. CASE row[s].lastSent # Null /\ g1.at <= row[s].lastSent
        <4> DEFINE last == row[s].lastSent
                   zone == row[s].zone
        <4>1. /\ g1.at \in Int /\ last \in Int /\ now \in Int /\ zone \in Int
              /\ g1.at <= last /\ last <= now
          BY <3>5, <1>1, <1>2, <1>4, <1>8, <2>2
        <4>2. LocalDate(last, zone) # LocalDate(now, zone)
          BY <3>5, <1>10
        <4>3. g2.at = now /\ g2.zone = zone
          BY <3>1, <1>5
        <4> HIDE DEF last, zone
        <4>4. /\ LocalDate(g1.at, zone) <= LocalDate(last, zone)
              /\ LocalDate(g1.at, zone) \in Int
          BY <4>1, LocalDateMonotone
        <4>5. /\ LocalDate(last, zone) <= LocalDate(now, zone)
              /\ LocalDate(last, zone) \in Int
          BY <4>1, LocalDateMonotone
        <4>6. LocalDate(now, zone) \in Int
          BY <4>1, LocalDateMonotone
        <4> QED BY <4>2, <4>3, <4>4, <4>5, <4>6
      <3> QED BY <3>1, <3>2, <3>4, <3>5, <1>5
    <2>3. CASE g1 \notin grants /\ g2 \in grants
      <3>1. PICK s \in ClaimableSet : g1 = New(s)
        BY <2>3, <1>3
      <3>2. g1.at = now /\ g1.attempt = row[s].attempt + 1 /\ g2.id = row[s].id
        BY <3>1, <1>5
      <3>3. g2.at = now /\ row[s].attempt + 1 < g2.attempt
        BY <3>2, <2>3, <1>1, <1>2 DEF ClaimedBefore
      <3>4. \/ g2.attempt <= row[s].attempt
            \/ row[s].lastSent # Null /\ g2.at <= row[s].lastSent
        BY <3>1, <3>2, <2>3, <1>4 DEF RowsInv
      <3>5. row[s].lastSent # Null /\ row[s].lastSent = now
        BY <3>3, <3>4, <1>1, <1>2, <1>4, <1>8, <2>3
      <3> QED BY <3>5, <1>10
    <2>4. CASE g1 \notin grants /\ g2 \notin grants
      <3>1. PICK s \in ClaimableSet : g1 = New(s)
        BY <2>4, <1>3
      <3>2. PICK t \in ClaimableSet : g2 = New(t)
        BY <2>4, <1>3
      <3>3. s = t
        BY <3>1, <3>2, <1>4, <1>5, <1>9
      <3>4. g1.at \in Nat /\ g1.attempt \in Nat
        BY <3>1, <1>1, <1>4, <1>5, <1>8
      <3> QED BY <3>1, <3>2, <3>3, <3>4 DEF ClaimedBefore
    <2> QED BY <2>1, <2>2, <2>3, <2>4
  <1> QED BY <1>11, <1>12

-----------------------------------------------------------------------------
(* One worker has a claim in hand, once                                    *)

HandsSafe == HandsInv /\ FailuresInv

LEMMA AtHandWasClaimed ==
    ASSUME WorkerSafe, NEW w \in Worker
    PROVE  AtHand(w) \subseteq Claimed
  BY DEF WorkerSafe, WorkersInv, AtHand, Busy

\* Subscriptions leave a worker's hand, perhaps by a message.
LEMMA HandsEmpty ==
    ASSUME WorkerSafe, HandsInv, Onward,
           \A w \in Worker : AtHand(w)' \subseteq AtHand(w),
           \A w \in Worker : pc'[w] \in WorkStep => job'[w] \notin hand'[w],
           \A m \in sent' : m \in sent \/ /\ \E w \in Worker : m.job \in AtHand(w)
                                          /\ \A v \in Worker : m.job \notin AtHand(v)'
    PROVE  HandsInv' /\ Spent \subseteq Spent'
  <1>1. Spent \subseteq Spent'
    <2> SUFFICES ASSUME NEW j \in Spent
                 PROVE  /\ j \in Claimed' /\ \A w \in Worker : j \notin AtHand(w)'
                        /\ \A m \in sent' : m.job = j => m.ambiguous
      BY DEF Spent
    <2> QED BY DEF Spent, Onward
  <1>2. \A w \in Worker :
            /\ \A v \in Worker : AtHand(w)' \cap AtHand(v)' # {} => w = v
            /\ pc'[w] \in WorkStep => job'[w] \notin hand'[w]
            /\ \A m \in sent' : m.job \notin AtHand(w)'
    BY DEF HandsInv
  <1>3. \A m \in sent' : m.job \in Claimed'
    BY AtHandWasClaimed DEF HandsInv, Onward
  <1> QED BY <1>1, <1>2, <1>3 DEF HandsInv

\* A worker that moves on to report a failure has nothing to show for the claim.
LEMMA MovingOnReports ==
    ASSUME WorkerSafe, FailuresInv, Spent \subseteq Spent',
           NEW w \in Worker, NEW next, NEW rest \in SUBSET net,
           MoveOn(w, next, rest), job' = job,
           next \in {"delete", "nack"} => job[w] \in Spent'
    PROVE  FailuresInv'
  <1> DEFINE call == CallOf(w, next, 0)
  <1>1. pc' = [pc EXCEPT ![w] = next] /\ pc \in [Worker -> Step]
    BY DEF MoveOn, WorkerSafe, WorkerTypeOK
  <1>2. call.op = next /\ call.job = job[w]
    BY DEF CallOf
  <1>3. net' \subseteq rest \cup {call}
    BY DEF MoveOn
  <1> HIDE DEF call
  <1>4. \A v \in Worker : pc'[v] \in {"delete", "nack"} => job'[v] \in Spent'
    <2> SUFFICES ASSUME NEW v \in Worker, pc'[v] \in {"delete", "nack"}
                 PROVE  job[v] \in Spent'
      OBVIOUS
    <2>1. CASE v = w
      BY <2>1, <1>1
    <2>2. CASE v # w
      BY <2>2, <1>1 DEF FailuresInv
    <2> QED BY <2>1, <2>2
  <1>5. \A m \in net' : m.op = "nack" => m.job \in Spent'
    BY <1>2, <1>3 DEF FailuresInv
  <1> QED BY <1>4, <1>5 DEF FailuresInv

\* A call ends.
LEMMA CallEnds ==
    ASSUME WorkerSafe, HandsSafe, Onward, NEW w \in Worker, pc[w] \in CallStep,
           NEW next \in {"idle", "loop", After(pc[w])}, NEW rest \in SUBSET net,
           MoveOn(w, next, rest), UNCHANGED <<hand, job, sent>>
    PROVE  HandsSafe' /\ Spent \subseteq Spent'
  <1>1. next \notin WorkStep /\ (next \in {"delete", "nack"} => pc[w] = "delete")
    BY DEF After, CallStep, WorkStep
  <1>2. pc' = [pc EXCEPT ![w] = next] /\ pc \in [Worker -> Step]
    BY DEF MoveOn, WorkerSafe, WorkerTypeOK
  <1>3. \A v \in Worker : pc'[v] \in WorkStep => pc[v] \in WorkStep
    BY <1>1, <1>2
  <1>4. HandsInv' /\ Spent \subseteq Spent'
    <2>1. \A v \in Worker : AtHand(v)' \subseteq AtHand(v)
      BY <1>3 DEF AtHand
    <2>2. \A v \in Worker : pc'[v] \in WorkStep => job'[v] \notin hand'[v]
      BY <1>3 DEF HandsSafe, HandsInv
    <2> QED BY <2>1, <2>2, HandsEmpty DEF HandsSafe
  <1>5. next \in {"delete", "nack"} => job[w] \in Spent'
    BY <1>1, <1>4 DEF HandsSafe, FailuresInv
  <1>6. FailuresInv'
    BY <1>4, <1>5, MovingOnReports DEF HandsSafe
  <1> QED BY <1>4, <1>6 DEF HandsSafe

\* A call is repeated.
LEMMA CallIsRepeated ==
    ASSUME WorkerSafe, HandsSafe, Onward, NEW w \in Worker, Retry(w),
           UNCHANGED <<hand, job, sent>>
    PROVE  HandsSafe' /\ Spent \subseteq Spent'
  <1> DEFINE call == CallOf(w, pc[w], tries[w] + 1)
  <1>1. pc' = pc /\ net' = net \cup {call} /\ call.op = pc[w] /\ call.job = job[w]
    BY DEF Retry, CallOf
  <1> HIDE DEF call
  <1>2. HandsInv' /\ Spent \subseteq Spent'
    <2>1. \A v \in Worker : AtHand(v)' \subseteq AtHand(v)
      BY <1>1 DEF AtHand
    <2> QED BY <1>1, <2>1, HandsEmpty DEF HandsSafe, HandsInv
  <1>3. FailuresInv'
    BY <1>1, <1>2 DEF HandsSafe, FailuresInv
  <1> QED BY <1>2, <1>3 DEF HandsSafe

\* A worker is done with the subscription in work: it has sent the digest, or
\* has failed to and reports that, the message delivered or not.
LEMMA WorkEnds ==
    ASSUME WorkerSafe, HandsSafe, Onward, NEW w \in Worker, pc[w] \in WorkStep,
           NEW next \in {"ack", "nack", "delete", "loop"}, MoveOn(w, next, net),
           UNCHANGED <<hand, job>>, sent \subseteq sent',
           \A m \in sent' \ sent : m.job = job[w] /\ (next # "ack" => m.ambiguous)
    PROVE  HandsSafe' /\ Spent \subseteq Spent'
  <1>1. pc' = [pc EXCEPT ![w] = next] /\ pc \in [Worker -> Step] /\ next \notin WorkStep
    BY DEF MoveOn, WorkerSafe, WorkerTypeOK, WorkStep
  <1>2. AtHand(w)' = hand[w] /\ \A v \in Worker : AtHand(v)' \subseteq AtHand(v)
    BY <1>1 DEF AtHand
  <1>3. job[w] \in AtHand(w)
    BY DEF AtHand
  <1>4. \A v \in Worker : job[w] \notin AtHand(v)'
    BY <1>2, <1>3 DEF HandsSafe, HandsInv
  <1>5. HandsInv' /\ Spent \subseteq Spent'
    <2>1. \A v \in Worker : pc'[v] \in WorkStep => job'[v] \notin hand'[v]
      BY <1>1 DEF HandsSafe, HandsInv
    <2>2. \A m \in sent' : m \in sent \/ /\ \E v \in Worker : m.job \in AtHand(v)
                                         /\ \A v \in Worker : m.job \notin AtHand(v)'
      BY <1>3, <1>4
    <2> QED BY <1>2, <2>1, <2>2, HandsEmpty DEF HandsSafe
  <1>6. next # "ack" => job[w] \in Spent'
    <2>1. job[w] \in Claimed'
      BY <1>3, AtHandWasClaimed DEF Onward
    <2>2. \A m \in sent : m.job # job[w]
      BY <1>3 DEF HandsSafe, HandsInv
    <2> QED BY <1>4, <2>1, <2>2 DEF Spent
  <1>7. FailuresInv'
    BY <1>5, <1>6, MovingOnReports DEF HandsSafe
  <1> QED BY <1>5, <1>7 DEF HandsSafe

\* The rest of a tick.
LEMMA TickKeepsHands ==
    ASSUME WorkerSafe, HandsSafe, Onward, NEW w \in Worker,
           \/ StartClaim(w) \/ NextJob(w) \/ EndTick(w) \/ Preview(w)
           \/ Crash(w) \/ Restart(w)
    PROVE  HandsSafe' /\ Spent \subseteq Spent'
  <1>1. \A v \in Worker : /\ v # w => pc'[v] = pc[v] /\ hand'[v] = hand[v] /\ job'[v] = job[v]
                          /\ AtHand(v)' \subseteq AtHand(v)
                          /\ pc'[v] \in WorkStep => job'[v] \notin hand'[v]
    <2>0. /\ pc \in [Worker -> Step] /\ hand \in [Worker -> SUBSET Job]
          /\ job \in [Worker -> Job \cup {NoJob}]
      BY DEF WorkerSafe, WorkerTypeOK
    <2> SUFFICES ASSUME NEW v \in Worker
                 PROVE  /\ v # w => pc'[v] = pc[v] /\ hand'[v] = hand[v] /\ job'[v] = job[v]
                        /\ AtHand(v)' \subseteq AtHand(v)
                        /\ pc'[v] \in WorkStep => job'[v] \notin hand'[v]
      OBVIOUS
    <2>1. v # w => pc'[v] = pc[v] /\ hand'[v] = hand[v] /\ job'[v] = job[v]
      BY <2>0 DEF StartClaim, MoveOn, NextJob, EndTick, Preview, Crash, Restart
    <2>2. CASE v # w
      BY <2>1, <2>2 DEF AtHand, HandsSafe, HandsInv
    <2>3. CASE v = w /\ NextJob(w)
      <3>1. PICK j \in hand[w] : job'[w] = j /\ hand'[w] = hand[w] \ {j} /\ pc'[w] = "preview"
        BY <2>0, <2>3 DEF NextJob
      <3> QED BY <2>3, <3>1 DEF AtHand
    <2>4. CASE v = w /\ Preview(w)
      <3>1. /\ pc[w] \in WorkStep /\ pc'[w] \in WorkStep
            /\ hand'[w] = hand[w] /\ job'[w] = job[w]
        BY <2>0, <2>4 DEF Preview, WorkStep
      <3> QED BY <2>4, <3>1 DEF AtHand, HandsSafe, HandsInv
    <2>5. CASE v = w /\ (StartClaim(w) \/ EndTick(w) \/ Crash(w) \/ Restart(w))
      <3>1. pc'[w] \notin WorkStep /\ hand'[w] \subseteq hand[w]
        BY <2>0, <2>5 DEF StartClaim, MoveOn, EndTick, Crash, Restart, WorkStep
      <3> QED BY <2>5, <3>1 DEF AtHand
    <2> QED BY <2>1, <2>2, <2>3, <2>4, <2>5
  <1>2. sent' = sent
    BY DEF StartClaim, NextJob, EndTick, Preview, Crash, Restart
  <1>3. HandsInv' /\ Spent \subseteq Spent'
    BY <1>1, <1>2, HandsEmpty DEF HandsSafe
  <1>4. CASE StartClaim(w)
    <2>1. FailuresInv'
      BY <1>3, <1>4, MovingOnReports DEF StartClaim, HandsSafe
    <2> QED BY <1>3, <2>1 DEF HandsSafe
  <1>5. CASE NextJob(w) \/ EndTick(w) \/ Preview(w) \/ Crash(w) \/ Restart(w)
    <2>1. net' = net /\ pc'[w] \notin {"delete", "nack"}
      BY <1>5 DEF NextJob, EndTick, Preview, Crash, Restart, WorkerSafe, WorkerTypeOK
    <2>2. FailuresInv'
      BY <1>1, <1>3, <2>1 DEF HandsSafe, FailuresInv
    <2> QED BY <1>3, <2>2 DEF HandsSafe
  <1> QED BY <1>4, <1>5

\* A request or its answer disappears.
LEMMA GoneKeepsHands ==
    ASSUME WorkerSafe, HandsSafe, Onward, net' \subseteq net,
           UNCHANGED <<pc, hand, job, sent>>
    PROVE  HandsSafe' /\ Spent \subseteq Spent'
  <1>1. \A w \in Worker : AtHand(w)' \subseteq AtHand(w)
    BY DEF AtHand
  <1>2. HandsInv' /\ Spent \subseteq Spent'
    BY <1>1, HandsEmpty DEF HandsSafe, HandsInv
  <1>3. FailuresInv'
    BY <1>2 DEF HandsSafe, FailuresInv
  <1> QED BY <1>2, <1>3 DEF HandsSafe

\* The locks of a claim's answer are new, so nobody else has them.
LEMMA AnsweredClaimKeepsHands ==
    ASSUME WorkerSafe, HandsSafe, Onward, NEW m \in net, ServeClaim(m)
    PROVE  HandsSafe' /\ Spent \subseteq Spent'
  <1>1. PICK choice \in [ClaimableSet -> Lock \ Issued] :
            /\ Claim(choice)
            /\ Respond(m, {[sub |-> s, lock |-> choice[s]] : s \in ClaimableSet})
    BY DEF ServeClaim
  <1> DEFINE claimed == {[sub |-> s, lock |-> choice[s]] : s \in ClaimableSet}
             w == m.from
  <1>2. claimed \cap Claimed = {}
    <2> SUFFICES ASSUME NEW s \in ClaimableSet
                 PROVE  [sub |-> s, lock |-> choice[s]] \notin Claimed
      OBVIOUS
    <2>1. choice[s] \notin Issued
      OBVIOUS
    <2> QED BY <2>1 DEF Claimed, Issued
  <1>3. claimed \subseteq Claimed'
    BY <1>1, ClaimAnswersGrants
  <1>4. Respond(m, claimed) /\ m.op = "claim" /\ w \in Worker
    BY <1>1 DEF ServeClaim, WorkerSafe, WorkerTypeOK, Request
  <1> HIDE DEF claimed, w
  <1>5. CASE net' = net \ {m} /\ UNCHANGED <<pc, hand, job, tries, sent>>
    BY <1>5, GoneKeepsHands
  <1>6. CASE /\ Waiting(m) /\ hand' = [hand EXCEPT ![w] = @ \cup claimed]
             /\ MoveOn(w, "loop", net \ {m}) /\ UNCHANGED <<job, sent>>
    <2>1. pc' = [pc EXCEPT ![w] = "loop"] /\ pc \in [Worker -> Step]
          /\ hand \in [Worker -> SUBSET Job]
      BY <1>6 DEF MoveOn, WorkerSafe, WorkerTypeOK
    <2>2. /\ AtHand(w)' \subseteq AtHand(w) \cup claimed
          /\ \A v \in Worker : v # w => AtHand(v)' = AtHand(v)
      BY <1>4, <1>6, <2>1 DEF AtHand, WorkStep
    <2>3. \A v \in Worker : claimed \cap AtHand(v) = {}
      BY <1>2, AtHandWasClaimed
    <2>4. Spent \subseteq Spent'
      <3> SUFFICES ASSUME NEW j \in Spent
                   PROVE  /\ j \in Claimed' /\ \A v \in Worker : j \notin AtHand(v)'
                          /\ \A n \in sent' : n.job = j => n.ambiguous
        BY DEF Spent
      <3>1. j \in Claimed /\ j \notin claimed
        BY <1>2 DEF Spent
      <3> QED BY <1>4, <1>6, <2>2, <3>1 DEF Spent, Onward
    <2>5. HandsInv'
      <3>1. \A u, v \in Worker : AtHand(u)' \cap AtHand(v)' # {} => u = v
        BY <1>4, <2>2, <2>3 DEF HandsSafe, HandsInv
      <3>2. \A v \in Worker : pc'[v] \in WorkStep => job'[v] \notin hand'[v]
        BY <1>4, <1>6, <2>1 DEF HandsSafe, HandsInv, WorkStep
      <3>3. \A v \in Worker : \A n \in sent' : n.job \notin AtHand(v)'
        BY <1>2, <1>4, <1>6, <2>2 DEF HandsSafe, HandsInv
      <3>4. \A n \in sent' : n.job \in Claimed'
        BY <1>6 DEF HandsSafe, HandsInv, Onward
      <3> QED BY <3>1, <3>2, <3>3, <3>4 DEF HandsInv
    <2>6. FailuresInv'
      BY <1>4, <1>6, <2>4, MovingOnReports DEF HandsSafe
    <2> QED BY <2>4, <2>5, <2>6 DEF HandsSafe
  <1> QED BY <1>4, <1>5, <1>6 DEF Respond, w

\* So it is with the other calls.
LEMMA AnsweredCallKeepsHands ==
    ASSUME WorkerSafe, HandsSafe, Onward, NEW m \in net,
           ServeAck(m) \/ ServeDelete(m) \/ Refuse(m) \/ LoseRequest(m)
    PROVE  HandsSafe' /\ Spent \subseteq Spent'
  <1>1. m.from \in Worker /\ m.op \in CallStep
    BY DEF WorkerSafe, WorkerTypeOK, Request
  <1>2. CASE net' = net \ {m} /\ UNCHANGED <<pc, hand, job, sent>>
    BY <1>2, GoneKeepsHands
  <1>3. ASSUME Waiting(m), NEW next \in {"loop", After(m.op)},
               MoveOn(m.from, next, net \ {m}), UNCHANGED <<hand, job, sent>>
        PROVE  HandsSafe' /\ Spent \subseteq Spent'
    <2>1. pc[m.from] = m.op
      BY <1>3 DEF Waiting, Pending, CallOf
    <2> QED BY <1>1, <1>3, <2>1, CallEnds
  <1>4. CASE Refuse(m)
    BY <1>3, <1>4 DEF Refuse
  <1>5. CASE LoseRequest(m)
    BY <1>2, <1>5 DEF LoseRequest
  <1>6. CASE ServeAck(m) \/ ServeDelete(m)
    <2>1. Respond(m, {})
      BY <1>6 DEF ServeAck, ServeDelete
    <2>2. CASE /\ Waiting(m) /\ hand' = [hand EXCEPT ![m.from] = @ \cup {}]
               /\ MoveOn(m.from, IF m.op = "claim" THEN "loop" ELSE After(m.op), net \ {m})
               /\ UNCHANGED <<job, sent>>
      <3>1. hand' = hand
        BY <1>1, <2>2 DEF WorkerSafe, WorkerTypeOK
      <3> QED BY <1>3, <2>2, <3>1
    <2> QED BY <1>2, <2>1, <2>2 DEF Respond
  <1> QED BY <1>4, <1>5, <1>6

LEMMA DeliveryKeepsHands ==
    ASSUME WorkerSafe, HandsSafe, Onward, [DeliveryNext]_vars
    PROVE  HandsSafe' /\ Spent \subseteq Spent'
  <1>1. ASSUME Environment \/ UNCHANGED vars PROVE HandsSafe' /\ Spent \subseteq Spent'
    BY <1>1, GoneKeepsHands DEF Environment, workerVars, vars
  <1>2. ASSUME NEW w \in Worker, Unanswered(w) \/ TimeOut(w)
        PROVE  HandsSafe' /\ Spent \subseteq Spent'
    BY <1>2, CallEnds, CallIsRepeated DEF Unanswered, TimeOut, NoAnswer, GiveUp
  <1>3. ASSUME NEW w \in Worker, Send(w) \/ SendAmbiguous(w) \/ Fail(w) \/ SendForbidden(w)
        PROVE  HandsSafe' /\ Spent \subseteq Spent'
    <2>1. CASE Send(w)
      <3>1. \A m \in sent' \ sent : m.job = job[w]
        BY <2>1 DEF Send
      <3> QED BY <2>1, <3>1, WorkEnds DEF Send, WorkStep
    <2>2. CASE SendAmbiguous(w)
      <3>1. \A m \in sent' \ sent : m.job = job[w] /\ m.ambiguous
        BY <2>2 DEF SendAmbiguous
      <3> QED BY <2>2, <3>1, WorkEnds DEF SendAmbiguous, WorkStep, AfterFailure
    <2>3. CASE Fail(w) \/ SendForbidden(w)
      BY <2>3, WorkEnds DEF Fail, SendForbidden, WorkStep, AfterFailure
    <2> QED BY <1>3, <2>1, <2>2, <2>3
  <1>4. ASSUME NEW w \in Worker, Work(w) \/ Trouble(w) \/ Restart(w)
        PROVE  HandsSafe' /\ Spent \subseteq Spent'
    BY <1>2, <1>3, <1>4, TickKeepsHands DEF Work, Trouble
  <1>5. ASSUME NEW m \in net, Serve(m) \/ Refuse(m) \/ LoseRequest(m)
        PROVE  HandsSafe' /\ Spent \subseteq Spent'
    BY <1>5, AnsweredClaimKeepsHands, AnsweredCallKeepsHands DEF Serve
  <1> QED BY <1>1, <1>4, <1>5 DEF DeliveryNext

-----------------------------------------------------------------------------
(* Every claim explained                                                   *)

ClaimedInv == RowsInv /\ ClaimsInv

LEMMA DeliveryKeepsClaims ==
    ASSUME DeliveryInv, LeaseInv, HandsSafe, ClaimedInv, Spent \subseteq Spent',
           [DeliveryNext]_vars
    PROVE  ClaimedInv'
  <1> USE DEF ClaimedInv
  <1>1. TypeInv /\ RequestsInv
    BY DEF DeliveryInv
  <1>2. ASSUME UNCHANGED leaseVars PROVE ClaimedInv'
    BY <1>1, <1>2, TimePasses
  <1>3. CASE Environment
    <2>1. ASSUME NEW s \in Subscriber, UserRequest(s) PROVE ClaimedInv'
      BY <1>1, <2>1, OneRowAtATime DEF UserRequest
    <2> QED BY <1>1, <1>3, <2>1, TimePasses DEF Environment
  <1>4. ASSUME NEW w \in Worker, Work(w) \/ Trouble(w) \/ Restart(w)
        PROVE  UNCHANGED leaseVars
    <2>1. CASE Work(w)
      BY <2>1 DEF Work, StartClaim, Unanswered, NoAnswer, NextJob, EndTick, Preview, Send
    <2>2. CASE Trouble(w)
      BY <2>2 DEF Trouble, TimeOut, NoAnswer, Fail, SendAmbiguous, SendForbidden, Crash
    <2> QED BY <1>4, <2>1, <2>2 DEF Restart
  <1>5. ASSUME NEW m \in net, ServeAck(m) PROVE ClaimedInv'
    <2>1. CASE m.op = "ack" /\ AckSent(m.job.sub, m.job.lock)
      <3>1. m.job.sub \in Subscriber /\ m.job.lock \in Lock
        BY <1>1, <2>1 DEF RequestsInv, Claimed, Job
      <3> QED BY <1>1, <2>1, <3>1, OneRowAtATime
    <2>2. CASE m.op = "nack" /\ AckFailed(m.job.sub, m.job.lock)
      <3>1. m.job \in Spent /\ m.job.sub \in Subscriber
        BY <1>1, <2>2 DEF RequestsInv, Claimed, Job, HandsSafe, FailuresInv
      <3> QED BY <1>1, <2>2, <3>1, OneRowAtATime
    <2> QED BY <1>2, <1>5, <2>1, <2>2 DEF ServeAck
  <1>6. ASSUME NEW m \in net, ServeDelete(m) PROVE ClaimedInv'
    <2>1. m.job.sub \in Subscriber
      BY <1>1, <1>6 DEF RequestsInv, Claimed, Job, ServeDelete
    <2> QED BY <1>1, <1>2, <1>6, <2>1, OneRowAtATime DEF ServeDelete
  <1>7. ASSUME NEW m \in net, ServeClaim(m) PROVE ClaimedInv'
    BY <1>1, <1>7, ClaimingExplains DEF ServeClaim
  <1>8. ASSUME NEW m \in net, Refuse(m) \/ LoseRequest(m) PROVE UNCHANGED leaseVars
    BY <1>8 DEF Refuse, LoseRequest
  <1>9. CASE UNCHANGED vars
    BY <1>2, <1>9 DEF vars
  <1> QED BY <1>2, <1>3, <1>4, <1>5, <1>6, <1>7, <1>8, <1>9 DEF DeliveryNext, Serve

\* Through the refinement, the lease's invariant.
LEMMA DeliveryKeepsLease == DeliverySpec => []LeaseInv
  BY DeliveryImplementsLease, LeaseIsSafe, PTL DEF LeaseSpec

\* Every claim is in one worker's hand, or sent, or came to nothing.
LEMMA ClaimsAccounted == DeliverySpec => [](HandsSafe /\ ClaimedInv)
  <1> DEFINE Inv == HandsSafe /\ ClaimedInv
  <1>1. DeliveryInit => Inv
    <2> SUFFICES ASSUME DeliveryInit PROVE Inv
      OBVIOUS
    <2>1. HandsSafe
      BY DEF DeliveryInit, HandsSafe, HandsInv, FailuresInv, AtHand, WorkStep
    <2>2. ClaimedInv
      BY DEF DeliveryInit, Init, ClaimedInv, RowsInv, ClaimsInv
    <2> QED BY <2>1, <2>2
  <1>2. DeliveryInv /\ LeaseInv /\ Inv /\ [DeliveryNext]_vars => Inv'
    <2> SUFFICES ASSUME DeliveryInv, LeaseInv, Inv, [DeliveryNext]_vars PROVE Inv'
      OBVIOUS
    <2>1. WorkerSafe
      BY DEF DeliveryInv, WorkerSafe
    <2>2. Onward
      BY DeliveryStepIsLeaseStep, NothingIsUndone, SentGrows DEF DeliveryInv
    <2>3. HandsSafe' /\ Spent \subseteq Spent'
      BY <2>1, <2>2, DeliveryKeepsHands
    <2> QED BY <2>3, DeliveryKeepsClaims
  <1> HIDE DEF Inv
  <1>3. DeliverySpec => []Inv
    BY <1>1, <1>2, DeliveryKeepsLease, DeliveryIsSafe, PTL DEF DeliverySpec
  <1> QED BY <1>3 DEF Inv

\* A second digest from one row has one of the reasons DuplicateOnlyIfExplained
\* lists, for every number of workers, lost calls, crashes and settings.
THEOREM DuplicatesAreExplained == DeliverySpec => []DuplicateOnlyIfExplained
  <1>1. DeliveryInv /\ LeaseInv /\ HandsSafe /\ ClaimedInv => DuplicateOnlyIfExplained
    <2> SUFFICES ASSUME DeliveryInv, LeaseInv, HandsSafe, ClaimedInv, NEW m1 \in sent, NEW m2 \in sent,
                        NEW g1, NEW g2,
                        g1 = GrantWith(m1.job.lock), g2 = GrantWith(m2.job.lock),
                        g1.id = g2.id, ClaimedBefore(g1, g2)
                 PROVE  \/ m1.ambiguous
                        \/ g2.at - g1.at >= StaleAfter
                        \/ LocalDate(g1.at, g2.zone) # LocalDate(g2.at, g2.zone)
      BY DEF DuplicateOnlyIfExplained
    <2>1. m1.job \in Claimed /\ m2.job \in Claimed
      BY DEF HandsSafe, HandsInv
    <2>2. /\ g1 \in grants /\ g1.lock = m1.job.lock
          /\ g2 \in grants /\ g2.lock = m2.job.lock
      BY <2>1 DEF Claimed, GrantWith
    <2>3. JobOf(g1) = m1.job
      <3>1. \E g \in grants : g.sub = m1.job.sub /\ g.lock = m1.job.lock
        BY <2>1 DEF Claimed
      <3>2. g1.sub = m1.job.sub
        BY <2>2, <3>1 DEF LeaseInv, LockIsFresh
      <3> QED BY <2>1, <2>2, <3>2 DEF JobOf, Claimed, Job
    <2>4. JobOf(g1) \in Spent => m1.ambiguous
      BY <2>3 DEF Spent
    <2> QED BY <2>2, <2>4 DEF ClaimedInv, ClaimsInv
  <1> QED BY <1>1, ClaimsAccounted, DeliveryKeepsLease, DeliveryIsSafe, PTL

-----------------------------------------------------------------------------
(* Duplicates counted                                                      *)

\* A claim is sent once: whoever has it in hand has it alone, and not yet sent.
SentOnce == \A m1, m2 \in sent : m1.job = m2.job => m1 = m2

LEMMA SendingSendsOnce ==
    ASSUME HandsSafe, SentOnce, [DeliveryNext]_vars PROVE SentOnce'
  <1>1. CASE sent' = sent
    BY <1>1 DEF SentOnce
  <1>2. ASSUME NEW w \in Worker, Send(w) \/ SendAmbiguous(w) PROVE SentOnce'
    <2>1. PICK n : sent' = sent \cup {n} /\ n.job = job[w]
      <3> DEFINE plain == [job |-> job[w], at |-> now, ambiguous |-> FALSE]
                 doubtful == [job |-> job[w], at |-> now, ambiguous |-> TRUE]
      <3>1. plain.job = job[w] /\ doubtful.job = job[w]
        OBVIOUS
      <3>2. sent' = sent \cup {plain} \/ sent' = sent \cup {doubtful}
        BY <1>2 DEF Send, SendAmbiguous
      <3> HIDE DEF plain, doubtful
      <3> QED BY <3>1, <3>2
    <2>2. job[w] \in AtHand(w)
      BY <1>2 DEF Send, SendAmbiguous, AtHand, WorkStep
    <2>3. \A m \in sent : m.job # n.job
      BY <2>1, <2>2 DEF HandsSafe, HandsInv
    <2> QED BY <2>1, <2>3 DEF SentOnce
  <1>3. ASSUME NEW w \in Worker, Work(w) \/ Trouble(w) \/ Restart(w),
               ~(Send(w) \/ SendAmbiguous(w))
        PROVE  sent' = sent
    BY <1>3 DEF Work, Trouble, StartClaim, Unanswered, NoAnswer, NextJob, EndTick, Preview,
                TimeOut, Fail, SendForbidden, Crash, Restart
  <1>4. ASSUME NEW m \in net, Serve(m) \/ Refuse(m) \/ LoseRequest(m) PROVE sent' = sent
    BY <1>4 DEF Serve, ServeClaim, ServeAck, ServeDelete, Respond, Refuse, LoseRequest
  <1> QED BY <1>1, <1>2, <1>3, <1>4 DEF DeliveryNext, Environment, workerVars, vars

\* Between two recorded deliveries a subscriber gets at most MaxAttempt digests, for every
\* number of workers, lost calls and crashes: each was sent under a claim of its own, and
\* the claims are numbered up to MaxAttempt.
THEOREM DuplicatesAreBounded == DeliverySpec => []DuplicatesBounded
  <1>1. DeliverySpec => []SentOnce
    <2>1. DeliveryInit => SentOnce
      BY DEF DeliveryInit, SentOnce
    <2>2. HandsSafe /\ SentOnce /\ [DeliveryNext]_vars => SentOnce'
      BY SendingSendsOnce
    <2> QED BY <2>1, <2>2, ClaimsAccounted, PTL DEF DeliverySpec
  <1>2. DeliverySpec => []AttemptsInv
    BY DeliveryImplementsLease, AttemptsAreNumbered, PTL DEF LeaseSpec
  <1>3. LeaseInv /\ HandsSafe /\ AttemptsInv /\ SentOnce => DuplicatesBounded
    <2> SUFFICES ASSUME LeaseInv, HandsSafe, AttemptsInv, SentOnce, NEW g \in grants
                 PROVE  Cardinality({ m \in sent : /\ GrantWith(m.job.lock).id = g.id
                                                   /\ GrantWith(m.job.lock).epoch = g.epoch })
                            <= MaxAttempt
      BY DEF DuplicatesBounded
    <2> DEFINE S == { m \in sent : /\ GrantWith(m.job.lock).id = g.id
                                   /\ GrantWith(m.job.lock).epoch = g.epoch }
               f == [m \in S |-> GrantWith(m.job.lock).attempt]
    <2>1. ASSUME NEW m \in sent
          PROVE  /\ m.job \in Job /\ GrantWith(m.job.lock) \in grants
                 /\ GrantWith(m.job.lock).lock = m.job.lock
                 /\ GrantWith(m.job.lock).sub = m.job.sub
      <3>1. m.job \in Job /\ \E h \in grants : h.sub = m.job.sub /\ h.lock = m.job.lock
        BY DEF HandsSafe, HandsInv, Claimed
      <3>2. GrantWith(m.job.lock) \in grants /\ GrantWith(m.job.lock).lock = m.job.lock
        BY <3>1 DEF GrantWith
      <3> QED BY <3>1, <3>2 DEF LeaseInv, LockIsFresh
    <2>2. f \in [S -> 1..MaxAttempt]
      BY <2>1 DEF AttemptsInv
    <2>3. ASSUME NEW a \in S, NEW b \in S, f[a] = f[b] PROVE a = b
      <3>1. GrantWith(a.job.lock) = GrantWith(b.job.lock)
        BY <2>1, <2>3 DEF AttemptsInv
      <3>2. a.job.lock = b.job.lock /\ a.job.sub = b.job.sub
        BY <2>1, <3>1
      <3>3. a.job = b.job
        BY <2>1, <3>2 DEF Job
      <3> QED BY <3>3 DEF SentOnce
    <2> HIDE DEF f, S
    <2>4. f \in Injection(S, 1..MaxAttempt)
      BY <2>2, <2>3 DEF Injection, IsInjective
    <2>5. /\ MaxAttempt \in Nat \ {0} /\ IsFiniteSet(1..MaxAttempt)
          /\ Cardinality(1..MaxAttempt) = MaxAttempt
      BY LeaseAssumption, FS_Interval
    <2>6. Cardinality(S) <= MaxAttempt
      BY <2>4, <2>5, FS_Injection
    <2> QED BY <2>6 DEF S
  <1> QED BY <1>1, <1>2, <1>3, ClaimsAccounted, DeliveryKeepsLease, PTL
=============================================================================
