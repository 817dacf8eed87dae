--------------------------- MODULE DigestDelivery ---------------------------
(***************************************************************************)
(* The digest worker (apps/digest_worker) delivering the weekly digests of *)
(* SubscriptionLease over an unreliable network.                           *)
(*                                                                         *)
(* A worker polls: it claims, then serves the claimed subscriptions one by *)
(* one: fetch the digest, send it to Telegram, acknowledge.  Its API calls *)
(* go through SkillraApiClient.request, which repeats a call that got no   *)
(* response: a request may be executed late, more than once, or never, and *)
(* the worker may give up on a request that the API still executes.        *)
(* Telegram may accept a message and the worker still see an error.        *)
(*                                                                         *)
(* sent is the set of digests Telegram delivered; ambiguous marks those    *)
(* whose send call failed all the same.                                    *)
(***************************************************************************)
EXTENDS SubscriptionLease

CONSTANTS
    Worker,          \* digest_worker processes
    MaxRetries,      \* the client's max_retries
    MaxFaults        \* bound on lost messages, crashes and ambiguous sends

ASSUME DeliveryAssumption == MaxRetries \in Nat /\ MaxFaults \in Nat

VARIABLES pc, hand, job, net, tries, sent, faults

workerVars == <<pc, hand, job, net, tries, sent, faults>>
vars == <<leaseVars, workerVars>>

\* The API call a worker is in, by the step of its program.
CallStep == {"claim", "delete", "nack", "ack"}
WorkStep == {"preview", "send"}
Step == {"idle", "loop", "down"} \cup WorkStep \cup CallStep

\* One claimed subscription of the claim response.
Job == [sub : Subscriber, lock : Lock]
NoJob == [sub |-> NoLock, lock |-> NoLock]

\* A request on its way to the API: the try-th attempt of worker from.
Request == [op : CallStep, from : Worker, job : Job \cup {NoJob}, try : 0..MaxRetries]

Message == [job : Job, at : Nat, ambiguous : BOOLEAN]

DeliveryTypeOK ==
    /\ TypeOK
    /\ pc \in [Worker -> Step]
    /\ hand \in [Worker -> SUBSET Job]
    /\ job \in [Worker -> Job \cup {NoJob}]
    /\ net \subseteq Request
    /\ tries \in [Worker -> 0..MaxRetries]
    /\ sent \subseteq Message
    /\ faults \in Nat

DeliveryInit ==
    /\ Init
    /\ pc = [w \in Worker |-> "idle"]
    /\ hand = [w \in Worker |-> {}]
    /\ job = [w \in Worker |-> NoJob]
    /\ net = {}
    /\ tries = [w \in Worker |-> 0]
    /\ sent = {}
    /\ faults = 0

Fault == faults < MaxFaults /\ faults' = faults + 1

-----------------------------------------------------------------------------
(* SkillraApiClient.request                                                *)

CallOf(w, op, n) == [op |-> op, from |-> w, job |-> job[w], try |-> n]

\* The request a worker is waiting on.
Pending(w) == CallOf(w, pc[w], tries[w])

\* Worker w goes to its step next, which may be an API call; rest are the
\* requests still under way.
MoveOn(w, next, rest) ==
    /\ pc' = [pc EXCEPT ![w] = next]
    /\ IF next \in CallStep
       THEN /\ net' = rest \cup {CallOf(w, next, 0)}
            /\ tries' = [tries EXCEPT ![w] = 0]
       ELSE net' = rest /\ UNCHANGED tries

\* The caller still waits for the answer to this very attempt.
Waiting(m) == Pending(m.from) = m

\* Mistake: a failed claim ends the polling.
AfterFatal(op) == CASE op = "claim"  -> "stopped"
                    [] op = "delete" -> "nack"
                    [] OTHER         -> "loop"

\* Where a worker goes once its call op is abandoned or refused: the worker
\* swallows every error of claim, delete, nack and ack.
After(op) == CASE op = "claim"  -> "idle"
               [] op = "delete" -> "nack"
               [] OTHER         -> "loop"

\* process_tick: the request of a new tick.
StartClaim(w) ==
    /\ pc[w] = "idle"
    /\ MoveOn(w, "claim", net)
    /\ UNCHANGED <<leaseVars, hand, job, sent, faults>>

\* A request or its response is lost, or the response comes after the timeout.
LoseRequest(m) ==
    /\ m \in net
    /\ Fault
    /\ net' = net \ {m}
    /\ UNCHANGED <<leaseVars, pc, hand, job, tries, sent>>

\* The client repeats the request.
Retry(w) ==
    /\ tries[w] < MaxRetries
    /\ tries' = [tries EXCEPT ![w] = @ + 1]
    /\ net' = net \cup {CallOf(w, pc[w], tries[w] + 1)}
    /\ UNCHANGED pc

\* The last attempt failed as well.
GiveUp(w) ==
    /\ tries[w] = MaxRetries
    /\ MoveOn(w, After(pc[w]), net)

NoAnswer(w) ==
    /\ pc[w] \in CallStep
    /\ Retry(w) \/ GiveUp(w)
    /\ UNCHANGED <<leaseVars, hand, job, sent>>

\* The request or its response was lost.
Unanswered(w) == Pending(w) \notin net /\ NoAnswer(w) /\ UNCHANGED faults

\* The timeout passes while the API still has the request.
TimeOut(w) == Pending(w) \in net /\ NoAnswer(w) /\ Fault

\* An answer that is not repeated (503, 401, 429): nothing was executed.
Refuse(m) ==
    /\ m \in net
    /\ Waiting(m)
    /\ Fault
    /\ MoveOn(m.from, After(m.op), net \ {m})
    /\ UNCHANGED <<leaseVars, hand, job, sent>>

-----------------------------------------------------------------------------
(* The API executes a request                                              *)

\* The response reaches the waiting worker, which moves on; or nobody waits for
\* it any more; or it is lost.
Respond(m, claimed) ==
    \/ /\ Waiting(m)
       /\ hand' = [hand EXCEPT ![m.from] = @ \cup claimed]
       /\ MoveOn(m.from, IF m.op = "claim" THEN "loop" ELSE After(m.op), net \ {m})
       /\ UNCHANGED <<job, sent, faults>>
    \/ /\ IF Waiting(m) THEN Fault ELSE UNCHANGED faults
       /\ net' = net \ {m}
       /\ UNCHANGED <<pc, hand, job, tries, sent>>

ServeClaim(m) ==
    /\ m \in net
    /\ m.op = "claim"
    /\ \E choice \in [ClaimableSet -> Lock \ Issued] :
          /\ Claim(choice)
          /\ Respond(m, {[sub |-> s, lock |-> choice[s]] : s \in ClaimableSet})

\* ack-sent and ack-failed: 200, or 404 / 409 when the lease is gone.
ServeAck(m) ==
    /\ m \in net
    /\ \/ m.op = "ack" /\ AckSent(m.job.sub, m.job.lock)
       \/ m.op = "nack" /\ AckFailed(m.job.sub, m.job.lock)
       \/ /\ m.op \in {"ack", "nack"}
          /\ ~HoldsLease(m.job.sub, m.job.lock)
          /\ UNCHANGED leaseVars
    /\ Respond(m, {})

\* Mistake: the row is only switched off.
ServeDeleteBySwitchingOff(m) ==
    /\ m \in net
    /\ m.op = "delete"
    /\ \/ /\ Exists(m.job.sub)
          /\ row' = [row EXCEPT ![m.job.sub].active = FALSE]
          /\ UNCHANGED <<now, nextId, history, grants>>
       \/ ~Exists(m.job.sub) /\ UNCHANGED leaseVars
    /\ Respond(m, {})

ServeDelete(m) ==
    /\ m \in net
    /\ m.op = "delete"
    /\ \/ Delete(m.job.sub)
       \/ ~Exists(m.job.sub) /\ UNCHANGED leaseVars
    /\ Respond(m, {})

-----------------------------------------------------------------------------
(* The worker                                                              *)

\* The next claimed subscription of process_tick's loop.
NextJob(w) ==
    /\ pc[w] = "loop"
    /\ \E j \in hand[w] :
          /\ job' = [job EXCEPT ![w] = j]
          /\ hand' = [hand EXCEPT ![w] = @ \ {j}]
    /\ pc' = [pc EXCEPT ![w] = "preview"]
    /\ UNCHANGED <<leaseVars, net, tries, sent, faults>>

\* Mistake: the loop may break off and drop the rest of the batch.
EndTickEarly(w) ==
    /\ pc[w] = "loop"
    /\ hand' = [hand EXCEPT ![w] = {}]
    /\ pc' = [pc EXCEPT ![w] = "idle"]
    /\ job' = [job EXCEPT ![w] = NoJob]
    /\ UNCHANGED <<leaseVars, net, tries, sent, faults>>

\* The loop is over: sleep until the next poll.
EndTick(w) ==
    /\ pc[w] = "loop"
    /\ hand[w] = {}
    /\ pc' = [pc EXCEPT ![w] = "idle"]
    /\ job' = [job EXCEPT ![w] = NoJob]
    /\ UNCHANGED <<leaseVars, hand, net, tries, sent, faults>>

\* The digest text was rendered.
Preview(w) ==
    /\ pc[w] = "preview"
    /\ pc' = [pc EXCEPT ![w] = "send"]
    /\ UNCHANGED <<leaseVars, hand, job, net, tries, sent, faults>>

\* Mistake: every outcome is acknowledged as sent.
FailAcknowledged(w) ==
    /\ pc[w] \in WorkStep
    /\ Fault
    /\ MoveOn(w, "ack", net)
    /\ UNCHANGED <<leaseVars, hand, job, sent>>

\* What follows a failure: it is reported, unless writing the worker's metrics
\* file fails as well and the exception reaches process_tick.
AfterFailure == {"nack", "loop"}

\* No digest, an empty digest, or a Telegram error before delivery.
Fail(w) ==
    /\ pc[w] \in WorkStep
    /\ Fault
    /\ \E next \in AfterFailure : MoveOn(w, next, net)
    /\ UNCHANGED <<leaseVars, hand, job, sent>>

\* Mistake: a failing chart makes the whole delivery fail.
SendThenFail(w) ==
    /\ pc[w] = "send"
    /\ sent' = sent \cup {[job |-> job[w], at |-> now, ambiguous |-> FALSE]}
    /\ MoveOn(w, "nack", net)
    /\ UNCHANGED <<leaseVars, hand, job, faults>>

\* Telegram delivers the text and says so.  The chart that follows is best
\* effort and changes nothing.
Send(w) ==
    /\ pc[w] = "send"
    /\ sent' = sent \cup {[job |-> job[w], at |-> now, ambiguous |-> FALSE]}
    /\ MoveOn(w, "ack", net)
    /\ UNCHANGED <<leaseVars, hand, job, faults>>

\* Telegram delivers the text but the call raises (a timeout), or counting the
\* sent digest in the metrics file does: to the worker the send has failed.
SendAmbiguous(w) ==
    /\ pc[w] = "send"
    /\ Fault
    /\ sent' = sent \cup {[job |-> job[w], at |-> now, ambiguous |-> TRUE]}
    /\ \E next \in AfterFailure : MoveOn(w, next, net)
    /\ UNCHANGED <<leaseVars, hand, job>>

\* The user blocked the bot: the subscription is deleted.
SendForbidden(w) ==
    /\ pc[w] = "send"
    /\ Fault
    /\ \E next \in {"delete", "loop"} : MoveOn(w, next, net)
    /\ UNCHANGED <<leaseVars, hand, job, sent>>

\* The process stops, at any step, and forgets what it had claimed.
Crash(w) ==
    /\ pc[w] # "down"
    /\ Fault
    /\ pc' = [pc EXCEPT ![w] = "down"]
    /\ hand' = [hand EXCEPT ![w] = {}]
    /\ job' = [job EXCEPT ![w] = NoJob]
    /\ UNCHANGED <<leaseVars, net, tries, sent>>

Restart(w) ==
    /\ pc[w] = "down"
    /\ pc' = [pc EXCEPT ![w] = "idle"]
    /\ UNCHANGED <<leaseVars, hand, job, net, tries, sent, faults>>

-----------------------------------------------------------------------------
Environment ==
    /\ Tick \/ \E s \in Subscriber : UserRequest(s)
    /\ UNCHANGED workerVars

Work(w) ==
    \/ StartClaim(w) \/ Unanswered(w)
    \/ NextJob(w) \/ EndTick(w)
    \/ Preview(w) \/ Send(w)

Trouble(w) == TimeOut(w) \/ Fail(w) \/ SendAmbiguous(w) \/ SendForbidden(w) \/ Crash(w)

Serve(m) == ServeClaim(m) \/ ServeAck(m) \/ ServeDelete(m)

DeliveryNext ==
    \/ Environment
    \/ \E w \in Worker : Work(w) \/ Trouble(w) \/ Restart(w)
    \/ \E m \in net : Serve(m) \/ Refuse(m) \/ LoseRequest(m)

DeliverySpec == DeliveryInit /\ [][DeliveryNext]_vars

\* The worker's event loop runs its next step, the API executes the requests it
\* received, and the container runtime restarts a stopped worker.
Fairness ==
    /\ \A w \in Worker : WF_vars(Work(w)) /\ WF_vars(Restart(w))
    /\ \A op \in CallStep, w \in Worker :
          WF_vars(\E m \in net : m.op = op /\ m.from = w /\ Serve(m))

FairSpec == DeliverySpec /\ Fairness

-----------------------------------------------------------------------------
(* Properties                                                              *)

GrantWith(lock) == CHOOSE g \in grants : g.lock = lock

\* digest_history shows only digests the subscriber really received: a late,
\* repeated or misdirected acknowledgement never records a digest that was not
\* sent under that very claim.
RecordedWasSent ==
    \A h \in history : \E m \in sent :
        m.job = [sub |-> h.sub, lock |-> h.lock] /\ m.at <= h.at

\* Within one instant the attempts tell which of two claims of a row came first.
ClaimedBefore(g1, g2) == g1.at < g2.at \/ (g1.at = g2.at /\ g1.attempt < g2.attempt)

\* Why a subscriber may get a second digest from the same subscription: the
\* first lease had run out (a crash, a lost acknowledgement or a slow batch), or
\* Telegram had not confirmed the first, or the second belongs to a later local
\* date.  Nothing else, whatever the network does.
DuplicateOnlyIfExplained ==
    \A m1, m2 \in sent :
        LET g1 == GrantWith(m1.job.lock)
            g2 == GrantWith(m2.job.lock)
        IN (g1.id = g2.id /\ ClaimedBefore(g1, g2)) =>
              \/ m1.ambiguous
              \/ g2.at - g1.at >= StaleAfter
              \/ LocalDate(g1.at, g2.zone) # LocalDate(g2.at, g2.zone)

\* A subscriber gets at most MaxAttempt digests for one recorded delivery.
DuplicatesBounded ==
    \A g \in grants :
        Cardinality({ m \in sent : /\ GrantWith(m.job.lock).id = g.id
                                   /\ GrantWith(m.job.lock).epoch = g.epoch })
            <= MaxAttempt

\* The composition is one of the clients SubscriptionLease allows for.
LeaseSpec == Spec

\* A claimed subscription is dealt with, the last of a batch as well: unless
\* something is lost, fails or stops, no lease lasts for ever.
LeaseIsReleased ==
    \A s \in Subscriber, lock \in Lock :
        row[s].lock = lock ~> row[s].lock # lock \/ faults > 0

\* A due subscription does not wait for ever while it stays claimable: the poll
\* loop survives every fault.
DueIsClaimed == \A s \in Subscriber : Claimable(s) ~> ~Claimable(s)
=============================================================================
