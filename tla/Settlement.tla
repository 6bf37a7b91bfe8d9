----------------------------- MODULE Settlement -----------------------------
(***************************************************************************)
(* Settlement behind the stream: the verify gate and the halted sessions   *)
(* of CircleX402PaymentVerifier, the SettlementQueue that batches its      *)
(* authorisations, and the evidence the ledger keeps of what the provider  *)
(* answered.  PaidReading follows a handler up to afterCommit; here an     *)
(* item is one authorisation, and the bundle it pays for, from the verify  *)
(* gate on.  Everything but the bundle row and the settlement records      *)
(* lives in the memory of the gateway process.                             *)
(***************************************************************************)
EXTENDS Integers, Sequences

CONSTANTS
    Items,         \* authorisations that buyers ever present
    Sessions,      \* reading sessions
    SessionOf,     \* the session of each item
    Refs,          \* references the provider may put on a settled transfer
    NoRef,         \* it gives none
    BatchSize,     \* settlementBatchSize
    PersistFails,  \* the ledger may refuse to record an outcome
    MaxCrashes     \* bound: ends of the gateway process

ASSUME SettlementAssumption ==
    /\ SessionOf \in [Items -> Sessions]
    /\ BatchSize \in Nat \ {0}
    /\ PersistFails \in BOOLEAN
    /\ MaxCrashes \in Nat
    /\ NoRef \notin Refs
    /\ "void" \notin Sessions
    /\ "drain" \notin Sessions

\* Who calls flush(): the timer and a full buffer (nobody waits), the handler that
\* completes or closes a session, and the shutdown loop.
Callers == Sessions \cup {"void", "drain"}

VARIABLES
    stage,    \* each item on its way to the queue
    buffer,   \* SettlementQueue.buffer
    timer,    \* SettlementQueue.timer is set
    batch,    \* the items of the flush in flight; none means flushing is undefined
    answer,   \* what settlePayment answered for each item of the batch, and its report
    call,     \* what each caller of flush() waits for
    halted,   \* haltedSessions
    moved,    \* items whose money the provider moved
    status,   \* read_bundles.payment_status
    records,  \* settlements rows with their linked bundle
    scope,    \* what was queued when the shutdown loop began
    crashes

queueVars == <<buffer, timer, batch, call>>
vars == <<stage, buffer, timer, batch, answer, call, halted, moved, status, records,
          scope, crashes>>

Ran(s) == {s[k] : k \in DOMAIN s}

NoAnswer == [paid |-> FALSE, ref |-> NoRef, step |-> "none"]

Init ==
    /\ stage = [i \in Items |-> "idle"]
    /\ buffer = <<>>
    /\ timer = FALSE
    /\ batch = {}
    /\ answer = [i \in Items |-> NoAnswer]
    /\ call = [c \in Callers |-> "none"]
    /\ halted = {}
    /\ moved = {}
    /\ status = [i \in Items |-> "none"]
    /\ records = {}
    /\ scope = {}
    /\ crashes = 0

-----------------------------------------------------------------------------
(* SettlementQueue.                                                        *)

\* Variation: the batch is a copy, and the buffer keeps its items.
Flush_Copies(c, buf, waits) ==
    /\ timer' = FALSE
    /\ buffer' = buf
    /\ IF batch = {} /\ buf # <<>>
       THEN batch' = Ran(buf) /\ call' = [call EXCEPT ![c] = "owner"]
       ELSE UNCHANGED <<batch, call>>

\* flush() called by c on buffer buf, up to its first await.  A caller that does not wait
\* has nothing left to do when it joins a flush or finds the buffer empty.
Flush(c, buf, waits) ==
    /\ timer' = FALSE
    /\ \/ /\ batch # {}
          /\ buffer' = buf
          /\ call' = [call EXCEPT ![c] = IF waits THEN "joined" ELSE @]
          /\ UNCHANGED batch
       \/ /\ batch = {}
          /\ buf = <<>>
          /\ buffer' = buf
          /\ call' = [call EXCEPT ![c] = IF waits THEN "returned" ELSE @]
          /\ UNCHANGED batch
       \/ /\ batch = {}
          /\ buf # <<>>
          /\ buffer' = <<>>
          /\ batch' = Ran(buf)
          /\ call' = [call EXCEPT ![c] = "owner"]

\* Variation: a timer is armed only when no flush is in flight.
Enqueue_SkipsTimer(i) ==
    IF Len(buffer) + 1 >= BatchSize
    THEN Flush("void", Append(buffer, i), FALSE)
    ELSE /\ buffer' = Append(buffer, i)
         /\ timer' = (timer \/ Len(buffer) > 0)
         /\ UNCHANGED <<batch, call>>

Enqueue(i) ==
    IF Len(buffer) + 1 >= BatchSize
    THEN Flush("void", Append(buffer, i), FALSE)
    ELSE /\ buffer' = Append(buffer, i)
         /\ timer' = TRUE
         /\ UNCHANGED <<batch, call>>

TimerFires ==
    /\ timer
    /\ Flush("void", buffer, FALSE)
    /\ UNCHANGED <<stage, answer, halted, moved, status, records, scope, crashes>>

\* Variation: whoever ran the batch returns without looking at the buffer again.
BatchEnds_NoFollowUp ==
    /\ batch # {}
    /\ \A i \in batch : answer[i].step = "done"
    /\ batch' = {}
    /\ call' = [c \in Callers |-> IF call[c] \in {"joined", "owner"} THEN "returned"
                                  ELSE call[c]]
    /\ UNCHANGED <<stage, buffer, timer, answer, halted, moved, status, records, scope,
                   crashes>>

\* The promise of a flush settles: those who joined it return, its owner goes on.
BatchEnds ==
    /\ batch # {}
    /\ \A i \in batch : answer[i].step = "done"
    /\ batch' = {}
    /\ call' = [c \in Callers |-> CASE call[c] = "joined" -> "returned"
                                    [] call[c] = "owner"  -> "again"
                                    [] OTHER              -> call[c]]
    /\ UNCHANGED <<stage, buffer, timer, answer, halted, moved, status, records, scope,
                   crashes>>

\* Variation: an owner that finds nothing to flush keeps waiting for more.
FollowUp_Waits(c) ==
    /\ call[c] = "again"
    /\ buffer # <<>>
    /\ Flush(c, buffer, TRUE)
    /\ UNCHANGED <<stage, answer, halted, moved, status, records, scope, crashes>>

\* The owner flushes what was queued meanwhile, and waits for that flush in turn.
FollowUp(c) ==
    /\ call[c] = "again"
    /\ IF buffer # <<>>
       THEN Flush(c, buffer, TRUE)
       ELSE call' = [call EXCEPT ![c] = "returned"] /\ UNCHANGED <<buffer, timer, batch>>
    /\ UNCHANGED <<stage, answer, halted, moved, status, records, scope, crashes>>

\* complete() and close() flush once the session row is saved, and wait.
EndSession(s) ==
    /\ call[s] = "none"
    /\ Flush(s, buffer, TRUE)
    /\ UNCHANGED <<stage, answer, halted, moved, status, records, scope, crashes>>

\* onClose: drain().
Shutdown ==
    /\ call["drain"] = "none"
    /\ scope' = Ran(buffer) \cup batch
    /\ IF buffer # <<>> \/ batch # {}
       THEN Flush("drain", buffer, TRUE)
       ELSE call' = [call EXCEPT !["drain"] = "drained"] /\ UNCHANGED <<buffer, timer, batch>>
    /\ UNCHANGED <<stage, answer, halted, moved, status, records, crashes>>

\* Variation: one flush, no loop.
DrainLoop_Once ==
    /\ call["drain"] = "returned"
    /\ call' = [call EXCEPT !["drain"] = "drained"]
    /\ UNCHANGED <<stage, buffer, timer, batch, answer, halted, moved, status, records,
                   scope, crashes>>

DrainLoop ==
    /\ call["drain"] = "returned"
    /\ IF buffer # <<>> \/ batch # {}
       THEN Flush("drain", buffer, TRUE)
       ELSE call' = [call EXCEPT !["drain"] = "drained"] /\ UNCHANGED <<buffer, timer, batch>>
    /\ UNCHANGED <<stage, answer, halted, moved, status, records, scope, crashes>>

-----------------------------------------------------------------------------
(* The verify gate and the ledger.                                         *)

\* verify(): the halt is looked up before the provider is asked.
CheckHalt(i) ==
    /\ stage[i] = "idle"
    /\ stage' = [stage EXCEPT ![i] = IF SessionOf[i] \in halted THEN "refused"
                                     ELSE "asking"]
    /\ UNCHANGED <<queueVars, answer, halted, moved, status, records, scope, crashes>>

\* Variation: the provider's verdict may be open.
Asked_Pending(i) ==
    /\ stage[i] = "asking"
    /\ \E verdict \in {"refused", "recording", "pending"} :
         stage' = [stage EXCEPT ![i] = verdict]
    /\ UNCHANGED <<queueVars, answer, halted, moved, status, records, scope, crashes>>

\* verifyPayment: the provider accepts, or refuses; an accepted authorisation goes to
\* the ledger.
Asked(i) ==
    /\ stage[i] = "asking"
    /\ \E verdict \in {"refused", "recording"} : stage' = [stage EXCEPT ![i] = verdict]
    /\ UNCHANGED <<queueVars, answer, halted, moved, status, records, scope, crashes>>

\* recordBundle commits, or finds a duplicate or a conflict, which hands nothing off.
Commit(i) ==
    /\ stage[i] = "recording"
    /\ \/ /\ stage' = [stage EXCEPT ![i] = "committed"]
          /\ status' = [status EXCEPT ![i] = "authorized"]
       \/ /\ stage' = [stage EXCEPT ![i] = "refused"]
          /\ UNCHANGED status
    /\ UNCHANGED <<queueVars, answer, halted, moved, records, scope, crashes>>

\* afterCommit
HandOff(i) ==
    /\ stage[i] = "committed"
    /\ stage' = [stage EXCEPT ![i] = "queued"]
    /\ Enqueue(i)
    /\ UNCHANGED <<answer, halted, moved, status, records, scope, crashes>>

-----------------------------------------------------------------------------
(* settleQueued and onSettled.                                             *)

InFlight(i) == i \in batch /\ answer[i].step = "none"

\* settlePayment succeeded: the transfer has a reference, or none that we recognise.
Settled(i) ==
    /\ InFlight(i)
    /\ \E ref \in Refs \cup {NoRef} :
         answer' = [answer EXCEPT ![i] = [paid |-> TRUE, ref |-> ref, step |-> "report"]]
    /\ moved' = moved \cup {i}
    /\ UNCHANGED <<stage, queueVars, halted, status, records, scope, crashes>>

\* Variation: the session is halted when the failure has been recorded.
Failed_NoHalt(i) ==
    /\ InFlight(i)
    /\ answer' = [answer EXCEPT ![i] = [paid |-> FALSE, ref |-> NoRef, step |-> "report"]]
    /\ \E m \in {moved, moved \cup {i}} : moved' = m
    /\ UNCHANGED <<stage, queueVars, halted, status, records, scope, crashes>>

\* settlePayment refused, or it threw: then the money may have moved all the same.
Failed(i) ==
    /\ InFlight(i)
    /\ answer' = [answer EXCEPT ![i] = [paid |-> FALSE, ref |-> NoRef, step |-> "report"]]
    /\ \E m \in {moved, moved \cup {i}} : moved' = m
    /\ halted' = halted \cup {SessionOf[i]}
    /\ UNCHANGED <<stage, queueVars, status, records, scope, crashes>>

\* The settlements row of a completed transfer: its idempotency key is the reference.
Recorded(ref) == \E e \in records : e.ref = ref

\* Variation: a row with this reference is given to the bundle that comes last.
Record_Relinks(i) ==
    \/ /\ answer[i].ref = NoRef
       /\ status' = IF answer[i].paid THEN status ELSE [status EXCEPT ![i] = "failed"]
       /\ UNCHANGED records
    \/ /\ answer[i].ref # NoRef
       /\ status' = [status EXCEPT ![i] = "completed"]
       /\ records' = {e \in records : e.ref # answer[i].ref}
                        \cup {[ref |-> answer[i].ref, item |-> i]}

\* recordSettlementRange: without evidence only a failure is recorded; with evidence
\* the row is inserted once per reference, and only the insert links the bundle.
Record(i) ==
    \/ /\ answer[i].ref = NoRef
       /\ status' = IF answer[i].paid THEN status ELSE [status EXCEPT ![i] = "failed"]
       /\ UNCHANGED records
    \/ /\ answer[i].ref # NoRef
       /\ Recorded(answer[i].ref)
       /\ UNCHANGED <<status, records>>
    \/ /\ answer[i].ref # NoRef
       /\ ~Recorded(answer[i].ref)
       /\ status' = [status EXCEPT ![i] = "completed"]
       /\ records' = records \cup {[ref |-> answer[i].ref, item |-> i]}

\* onSettled: a refused write is logged and dropped.
Report(i) ==
    /\ i \in batch
    /\ answer[i].step = "report"
    /\ Record(i) \/ (PersistFails /\ UNCHANGED <<status, records>>)
    /\ answer' = [answer EXCEPT ![i] = [@ EXCEPT !.step = "done"]]
    /\ UNCHANGED <<stage, queueVars, halted, moved, scope, crashes>>

\* The process ends without drain: buffer, batch, timer and haltedSessions are gone.
\* A transfer already asked for may still go through.
Crash ==
    /\ crashes < MaxCrashes
    /\ crashes' = crashes + 1
    /\ \E more \in SUBSET {i \in batch : InFlight(i)} : moved' = moved \cup more
    /\ stage' = [i \in Items |-> IF stage[i] \in {"idle", "refused"} THEN stage[i]
                                 ELSE "past"]
    /\ buffer' = <<>>
    /\ timer' = FALSE
    /\ batch' = {}
    /\ call' = [c \in Callers |-> "none"]
    /\ halted' = {}
    /\ scope' = {}
    /\ UNCHANGED <<answer, status, records>>

QueueStep == TimerFires \/ BatchEnds \/ DrainLoop \/ \E c \in Callers : FollowUp(c)

ItemStep(i) ==
    CheckHalt(i) \/ Asked(i) \/ Commit(i) \/ HandOff(i) \/ Settled(i) \/ Failed(i) \/ Report(i)

Next ==
    \/ QueueStep
    \/ \E i \in Items : ItemStep(i)
    \/ \E s \in Sessions : EndSession(s)
    \/ Shutdown
    \/ Crash

Spec == Init /\ [][Next]_vars

\* Timers fire, the provider and the ledger answer, and continuations run.  Buyers need
\* not present anything, and nobody needs to shut the gateway down.
Fairness ==
    /\ WF_vars(TimerFires) /\ WF_vars(BatchEnds) /\ WF_vars(DrainLoop)
    /\ \A c \in Callers : WF_vars(FollowUp(c))
    /\ \A i \in Items : WF_vars(HandOff(i)) /\ WF_vars(Settled(i) \/ Failed(i) \/ Report(i))

-----------------------------------------------------------------------------
(* What settlement keeps true.                                             *)

Stages == {"idle", "refused", "asking", "recording", "committed", "queued", "past"}
Calls  == {"none", "joined", "owner", "again", "returned", "drained"}
Steps  == {"none", "report", "done"}

TypeOK ==
    /\ stage \in [Items -> Stages]
    /\ buffer \in Seq(Items)
    /\ timer \in BOOLEAN
    /\ batch \in SUBSET Items
    /\ answer \in [Items -> [paid : BOOLEAN, ref : Refs \cup {NoRef}, step : Steps]]
    /\ call \in [Callers -> Calls]
    /\ halted \in SUBSET Sessions
    /\ moved \in SUBSET Items
    /\ status \in [Items -> {"none", "authorized", "completed", "failed"}]
    /\ records \in SUBSET [ref : Refs, item : Items]
    /\ scope \in SUBSET Items
    /\ crashes \in 0 .. MaxCrashes

\* An authorisation in the buffer always has somebody coming for it: the timer, the
\* flush in flight with its follow-up, or a follow-up about to run.  Flushes that join,
\* clear the timer or find the buffer empty never leave it behind.
NothingStranded ==
    buffer # <<>> =>
        timer \/ \E c \in Callers : call[c] = "again" \/ (batch # {} /\ call[c] = "owner")

\* An authorisation is in one place only between its handoff and its settlement, so
\* the provider is never asked twice to move the money of one bundle.
SettledOnce ==
    /\ \A j, k \in DOMAIN buffer : buffer[j] = buffer[k] => j = k
    /\ Ran(buffer) \cap batch = {}
    /\ \A i \in Ran(buffer) : answer[i].step = "none" /\ stage[i] = "queued"
    /\ \A i \in Items : answer[i].step # "none" => i \notin Ran(buffer)

\* When the shutdown loop ends, everything queued when it began has been settled and
\* reported.
DrainSettles ==
    call["drain"] = "drained" => \A i \in scope : answer[i].step = "done"

\* The ledger says completed of a bundle only when the provider moved its money and the
\* evidence is linked to it, and a reference is evidence for one bundle.  The runs check it
\* as part of BillsStand.
CompletedHasEvidence ==
    /\ \A i \in Items : status[i] = "completed" =>
         i \in moved /\ \E e \in records : e.item = i
    /\ \A e, f \in records : e.ref = f.ref => e = f

\* While the process lives, a session with a bundle recorded as failed is halted: the
\* buyer reads the failure no earlier than the verify gate knows it.
FailureHalts ==
    \A i \in Items : crashes = 0 /\ status[i] = "failed" => SessionOf[i] \in halted

\* Queue, batches, refused writes and ends of the process come down to one bill a bundle:
\* money moves only of a bundle that is in the ledger as authorized, what the bundle is
\* called then comes of the provider's answer for it, and neither that nor its evidence is
\* ever taken back or given to another bundle.
Presented == {i \in Items : i \in moved \/ answer[i].step # "none"}

B == INSTANCE Billing WITH asked <- Presented, evidence <- records

BillsStand == B!Spec

\* Everything handed to the queue is settled and reported while the process lives,
\* whatever flushes coalesce.
EverythingSettles ==
    \A i \in Items : stage[i] = "queued" ~> answer[i].step = "done" \/ stage[i] = "past"

\* Shutdown ends: no flush waits for another one for ever.
DrainEnds == call["drain"] # "none" ~> call["drain"] \in {"drained", "none"}
=============================================================================
