-------------------------- MODULE SettlementProofs --------------------------
(***************************************************************************)
(* The safety properties of Settlement for any number of authorisations,   *)
(* sessions, references and process ends, and any batch size.  Each one    *)
(* has a strengthening that is inductive relative to the type invariant.   *)
(***************************************************************************)
EXTENDS Modes, TLAPS

USE DEF Callers

\* Whoever emptied the buffer into the batch in flight is still waiting for it, so it
\* will look at the buffer again.
Owned == batch # {} => \E c \in Callers : call[c] = "owner"

\* Where an item is, its stage and its answer agree.
Places ==
    /\ SettledOnce
    /\ \A i \in batch : stage[i] = "queued"
    /\ \A i \in Items : answer[i].step # "none" => stage[i] \in {"queued", "past"}

\* Only a transfer that went through has a reference, and its money has moved.
Paid ==
    /\ \A i \in Items : answer[i].paid => i \in moved
    /\ \A i \in Items : answer[i].ref # NoRef => answer[i].paid

\* Within one life of the process, an item that failed has halted its session.
Halts ==
    \A i \in Items :
        crashes = 0 /\ answer[i].step # "none" /\ ~answer[i].paid => SessionOf[i] \in halted

\* What the shutdown loop set out to settle is in the queue still, or done.
Covering ==
    \A i \in scope : i \in Ran(buffer) \/ i \in batch \/ answer[i].step = "done"

Evidence == Paid /\ CompletedHasEvidence
Failures == Halts /\ FailureHalts
Draining == Covering /\ DrainSettles

-----------------------------------------------------------------------------
(* Queue steps, seen from the items.                                       *)

\* A flush leaves the items where they are, or makes all of them the batch.
Moves(buf) ==
    \/ buffer' = buf /\ batch' = batch
    \/ batch = {} /\ buffer' = <<>> /\ batch' = Ran(buf)

\* A queue step that does not end a batch.
Shift ==
    \/ TimerFires \/ DrainLoop \/ Shutdown
    \/ \E c \in Callers : FollowUp(c)
    \/ \E s \in Sessions : EndSession(s)

LEMMA RanSeq ==
    ASSUME NEW buf \in Seq(Items)
    PROVE  Ran(buf) \in SUBSET Items
BY DEF Ran

LEMMA RanAppend ==
    ASSUME NEW buf \in Seq(Items), NEW i \in Items
    PROVE  /\ Append(buf, i) \in Seq(Items)
           /\ Append(buf, i) # <<>>
           /\ Ran(Append(buf, i)) = Ran(buf) \cup {i}
<1>1. Append(buf, i) \in Seq(Items) /\ Append(buf, i) # <<>>
  <2>1. Append(buf, i) \in Seq(Items) /\ Len(Append(buf, i)) = Len(buf) + 1
    OBVIOUS
  <2>2. Len(buf) \in Nat /\ Len(<<>>) = 0
    OBVIOUS
  <2> QED BY <2>1, <2>2
<1>2. Ran(Append(buf, i)) \subseteq Ran(buf) \cup {i}
  <2> SUFFICES ASSUME NEW k \in DOMAIN Append(buf, i)
               PROVE  Append(buf, i)[k] \in Ran(buf) \cup {i}
    BY DEF Ran
  <2>1. k = Len(buf) + 1 => Append(buf, i)[k] = i
    OBVIOUS
  <2>2. k # Len(buf) + 1 => k \in DOMAIN buf /\ Append(buf, i)[k] = buf[k]
    OBVIOUS
  <2> QED BY <2>1, <2>2 DEF Ran
<1>3. Ran(buf) \subseteq Ran(Append(buf, i))
  <2> SUFFICES ASSUME NEW k \in DOMAIN buf PROVE buf[k] \in Ran(Append(buf, i))
    BY DEF Ran
  <2>1. k \in DOMAIN Append(buf, i) /\ Append(buf, i)[k] = buf[k]
    OBVIOUS
  <2> QED BY <2>1 DEF Ran
<1>4. i \in Ran(Append(buf, i))
  <2>1. Len(buf) + 1 \in DOMAIN Append(buf, i) /\ Append(buf, i)[Len(buf) + 1] = i
    OBVIOUS
  <2> QED BY <2>1 DEF Ran
<1> QED BY <1>1, <1>2, <1>3, <1>4

LEMMA RanEmpty == Ran(<<>>) = {}
BY DEF Ran

\* A flush moves items, and the type of what it writes is right.
LEMMA FlushMoves ==
    ASSUME TypeOK, NEW c \in Callers, NEW buf \in Seq(Items), NEW waits \in BOOLEAN,
           Flush(c, buf, waits)
    PROVE  /\ Moves(buf)
           /\ buffer' \in Seq(Items) /\ timer' \in BOOLEAN /\ batch' \in SUBSET Items
           /\ call' \in [Callers -> Calls]
<1>1. Moves(buf)
  BY DEF Flush, Moves
<1>2. timer' \in BOOLEAN /\ (buffer' = buf \/ buffer' = <<>>)
  BY DEF Flush
<1>3. buffer' \in Seq(Items)
  <2>1. <<>> \in Seq(Items)
    OBVIOUS
  <2> QED BY <1>2, <2>1
<1>4. batch' \in SUBSET Items
  BY RanSeq DEF Flush, TypeOK
<1>5. call' \in [Callers -> Calls]
  BY DEF Flush, TypeOK, Calls
<1> QED BY <1>1, <1>2, <1>3, <1>4, <1>5

\* A flush by somebody who is not waiting for the batch in flight keeps its owner, and
\* what it leaves in the buffer is the owner's to flush.
LEMMA FlushOwned ==
    ASSUME TypeOK, Owned, NEW c \in Callers, NEW buf \in Seq(Items), NEW waits \in BOOLEAN,
           Flush(c, buf, waits), waits => call[c] # "owner"
    PROVE  Owned' /\ NothingStranded'
<1>1. CASE batch # {}
  <2>1. PICK o \in Callers : call[o] = "owner"
    BY <1>1 DEF Owned
  <2>2. call'[o] = "owner" /\ batch' # {}
    BY <1>1, <2>1 DEF Flush, TypeOK
  <2> QED BY <2>2 DEF Owned, NothingStranded
<1>2. CASE batch = {} /\ buf = <<>>
  BY <1>2 DEF Flush, Owned, NothingStranded
<1>3. CASE batch = {} /\ buf # <<>>
  <2>1. buffer' = <<>> /\ call'[c] = "owner"
    BY <1>3 DEF Flush, TypeOK
  <2> QED BY <2>1 DEF Owned, NothingStranded
<1> QED BY <1>1, <1>2, <1>3

LEMMA EnqueueMoves ==
    ASSUME TypeOK, NEW i \in Items, Enqueue(i)
    PROVE  /\ Moves(Append(buffer, i))
           /\ buffer' \in Seq(Items) /\ timer' \in BOOLEAN /\ batch' \in SUBSET Items
           /\ call' \in [Callers -> Calls]
<1>1. Append(buffer, i) \in Seq(Items)
  BY DEF TypeOK
<1>2. CASE Len(buffer) + 1 >= BatchSize
  BY <1>1, <1>2, FlushMoves DEF Enqueue
<1>3. CASE ~(Len(buffer) + 1 >= BatchSize)
  BY <1>1, <1>3 DEF Enqueue, Moves, TypeOK
<1> QED BY <1>2, <1>3

LEMMA EnqueueOwned ==
    ASSUME TypeOK, Owned, NEW i \in Items, Enqueue(i)
    PROVE  Owned' /\ NothingStranded'
<1>1. Append(buffer, i) \in Seq(Items)
  BY DEF TypeOK
<1>2. CASE Len(buffer) + 1 >= BatchSize
  BY <1>1, <1>2, FlushOwned DEF Enqueue
<1>3. CASE ~(Len(buffer) + 1 >= BatchSize)
  BY <1>3 DEF Enqueue, Owned, NothingStranded
<1> QED BY <1>2, <1>3

\* Queue steps that end no batch move items and touch nothing the ledger knows.
LEMMA ShiftMoves ==
    ASSUME TypeOK, Shift
    PROVE  /\ Moves(buffer)
           /\ buffer' \in Seq(Items) /\ timer' \in BOOLEAN /\ batch' \in SUBSET Items
           /\ call' \in [Callers -> Calls]
           /\ scope' = scope \/ scope' = Ran(buffer) \cup batch
           /\ UNCHANGED <<stage, answer, halted, moved, status, records, crashes>>
<1> buffer \in Seq(Items) BY DEF TypeOK
<1> DEFINE Typed == /\ buffer' \in Seq(Items) /\ timer' \in BOOLEAN
                    /\ batch' \in SUBSET Items /\ call' \in [Callers -> Calls]
<1>1. CASE TimerFires
  BY <1>1, FlushMoves DEF TimerFires
<1>2. CASE DrainLoop
  <2>1. UNCHANGED <<stage, answer, halted, moved, status, records, scope, crashes>>
    BY <1>2 DEF DrainLoop
  <2>2. CASE buffer # <<>> \/ batch # {}
    BY <1>2, <2>1, <2>2, FlushMoves DEF DrainLoop
  <2>3. CASE ~(buffer # <<>> \/ batch # {})
    BY <1>2, <2>1, <2>3 DEF DrainLoop, Moves, TypeOK, Calls
  <2> QED BY <2>2, <2>3
<1>3. CASE Shutdown
  <2>1. /\ UNCHANGED <<stage, answer, halted, moved, status, records, crashes>>
        /\ scope' = Ran(buffer) \cup batch
    BY <1>3 DEF Shutdown
  <2>2. CASE buffer # <<>> \/ batch # {}
    BY <1>3, <2>1, <2>2, FlushMoves DEF Shutdown
  <2>3. CASE ~(buffer # <<>> \/ batch # {})
    BY <1>3, <2>1, <2>3 DEF Shutdown, Moves, TypeOK, Calls
  <2> QED BY <2>2, <2>3
<1>4. ASSUME NEW c \in Callers, FollowUp(c)
      PROVE  Moves(buffer) /\ Typed /\ UNCHANGED <<stage, answer, halted, moved, status, records,
                                                    scope, crashes>>
  <2>1. UNCHANGED <<stage, answer, halted, moved, status, records, scope, crashes>>
    BY <1>4 DEF FollowUp
  <2>2. CASE buffer # <<>>
    BY <1>4, <2>1, <2>2, FlushMoves DEF FollowUp
  <2>3. CASE ~(buffer # <<>>)
    BY <1>4, <2>1, <2>3 DEF FollowUp, Moves, TypeOK, Calls
  <2> QED BY <2>2, <2>3
<1>5. ASSUME NEW s \in Sessions, EndSession(s)
      PROVE  Moves(buffer) /\ Typed /\ UNCHANGED <<stage, answer, halted, moved, status, records,
                                                    scope, crashes>>
  BY <1>5, FlushMoves DEF EndSession
<1> QED BY <1>1, <1>2, <1>3, <1>4, <1>5 DEF Shift

LEMMA ShiftOwned ==
    ASSUME TypeOK, Owned, NothingStranded, Shift
    PROVE  Owned' /\ NothingStranded'
<1> buffer \in Seq(Items) BY DEF TypeOK
<1>1. CASE TimerFires
  BY <1>1, FlushOwned DEF TimerFires
<1>2. CASE DrainLoop
  <2>1. CASE buffer # <<>> \/ batch # {}
    BY <1>2, <2>1, FlushOwned DEF DrainLoop
  <2>2. CASE ~(buffer # <<>> \/ batch # {})
    BY <1>2, <2>2 DEF DrainLoop, Owned, NothingStranded
  <2> QED BY <2>1, <2>2
<1>3. CASE Shutdown
  <2>1. CASE buffer # <<>> \/ batch # {}
    BY <1>3, <2>1, FlushOwned DEF Shutdown
  <2>2. CASE ~(buffer # <<>> \/ batch # {})
    BY <1>3, <2>2 DEF Shutdown, Owned, NothingStranded
  <2> QED BY <2>1, <2>2
<1>4. ASSUME NEW c \in Callers, FollowUp(c) PROVE Owned' /\ NothingStranded'
  <2>1. CASE buffer # <<>>
    BY <1>4, <2>1, FlushOwned DEF FollowUp
  <2>2. CASE ~(buffer # <<>>)
    <3>1. buffer' = <<>> /\ batch' = batch
      BY <1>4, <2>2 DEF FollowUp
    <3>2. batch # {} => \E o \in Callers : call'[o] = "owner"
      <4> SUFFICES ASSUME batch # {} PROVE \E o \in Callers : call'[o] = "owner"
        OBVIOUS
      <4>1. PICK o \in Callers : call[o] = "owner"
        BY DEF Owned
      <4>2. call'[o] = "owner"
        BY <1>4, <2>2, <4>1 DEF FollowUp, TypeOK
      <4> QED BY <4>2
    <3> QED BY <3>1, <3>2 DEF Owned, NothingStranded
  <2> QED BY <2>1, <2>2
<1>5. ASSUME NEW s \in Sessions, EndSession(s) PROVE Owned' /\ NothingStranded'
  BY <1>5, FlushOwned DEF EndSession
<1> QED BY <1>1, <1>2, <1>3, <1>4, <1>5 DEF Shift

\* Every step of the gateway, sorted by what it does to the items.
LEMMA NextCases ==
    ASSUME Next
    PROVE  \/ Shift \/ BatchEnds \/ Crash
           \/ \E i \in Items : CheckHalt(i) \/ Asked(i) \/ Commit(i) \/ HandOff(i)
                               \/ Settled(i) \/ Failed(i) \/ Report(i)
BY DEF Next, QueueStep, ItemStep, Shift

-----------------------------------------------------------------------------
(* Types.                                                                  *)

Answers == [paid : BOOLEAN, ref : Refs \cup {NoRef}, step : Steps]

LEMMA InitType == Init => TypeOK
<1> SUFFICES ASSUME Init PROVE TypeOK
  OBVIOUS
<1>1. NoAnswer \in Answers
  BY DEF NoAnswer, Answers, Steps
<1>2. buffer \in Seq(Items)
  BY DEF Init
<1>3. answer \in [Items -> Answers]
  BY <1>1 DEF Init
<1>4. crashes \in 0 .. MaxCrashes
  BY SettlementAssumption DEF Init
<1>5. call \in [Callers -> Calls] /\ stage \in [Items -> Stages]
  BY DEF Init, Calls, Stages
<1>6. status \in [Items -> {"none", "authorized", "completed", "failed"}]
  BY DEF Init
<1>7. /\ timer \in BOOLEAN /\ batch \in SUBSET Items /\ halted \in SUBSET Sessions
      /\ moved \in SUBSET Items /\ scope \in SUBSET Items
      /\ records \in SUBSET [ref : Refs, item : Items]
  BY DEF Init
<1> QED BY <1>2, <1>3, <1>4, <1>5, <1>6, <1>7 DEF TypeOK, Answers

LEMMA ItemType ==
    ASSUME TypeOK, NEW i \in Items,
           CheckHalt(i) \/ Asked(i) \/ Commit(i) \/ Settled(i) \/ Failed(i) \/ Report(i)
    PROVE  TypeOK'
<1> USE DEF TypeOK, queueVars
<1>1. CASE CheckHalt(i)
  BY <1>1 DEF CheckHalt, Stages
<1>2. CASE Asked(i)
  BY <1>2 DEF Asked, Stages
<1>3. CASE Commit(i)
  BY <1>3 DEF Commit, Stages
<1>4. CASE Settled(i)
  <2>1. PICK ref \in Refs \cup {NoRef} :
           answer' = [answer EXCEPT ![i] = [paid |-> TRUE, ref |-> ref, step |-> "report"]]
    BY <1>4 DEF Settled
  <2>2. answer' \in [Items -> [paid : BOOLEAN, ref : Refs \cup {NoRef}, step : Steps]]
    BY <2>1 DEF Steps
  <2> QED BY <1>4, <2>2 DEF Settled
<1>5. CASE Failed(i)
  <2>1. answer' \in [Items -> [paid : BOOLEAN, ref : Refs \cup {NoRef}, step : Steps]]
    BY <1>5 DEF Failed, Steps
  <2>2. halted' \in SUBSET Sessions
    <3>1. SessionOf[i] \in Sessions
      BY SettlementAssumption
    <3> QED BY <1>5, <3>1 DEF Failed
  <2> QED BY <1>5, <2>1, <2>2 DEF Failed
<1>6. CASE Report(i)
  <2>1. answer' \in [Items -> [paid : BOOLEAN, ref : Refs \cup {NoRef}, step : Steps]]
    BY <1>6 DEF Report, Steps
  <2>2. /\ status' \in [Items -> {"none", "authorized", "completed", "failed"}]
        /\ records' \in SUBSET [ref : Refs, item : Items]
    <3>1. CASE answer[i].ref = NoRef
      BY <1>6, <3>1 DEF Report, Record
    <3>2. CASE answer[i].ref # NoRef
      <4>1. [ref |-> answer[i].ref, item |-> i] \in [ref : Refs, item : Items]
        BY <3>2
      <4>2. \/ status' = status /\ records' = records
            \/ /\ status' = [status EXCEPT ![i] = "completed"]
               /\ records' = records \cup {[ref |-> answer[i].ref, item |-> i]}
        BY <1>6, <3>2 DEF Report, Record
      <4> QED BY <4>1, <4>2
    <3> QED BY <3>1, <3>2
  <2> QED BY <1>6, <2>1, <2>2 DEF Report
<1> QED BY <1>1, <1>2, <1>3, <1>4, <1>5, <1>6

LEMMA CrashType ==
    ASSUME TypeOK, Crash
    PROVE  TypeOK'
<1>1. moved' \in SUBSET Items
  BY DEF Crash, TypeOK
<1>2. stage' \in [Items -> Stages]
  BY DEF Crash, TypeOK, Stages
<1>3. crashes' \in 0 .. MaxCrashes
  BY SettlementAssumption DEF Crash, TypeOK
<1>4. buffer' \in Seq(Items)
  BY DEF Crash
<1>5. call' \in [Callers -> Calls]
  BY DEF Crash, Calls
<1> QED BY <1>1, <1>2, <1>3, <1>4, <1>5 DEF Crash, TypeOK

LEMMA NextType ==
    ASSUME TypeOK, [Next]_vars
    PROVE  TypeOK'
<1>1. CASE Shift
  <2>1. scope' \in SUBSET Items
    BY <1>1, ShiftMoves, RanSeq DEF TypeOK
  <2> QED BY <1>1, <2>1, ShiftMoves DEF TypeOK
<1>2. CASE BatchEnds
  BY <1>2 DEF BatchEnds, TypeOK, Calls
<1>3. CASE Crash
  BY <1>3, CrashType
<1>4. ASSUME NEW i \in Items, HandOff(i) PROVE TypeOK'
  <2>1. Enqueue(i)
    BY <1>4 DEF HandOff
  <2>2. stage' \in [Items -> Stages]
    BY <1>4 DEF HandOff, TypeOK, Stages
  <2> QED BY <1>4, <2>1, <2>2, EnqueueMoves DEF HandOff, TypeOK
<1>5. CASE UNCHANGED vars
  BY <1>5 DEF vars, TypeOK
<1> QED BY <1>1, <1>2, <1>3, <1>4, <1>5, NextCases, ItemType

\* Every variable of the queue and of the verifier keeps its type.
THEOREM TypeCorrect == Spec => []TypeOK
BY InitType, NextType, PTL DEF Spec

-----------------------------------------------------------------------------
(* Nothing is stranded.                                                    *)

LEMMA NextOwned ==
    ASSUME TypeOK, Owned, NothingStranded, [Next]_vars
    PROVE  Owned' /\ NothingStranded'
<1>1. CASE Shift
  BY <1>1, ShiftOwned
<1>2. CASE BatchEnds
  <2>1. PICK o \in Callers : call[o] = "owner"
    BY <1>2 DEF BatchEnds, Owned
  <2>2. call'[o] = "again" /\ batch' = {}
    BY <1>2, <2>1 DEF BatchEnds
  <2> QED BY <2>2 DEF Owned, NothingStranded
<1>3. CASE Crash
  BY <1>3 DEF Crash, Owned, NothingStranded
<1>4. ASSUME NEW i \in Items, HandOff(i) PROVE Owned' /\ NothingStranded'
  BY <1>4, EnqueueOwned DEF HandOff
<1>5. ASSUME UNCHANGED queueVars PROVE Owned' /\ NothingStranded'
  BY <1>5 DEF queueVars, Owned, NothingStranded
<1>6. ASSUME NEW i \in Items,
             CheckHalt(i) \/ Asked(i) \/ Commit(i) \/ Settled(i) \/ Failed(i) \/ Report(i)
      PROVE  UNCHANGED queueVars
  BY <1>6 DEF CheckHalt, Asked, Commit, Settled, Failed, Report
<1>7. UNCHANGED vars => UNCHANGED queueVars
  BY DEF vars, queueVars
<1> QED BY <1>1, <1>2, <1>3, <1>4, <1>5, <1>6, <1>7, NextCases

\* SettlementQueue.flush: an authorisation in the buffer is never without a timer, a flush
\* in flight or a follow-up that will take it.
THEOREM NeverStranded == Spec => []NothingStranded
<1>1. Init => Owned /\ NothingStranded
  BY DEF Init, Owned, NothingStranded
<1>2. TypeOK /\ Owned /\ NothingStranded /\ [Next]_vars => Owned' /\ NothingStranded'
  BY NextOwned
<1>3. QED
  BY <1>1, <1>2, TypeCorrect, PTL DEF Spec

-----------------------------------------------------------------------------
(* Each item is in one place.                                              *)

LEMMA MovesPlaces ==
    ASSUME TypeOK, Places, Moves(buffer), UNCHANGED <<stage, answer>>
    PROVE  Places'
<1>1. CASE buffer' = buffer /\ batch' = batch
  BY <1>1 DEF Places, SettledOnce, Ran
<1>2. CASE batch = {} /\ buffer' = <<>> /\ batch' = Ran(buffer)
  BY <1>2 DEF Places, SettledOnce, Ran
<1> QED BY <1>1, <1>2 DEF Moves

LEMMA HandOffPlaces ==
    ASSUME TypeOK, Places, NEW i \in Items, HandOff(i)
    PROVE  Places'
<1> DEFINE buf == Append(buffer, i)
<1>1. /\ buffer \in Seq(Items) /\ buf \in Seq(Items)
      /\ Ran(buf) = Ran(buffer) \cup {i}
  BY RanAppend DEF TypeOK
<1>2. /\ stage[i] = "committed" /\ answer' = answer
      /\ stage' = [stage EXCEPT ![i] = "queued"]
      /\ Moves(buf)
  BY EnqueueMoves DEF HandOff
<1>3. i \notin Ran(buffer) /\ i \notin batch /\ answer[i].step = "none"
  BY <1>2 DEF Places, SettledOnce
<1>4. \A j \in Ran(buf) \cup batch : j \in Items /\ stage'[j] = "queued"
  BY <1>1, <1>2, RanSeq DEF Places, SettledOnce, TypeOK
<1>5. \A j \in Ran(buf) : answer'[j].step = "none"
  BY <1>1, <1>2, <1>3 DEF Places, SettledOnce
<1>6. \A j \in Items : answer'[j].step # "none" => stage'[j] \in {"queued", "past"}
  BY <1>2, <1>3 DEF Places, TypeOK
<1>7. \A j, k \in DOMAIN buf : buf[j] = buf[k] => j = k
  <2> SUFFICES ASSUME NEW j \in DOMAIN buf, NEW k \in DOMAIN buf, buf[j] = buf[k], j < k
               PROVE  FALSE
    <3>1. \A a \in DOMAIN buf : a \in Nat
      BY <1>1
    <3> QED BY <3>1
  <2>1. j \in DOMAIN buffer /\ buf[j] = buffer[j]
    BY <1>1
  <2>2. CASE k \in DOMAIN buffer
    <3>1. buf[k] = buffer[k]
      BY <1>1, <2>2
    <3>2. j = k
      BY <2>1, <2>2, <3>1 DEF Places, SettledOnce
    <3>3. j \in Nat
      BY <1>1
    <3> QED BY <3>2, <3>3
  <2>3. CASE k \notin DOMAIN buffer
    <3>1. buf[k] = i
      BY <1>1, <2>3
    <3> QED BY <1>3, <2>1, <3>1 DEF Ran
  <2> QED BY <2>2, <2>3
<1>8. CASE buffer' = buf /\ batch' = batch
  <2>1. Ran(buf) \cap batch = {}
    BY <1>1, <1>3 DEF Places, SettledOnce
  <2>2. Ran(buffer)' = Ran(buf)
    BY <1>8 DEF Ran
  <2> QED BY <1>4, <1>5, <1>6, <1>7, <1>8, <2>1, <2>2 DEF Places, SettledOnce
<1>9. CASE batch = {} /\ buffer' = <<>> /\ batch' = Ran(buf)
  <2>1. Ran(buffer)' = {} /\ DOMAIN buffer' = {}
    BY <1>9 DEF Ran
  <2> QED BY <1>4, <1>6, <1>9, <2>1 DEF Places, SettledOnce
<1> QED BY <1>2, <1>8, <1>9 DEF Moves

\* What the gate and the ledger do before the handoff, and what the provider answers,
\* moves no item through the queue.
LEMMA ItemPlaces ==
    ASSUME TypeOK, Places, NEW i \in Items,
           CheckHalt(i) \/ Asked(i) \/ Commit(i) \/ Settled(i) \/ Failed(i) \/ Report(i)
    PROVE  Places'
<1>1. CASE CheckHalt(i) \/ Asked(i) \/ Commit(i)
  <2>1. /\ UNCHANGED <<buffer, batch, answer>>
        /\ stage[i] \notin {"queued", "past"}
        /\ \A j \in Items : j # i => stage'[j] = stage[j]
    BY <1>1 DEF CheckHalt, Asked, Commit, queueVars, TypeOK
  <2>2. answer[i].step = "none" /\ i \notin Ran(buffer) /\ i \notin batch
    BY <2>1 DEF Places, SettledOnce
  <2>3. Ran(buffer) \in SUBSET Items /\ batch \in SUBSET Items
    BY RanSeq DEF TypeOK
  <2>4. Ran(buffer)' = Ran(buffer)
    BY <2>1 DEF Ran
  <2>5. SettledOnce'
    BY <2>1, <2>2, <2>3, <2>4 DEF Places, SettledOnce
  <2>6. \A j \in batch' : stage'[j] = "queued"
    BY <2>1, <2>2, <2>3 DEF Places
  <2>7. \A j \in Items : answer'[j].step # "none" => stage'[j] \in {"queued", "past"}
    BY <2>1, <2>2 DEF Places
  <2> QED BY <2>5, <2>6, <2>7 DEF Places
<1>2. CASE Settled(i) \/ Failed(i) \/ Report(i)
  <2>1. UNCHANGED <<buffer, batch, stage>> /\ i \in batch
    BY <1>2 DEF Settled, Failed, Report, InFlight, queueVars
  <2>2. \A j \in Items : j # i => answer'[j] = answer[j]
    BY <1>2 DEF Settled, Failed, Report, TypeOK
  <2>3. i \notin Ran(buffer) /\ stage[i] = "queued"
    BY <2>1 DEF Places, SettledOnce
  <2>4. Ran(buffer) \in SUBSET Items /\ batch \in SUBSET Items
    BY RanSeq DEF TypeOK
  <2>5. Ran(buffer)' = Ran(buffer) /\ DOMAIN buffer' = DOMAIN buffer
    BY <2>1 DEF Ran
  <2>6. SettledOnce'
    <3>1. \A j, k \in DOMAIN buffer' : buffer'[j] = buffer'[k] => j = k
      BY <2>1 DEF Places, SettledOnce
    <3>2. Ran(buffer)' \cap batch' = {}
      BY <2>1, <2>5 DEF Places, SettledOnce
    <3>3. \A j \in Ran(buffer) : answer'[j] = answer[j]
      BY <2>2, <2>3, <2>4
    <3>4. \A j \in Ran(buffer)' : answer'[j].step = "none" /\ stage'[j] = "queued"
      BY <2>1, <2>5, <3>3 DEF Places, SettledOnce
    <3> QED BY <3>1, <3>2, <3>4 DEF SettledOnce
  <2>7. \A j \in batch' : stage'[j] = "queued"
    BY <2>1 DEF Places
  <2>8. \A j \in Items : answer'[j].step # "none" => stage'[j] \in {"queued", "past"}
    BY <2>1, <2>2, <2>3 DEF Places
  <2> QED BY <2>6, <2>7, <2>8 DEF Places
<1> QED BY <1>1, <1>2

LEMMA NextPlaces ==
    ASSUME TypeOK, Places, [Next]_vars
    PROVE  Places'
<1>1. CASE Shift
  BY <1>1, ShiftMoves, MovesPlaces
<1>2. CASE BatchEnds
  BY <1>2 DEF BatchEnds, Places, SettledOnce, Ran
<1>3. CASE Crash
  <2>1. buffer' = <<>> /\ batch' = {} /\ answer' = answer
    BY <1>3 DEF Crash
  <2>2. Ran(buffer)' = {} /\ DOMAIN buffer' = {}
    BY <2>1 DEF Ran
  <2>3. \A j \in Items : stage[j] \in {"queued", "past"} => stage'[j] = "past"
    BY <1>3 DEF Crash, TypeOK
  <2> QED BY <2>1, <2>2, <2>3 DEF Places, SettledOnce
<1>4. CASE UNCHANGED vars
  BY <1>4 DEF vars, Places, SettledOnce, Ran
<1> QED BY <1>1, <1>2, <1>3, <1>4, NextCases, HandOffPlaces, ItemPlaces

\* SettlementQueue.splice and settleBatch: the provider is asked at most once to settle an
\* authorisation, however timers, full buffers, ends of sessions and shutdown interleave.
THEOREM NeverTwice == Spec => []SettledOnce
<1>1. Init => Places
  BY DEF Init, Places, SettledOnce, Ran, NoAnswer
<1>2. TypeOK /\ Places /\ [Next]_vars => Places'
  BY NextPlaces
<1>3. Places => SettledOnce
  BY DEF Places
<1>4. QED
  BY <1>1, <1>2, <1>3, TypeCorrect, PTL DEF Spec

-----------------------------------------------------------------------------
(* Evidence.                                                               *)

LEMMA ReportEvidence ==
    ASSUME TypeOK, Evidence, NEW i \in Items, Report(i)
    PROVE  Evidence'
<1>1. /\ moved' = moved
      /\ answer' = [answer EXCEPT ![i] = [@ EXCEPT !.step = "done"]]
  BY DEF Report
<1>2. Paid'
  BY <1>1 DEF Evidence, Paid, TypeOK
<1>3. CASE answer[i].ref = NoRef
  <2>1. records' = records /\ \A j \in Items : status'[j] = "completed" => status[j] = "completed"
    BY <1>3 DEF Report, Record, TypeOK
  <2> QED BY <1>1, <1>2, <2>1 DEF Evidence, CompletedHasEvidence
<1>4. CASE answer[i].ref # NoRef /\ UNCHANGED <<status, records>>
  BY <1>1, <1>2, <1>4 DEF Evidence, CompletedHasEvidence
<1>5. CASE /\ ~Recorded(answer[i].ref)
           /\ status' = [status EXCEPT ![i] = "completed"]
           /\ records' = records \cup {[ref |-> answer[i].ref, item |-> i]}
           /\ answer[i].ref # NoRef
  <2> DEFINE new == [ref |-> answer[i].ref, item |-> i]
  <2>1. i \in moved'
    BY <1>1, <1>5 DEF Evidence, Paid
  <2>2. new \in records' /\ new.item = i
    BY <1>5
  <2>3. \A j \in Items : j # i => status'[j] = status[j]
    BY <1>5 DEF TypeOK
  <2>4. \A j \in Items : status'[j] = "completed" =>
           j \in moved' /\ \E e \in records' : e.item = j
    <3> SUFFICES ASSUME NEW j \in Items, status'[j] = "completed"
                 PROVE  j \in moved' /\ \E e \in records' : e.item = j
      OBVIOUS
    <3>1. CASE j = i
      BY <2>1, <2>2, <3>1
    <3>2. CASE j # i
      BY <1>1, <1>5, <2>3, <3>2 DEF Evidence, CompletedHasEvidence
    <3> QED BY <3>1, <3>2
  <2>5. \A e \in records : e.ref # answer[i].ref
    BY <1>5 DEF Recorded
  <2>6. \A e, f \in records' : e.ref = f.ref => e = f
    BY <1>5, <2>5 DEF Evidence, CompletedHasEvidence
  <2> QED BY <1>2, <2>4, <2>6 DEF Evidence, CompletedHasEvidence
<1> QED BY <1>3, <1>4, <1>5 DEF Report, Record

LEMMA AnswerEvidence ==
    ASSUME TypeOK, Evidence, NEW i \in Items, Settled(i) \/ Failed(i)
    PROVE  Evidence'
<1>1. moved \subseteq moved' /\ UNCHANGED <<status, records>>
  BY DEF Settled, Failed
<1>2. \A j \in Items : j # i => answer'[j] = answer[j]
  BY DEF Settled, Failed, TypeOK
<1>3. /\ answer'[i].paid => i \in moved'
      /\ answer'[i].ref # NoRef => answer'[i].paid
  BY DEF Settled, Failed, TypeOK
<1>4. Paid'
  BY <1>1, <1>2, <1>3 DEF Evidence, Paid
<1>5. CompletedHasEvidence'
  BY <1>1 DEF Evidence, CompletedHasEvidence
<1> QED BY <1>4, <1>5 DEF Evidence

LEMMA NextEvidence ==
    ASSUME TypeOK, Evidence, [Next]_vars
    PROVE  Evidence'
<1>1. ASSUME moved \subseteq moved', UNCHANGED <<answer, records>>,
             \A j \in Items : status'[j] = "completed" => status[j] = "completed"
      PROVE  Evidence'
  BY <1>1 DEF Evidence, Paid, CompletedHasEvidence
<1>2. CASE Shift
  BY <1>1, <1>2, ShiftMoves
<1>3. CASE BatchEnds
  BY <1>1, <1>3 DEF BatchEnds
<1>4. CASE Crash
  BY <1>1, <1>4 DEF Crash
<1>5. ASSUME NEW i \in Items, CheckHalt(i) \/ Asked(i) \/ Commit(i) \/ HandOff(i)
      PROVE  Evidence'
  BY <1>1, <1>5 DEF CheckHalt, Asked, Commit, HandOff, TypeOK
<1>6. CASE UNCHANGED vars
  BY <1>1, <1>6 DEF vars
<1> QED BY <1>2, <1>3, <1>4, <1>5, <1>6, NextCases, ReportEvidence, AnswerEvidence

\* onSettled and recordSettlementRange: a bundle is completed only when its money moved
\* and a settlement is linked to it, and one reference completes one bundle.
THEOREM CompletedIsSettled == Spec => []CompletedHasEvidence
<1>1. Init => Evidence
  BY DEF Init, Evidence, Paid, CompletedHasEvidence, NoAnswer
<1>2. TypeOK /\ Evidence /\ [Next]_vars => Evidence'
  BY NextEvidence
<1>3. Evidence => CompletedHasEvidence
  BY DEF Evidence
<1>4. QED
  BY <1>1, <1>2, <1>3, TypeCorrect, PTL DEF Spec

-----------------------------------------------------------------------------
(* Halted sessions.                                                        *)

LEMMA NextFailures ==
    ASSUME TypeOK, Paid, Failures, [Next]_vars
    PROVE  Failures'
<1>1. ASSUME UNCHANGED <<answer, halted, crashes>>,
             \A j \in Items : status'[j] = "failed" => status[j] = "failed"
      PROVE  Failures'
  BY <1>1 DEF Failures, Halts, FailureHalts
<1>2. CASE Shift
  BY <1>1, <1>2, ShiftMoves
<1>3. CASE BatchEnds
  BY <1>1, <1>3 DEF BatchEnds
<1>4. CASE Crash
  <2>1. crashes' # 0
    BY <1>4 DEF Crash, TypeOK
  <2> QED BY <2>1 DEF Failures, Halts, FailureHalts
<1>5. ASSUME NEW i \in Items, CheckHalt(i) \/ Asked(i) \/ Commit(i) \/ HandOff(i)
      PROVE  Failures'
  BY <1>1, <1>5 DEF CheckHalt, Asked, Commit, HandOff, TypeOK
<1>6. ASSUME NEW i \in Items, Settled(i) \/ Failed(i) PROVE Failures'
  <2>1. /\ halted \subseteq halted' /\ UNCHANGED <<status, crashes>>
        /\ \A j \in Items : j # i => answer'[j] = answer[j]
    BY <1>6 DEF Settled, Failed, TypeOK
  <2>2. answer'[i].paid \/ SessionOf[i] \in halted'
    BY <1>6 DEF Settled, Failed, TypeOK
  <2> QED BY <2>1, <2>2 DEF Failures, Halts, FailureHalts
<1>7. ASSUME NEW i \in Items, Report(i) PROVE Failures'
  <2>1. /\ UNCHANGED <<halted, crashes>> /\ answer[i].step = "report"
        /\ \A j \in Items : answer'[j].paid = answer[j].paid
        /\ \A j \in Items : j # i => answer'[j] = answer[j]
    BY <1>7 DEF Report, TypeOK
  <2>2. \A j \in Items : j # i => status'[j] = status[j]
    BY <1>7 DEF Report, Record, TypeOK
  <2>3. status'[i] = "failed" => status[i] = "failed" \/ ~answer[i].paid
    BY <1>7 DEF Report, Record, TypeOK
  <2> QED BY <2>1, <2>2, <2>3 DEF Failures, Halts, FailureHalts
<1>8. CASE UNCHANGED vars
  BY <1>1, <1>8 DEF vars
<1> QED BY <1>2, <1>3, <1>4, <1>5, <1>6, <1>7, <1>8, NextCases

\* haltedSessions: whoever reads a failure in the ledger finds the session halted, within
\* one life of the process.
THEOREM FailureIsHalted == Spec => []FailureHalts
<1>1. Init => Paid /\ Failures
  BY DEF Init, Paid, Failures, Halts, FailureHalts, NoAnswer
<1>2. TypeOK /\ Evidence /\ Failures /\ [Next]_vars => Evidence' /\ Failures'
  BY NextEvidence, NextFailures DEF Evidence
<1>3. Init => Evidence
  BY DEF Init, Evidence, Paid, CompletedHasEvidence, NoAnswer
<1>4. Failures => FailureHalts
  BY DEF Failures
<1>5. QED
  BY <1>1, <1>2, <1>3, <1>4, TypeCorrect, PTL DEF Spec

-----------------------------------------------------------------------------
(* Shutdown.                                                               *)

LEMMA NextDraining ==
    ASSUME TypeOK, Draining, [Next]_vars
    PROVE  Draining'
<1>1. CASE Shift /\ ~Shutdown /\ ~DrainLoop
  <2>1. Moves(buffer) /\ UNCHANGED <<answer, scope>>
    BY <1>1, ShiftMoves DEF Shift, TimerFires, FollowUp, EndSession
  <2>2. Covering'
    BY <2>1, RanEmpty DEF Draining, Covering, Moves, Ran
  <2>3. call'["drain"] = "drained" => call["drain"] = "drained"
    BY <1>1 DEF Shift, TimerFires, FollowUp, EndSession, Flush, TypeOK, Calls
  <2> QED BY <2>1, <2>2, <2>3 DEF Draining, DrainSettles
<1>2. CASE Shutdown
  <2>1. answer' = answer /\ scope' = Ran(buffer) \cup batch /\ Moves(buffer)
    BY <1>2, ShiftMoves DEF Shutdown, Shift
  <2>2. Covering'
    BY <2>1 DEF Covering, Moves, Ran
  <2>3. CASE buffer = <<>> /\ batch = {}
    <3>1. scope' = {}
      BY <2>1, <2>3, RanEmpty
    <3> QED BY <2>2, <3>1 DEF Draining, DrainSettles
  <2>4. CASE buffer # <<>> \/ batch # {}
    <3>1. call'["drain"] # "drained"
      BY <1>2, <2>4 DEF Shutdown, Flush, TypeOK
    <3> QED BY <2>2, <3>1 DEF Draining, DrainSettles
  <2> QED BY <2>3, <2>4
<1>3. CASE DrainLoop
  <2>1. UNCHANGED <<answer, scope>> /\ Moves(buffer)
    BY <1>3, ShiftMoves DEF DrainLoop, Shift
  <2>2. Covering'
    BY <2>1 DEF Draining, Covering, Moves, Ran
  <2>3. CASE buffer = <<>> /\ batch = {}
    <3>1. \A i \in scope : answer[i].step = "done"
      BY <2>3, RanEmpty DEF Draining, Covering
    <3> QED BY <2>1, <2>2, <3>1 DEF Draining, DrainSettles
  <2>4. CASE buffer # <<>> \/ batch # {}
    <3>1. call'["drain"] # "drained"
      BY <1>3, <2>4 DEF DrainLoop, Flush, TypeOK
    <3> QED BY <2>2, <3>1 DEF Draining, DrainSettles
  <2> QED BY <2>3, <2>4
<1>4. CASE BatchEnds
  <2>1. /\ UNCHANGED <<answer, scope, buffer>> /\ \A i \in batch : answer[i].step = "done"
        /\ call'["drain"] = "drained" => call["drain"] = "drained"
    BY <1>4 DEF BatchEnds, TypeOK, Calls
  <2> QED BY <2>1 DEF Draining, Covering, DrainSettles, Ran
<1>5. CASE Crash
  BY <1>5 DEF Crash, Draining, Covering, DrainSettles
<1>6. ASSUME NEW i \in Items, HandOff(i) PROVE Draining'
  <2>1. UNCHANGED <<answer, scope>> /\ Moves(Append(buffer, i))
    BY <1>6, EnqueueMoves DEF HandOff
  <2>2. Ran(Append(buffer, i)) = Ran(buffer) \cup {i}
    BY RanAppend DEF TypeOK
  <2>3. Ran(buffer)' = Ran(buffer')
    BY DEF Ran
  <2>4. Covering'
    BY <2>1, <2>2, <2>3 DEF Draining, Covering, Moves
  <2>5. call'["drain"] = call["drain"]
    BY <1>6 DEF HandOff, Enqueue, Flush, TypeOK
  <2> QED BY <2>1, <2>4, <2>5 DEF Draining, DrainSettles
<1>7. ASSUME NEW i \in Items,
             CheckHalt(i) \/ Asked(i) \/ Commit(i) \/ Settled(i) \/ Failed(i) \/ Report(i)
      PROVE  Draining'
  <2>1. UNCHANGED <<buffer, batch, call, scope>>
    BY <1>7 DEF CheckHalt, Asked, Commit, Settled, Failed, Report, queueVars
  <2>2. \A j \in Items : answer[j].step = "done" => answer'[j].step = "done"
    BY <1>7 DEF CheckHalt, Asked, Commit, Settled, Failed, Report, InFlight, TypeOK
  <2>3. scope \subseteq Items
    BY DEF TypeOK
  <2> QED BY <2>1, <2>2, <2>3 DEF Draining, Covering, DrainSettles, Ran
<1>8. CASE UNCHANGED vars
  BY <1>8 DEF vars, Draining, Covering, DrainSettles, Ran
<1> QED BY <1>1, <1>2, <1>3, <1>4, <1>5, <1>6, <1>7, <1>8, NextCases

\* SettlementQueue.drain: when shutdown returns, everything queued when it began has been
\* settled and reported, whatever other flushes it coalesced with.
THEOREM DrainIsComplete == Spec => []DrainSettles
<1>1. Init => Draining
  BY DEF Init, Draining, Covering, DrainSettles
<1>2. TypeOK /\ Draining /\ [Next]_vars => Draining'
  BY NextDraining
<1>3. Draining => DrainSettles
  BY DEF Draining
<1>4. QED
  BY <1>1, <1>2, <1>3, TypeCorrect, PTL DEF Spec

-----------------------------------------------------------------------------
(* Settlement keeps the bills of Billing.                                  *)

\* How far an item has come in the gateway is how far its bundle has in the ledger: one
\* the ledger does not have was presented to nobody, and one on its way is authorized.
BillInv ==
    \A i \in Items :
        /\ stage[i] \in {"idle", "asking", "recording", "refused"} =>
              status[i] = "none" /\ i \notin moved
        /\ stage[i] \in {"committed", "queued"} /\ answer[i].step # "done" =>
              status[i] = "authorized"
        /\ answer[i].step = "none" /\ stage[i] # "past" => i \notin moved

\* All that the refinement needs of a state.
Bills == TypeOK /\ Places /\ Evidence /\ BillInv

\* The gate, the ledger, the handoff, the provider and the report, item by item.
LEMMA ItemBills ==
    ASSUME Bills, NEW i \in Items, ItemStep(i)
    PROVE  BillInv'
<1>0. TypeOK
  BY DEF Bills
<1>1. \A j \in Items : j # i => /\ stage'[j] = stage[j] /\ status'[j] = status[j]
                                /\ answer'[j] = answer[j]
                                /\ j \in moved' => j \in moved
  BY <1>0 DEF ItemStep, CheckHalt, Asked, Commit, HandOff, Settled, Failed, Report, Record, TypeOK
<1>2. /\ answer[i].step # "none" => stage[i] \in {"queued", "past"}
      /\ i \in batch => stage[i] = "queued"
  BY DEF Bills, Places
<1> DEFINE Sound == /\ stage'[i] \in {"idle", "asking", "recording", "refused"} =>
                          status'[i] = "none" /\ i \notin moved'
                    /\ stage'[i] \in {"committed", "queued"} /\ answer'[i].step # "done" =>
                          status'[i] = "authorized"
                    /\ answer'[i].step = "none" /\ stage'[i] # "past" => i \notin moved'
<1>3. CASE CheckHalt(i) \/ Asked(i) \/ Commit(i) \/ HandOff(i)
  <2>1. /\ answer' = answer /\ moved' = moved
        /\ stage[i] \in {"idle", "asking", "recording", "committed"}
    BY <1>3 DEF CheckHalt, Asked, Commit, HandOff
  <2>2. answer[i].step = "none"
    BY <1>2, <2>1
  <2>3. /\ stage'[i] \in {"asking", "recording", "refused"} => status'[i] = status[i] /\ stage[i] # "committed"
        /\ stage'[i] \in {"committed", "queued"} => status'[i] = "authorized"
        /\ stage'[i] \in {"asking", "recording", "refused", "committed", "queued"}
    BY <1>0, <1>3, <2>2 DEF CheckHalt, Asked, Commit, HandOff, Bills, BillInv, TypeOK
  <2>4. i \notin moved
    BY <2>1, <2>2 DEF Bills, BillInv
  <2>5. Sound
    BY <2>1, <2>2, <2>3, <2>4 DEF Bills, BillInv
  <2> QED BY <1>1, <2>1, <2>5 DEF Bills, BillInv
<1>4. CASE Settled(i) \/ Failed(i) \/ Report(i)
  <2>1. stage' = stage /\ i \in batch
    BY <1>4 DEF Settled, Failed, Report, InFlight
  <2>2. stage[i] = "queued" /\ answer'[i].step # "none"
    BY <1>0, <1>2, <1>4, <2>1 DEF Settled, Failed, Report, TypeOK
  <2>3. answer'[i].step # "done" => status' = status /\ answer[i].step # "done"
    BY <1>0, <1>4 DEF Settled, Failed, Report, InFlight, TypeOK
  <2>4. Sound
    BY <2>1, <2>2, <2>3 DEF Bills, BillInv
  <2> QED BY <1>1, <2>1, <2>4 DEF Bills, BillInv
<1> QED BY <1>3, <1>4 DEF ItemStep

\* And whatever else happens.
LEMMA NextBills ==
    ASSUME Bills, [Next]_vars
    PROVE  BillInv'
<1>1. CASE Shift
  BY <1>1, ShiftMoves DEF Bills, BillInv
<1>2. CASE BatchEnds
  BY <1>2 DEF BatchEnds, Bills, BillInv
<1>3. CASE Crash
  <2>1. \A i \in Items : stage'[i] = IF stage[i] \in {"idle", "refused"} THEN stage[i] ELSE "past"
    BY <1>3 DEF Crash
  <2>2. UNCHANGED <<answer, status>>
    BY <1>3 DEF Crash
  <2>3. \A i \in Items : i \in moved' => i \in moved \/ stage[i] = "queued"
    BY <1>3 DEF Crash, Bills, Places
  <2> QED BY <2>1, <2>2, <2>3 DEF Bills, BillInv
<1>4. CASE UNCHANGED vars
  BY <1>4 DEF vars, Bills, BillInv
<1> QED BY <1>1, <1>2, <1>3, <1>4, NextCases, ItemBills DEF ItemStep

\* A step that presents some authorized bundles, and moves the money of some of them.
LEMMA PresentIsAsk ==
    ASSUME Bills, NEW some \in SUBSET Items, NEW more \in SUBSET some,
           \A i \in some : status[i] = "authorized" /\ i \notin Presented,
           Presented' = Presented \cup some, moved' = moved \cup more,
           UNCHANGED <<status, records>>
    PROVE  B!Next
<1>1. some \in SUBSET {i \in Items \ Presented : status[i] = "authorized"}
  OBVIOUS
<1>2. B!Ask
  BY <1>1 DEF B!Ask
<1> QED BY <1>2 DEF B!Next

\* The provider's answer, and what is reported of it.
LEMMA AnswerIsBilled ==
    ASSUME Bills, NEW i \in Items, Settled(i) \/ Failed(i)
    PROVE  B!Next
<1>0. TypeOK
  BY DEF Bills
<1>1. i \in batch /\ answer[i].step = "none" /\ stage[i] = "queued"
  BY DEF Settled, Failed, InFlight, Bills, Places
<1>2. status[i] = "authorized" /\ i \notin moved /\ i \notin Presented
  BY <1>1 DEF Bills, BillInv, Presented
<1>3. /\ answer'[i].step = "report"
      /\ \A j \in Items : j # i => answer'[j] = answer[j]
      /\ UNCHANGED <<status, records>>
  BY <1>0 DEF Settled, Failed, TypeOK
<1>4. PICK more \in SUBSET {i} : moved' = moved \cup more
  <2>1. moved' = moved \cup {} \/ moved' = moved \cup {i}
    BY DEF Settled, Failed
  <2>2. {} \in SUBSET {i} /\ {i} \in SUBSET {i}
    OBVIOUS
  <2> QED BY <2>1, <2>2
<1>5. Presented' = Presented \cup {i}
  BY <1>3, <1>4 DEF Presented
<1>6. {i} \in SUBSET Items /\ \A j \in {i} : status[j] = "authorized" /\ j \notin Presented
  BY <1>2
<1> QED BY <1>3, <1>4, <1>5, <1>6, PresentIsAsk

LEMMA ReportIsBilled ==
    ASSUME Bills, NEW i \in Items, Report(i)
    PROVE  B!Next \/ UNCHANGED <<status, Presented, moved, records>>
<1>0. TypeOK
  BY DEF Bills
<1>1. i \in batch /\ answer[i].step = "report" /\ moved' = moved
  BY DEF Report
<1>2. status[i] = "authorized" /\ i \in Presented
  BY <1>1 DEF Bills, Places, BillInv, Presented
<1>3. Presented' = Presented
  <2>1. \A j \in Items : answer'[j].step = "none" <=> answer[j].step = "none"
    BY <1>0, <1>1 DEF Report, TypeOK
  <2> QED BY <1>1, <2>1 DEF Presented
<1>4. CASE status' = [status EXCEPT ![i] = "failed"] /\ UNCHANGED records
  BY <1>1, <1>2, <1>3, <1>4 DEF B!Next, B!Fail
<1>5. CASE /\ answer[i].ref # NoRef
           /\ ~Recorded(answer[i].ref)
           /\ status' = [status EXCEPT ![i] = "completed"]
           /\ records' = records \cup {[ref |-> answer[i].ref, item |-> i]}
  <2>1. i \in moved
    BY <1>5 DEF Bills, Evidence, Paid
  <2>2. answer[i].ref \in Refs /\ \A e \in records : e.ref # answer[i].ref
    BY <1>0, <1>5 DEF TypeOK, Recorded
  <2> QED BY <1>1, <1>2, <1>3, <1>5, <2>1, <2>2 DEF B!Next, B!Complete
<1>6. CASE UNCHANGED <<status, records>>
  BY <1>1, <1>3, <1>6
<1> QED BY <1>4, <1>5, <1>6 DEF Report, Record

\* A commit authorizes, the end of the process may move money that was asked for, and
\* nothing else shows.
LEMMA NextIsBilled ==
    ASSUME Bills, [Next]_vars
    PROVE  B!Next \/ UNCHANGED <<status, Presented, moved, records>>
<1>0. TypeOK
  BY DEF Bills
<1>1. CASE Shift
  BY <1>1, <1>0, ShiftMoves DEF Presented
<1>2. CASE BatchEnds
  BY <1>2 DEF BatchEnds, Presented
<1>3. CASE Crash
  <2>1. PICK more \in SUBSET {i \in batch : InFlight(i)} : moved' = moved \cup more
    BY <1>3 DEF Crash
  <2>2. UNCHANGED <<answer, status, records>>
    BY <1>3 DEF Crash
  <2>3. more \in SUBSET Items /\ \A i \in more : status[i] = "authorized" /\ i \notin Presented
    BY <1>0, <2>1 DEF InFlight, Bills, Places, BillInv, Presented, TypeOK
  <2>4. Presented' = Presented \cup more
    BY <2>1, <2>2, <2>3 DEF Presented
  <2> QED BY <2>1, <2>2, <2>3, <2>4, PresentIsAsk
<1>4. ASSUME NEW i \in Items, CheckHalt(i) \/ Asked(i) \/ HandOff(i)
      PROVE  UNCHANGED <<status, Presented, moved, records>>
  BY <1>4 DEF CheckHalt, Asked, HandOff, Presented
<1>5. ASSUME NEW i \in Items, Commit(i)
      PROVE  B!Next \/ UNCHANGED <<status, Presented, moved, records>>
  <2>1. UNCHANGED <<Presented, moved, records>>
    BY <1>5 DEF Commit, Presented
  <2>2. status[i] = "none" /\ i \notin Presented
    BY <1>5 DEF Commit, Bills, Places, BillInv, Presented
  <2>3. status' = status \/ status' = [status EXCEPT ![i] = "authorized"]
    BY <1>5 DEF Commit
  <2> QED BY <2>1, <2>2, <2>3 DEF B!Next, B!Authorize
<1>6. CASE UNCHANGED vars
  BY <1>6 DEF vars, Presented
<1> QED BY <1>1, <1>2, <1>3, <1>4, <1>5, <1>6, NextCases, AnswerIsBilled, ReportIsBilled

\* Settlement implements Billing, for any number of bundles, batches and process ends:
\* money moves only of bundles in the ledger, an outcome comes of an answer and is final.
THEOREM SettlementBills == Spec => BillsStand
<1>1. Init => Bills
  <2> SUFFICES ASSUME Init PROVE Bills
    OBVIOUS
  <2>1. Places /\ Evidence
    BY DEF Init, Places, SettledOnce, Ran, Evidence, Paid, CompletedHasEvidence, NoAnswer
  <2>2. BillInv
    BY DEF Init, BillInv, NoAnswer
  <2> QED BY <2>1, <2>2, InitType DEF Bills
<1>2. Bills /\ [Next]_vars => Bills'
  BY NextType, NextPlaces, NextEvidence, NextBills DEF Bills
<1>3. Init => B!Init
  BY DEF Init, B!Init, Presented, NoAnswer
<1>4. Bills /\ [Next]_vars => [B!Next]_<<status, Presented, moved, records>>
  BY NextIsBilled
<1>5. QED
  BY <1>1, <1>2, <1>3, <1>4, PTL DEF Spec, BillsStand, B!Spec

-----------------------------------------------------------------------------
(* Settlement on the request path.                                         *)

\* To each mode a step of the other is a stutter.
LEMMA ModesParts ==
    ModesSpec => Spec /\ Inline!Spec
<1>1. ModesInit => Init /\ Inline!Init
  BY DEF ModesInit
<1>2. [Queueing \/ Settling]_<<mode, vars, reading>> => [Next]_vars
  BY DEF Queueing, Settling
<1>3. [Queueing \/ Settling]_<<mode, vars, reading>> => [Inline!Next]_(Inline!vars)
  BY DEF Queueing, Settling, reading, Inline!vars
<1>4. QED
  BY <1>1, <1>2, <1>3, PTL DEF ModesSpec, Spec, Inline!Spec

\* synchronousSettlement: verify moves the money first, so the words of every bundle are
\* covered by a charge of their own, whichever requests race to commit.
THEOREM InlineCharges == ModesSpec => []ChargedBeforeRelease
<1>1. Inline!Spec => []Inline!ChargedBeforeRelease
  BY ModesAssumption, Inline!ChargesComeFirst
<1>2. QED
  BY <1>1, ModesParts, PTL DEF ChargedBeforeRelease

\* And the charges of all its bundles together stay within the budget.
THEOREM InlineBudgets == ModesSpec => []InlineInBudget
<1>1. Inline!Spec => []Inline!WithinBudget
  BY ModesAssumption, Inline!NeverOverBudget
<1>2. QED
  BY <1>1, ModesParts, PTL DEF InlineInBudget

\* Beside the other mode too, the outcomes of settlement stand.
THEOREM ModesBill == ModesSpec => BillsStand
  BY ModesParts, SettlementBills, PTL
=============================================================================
