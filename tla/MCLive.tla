------------------------------- MODULE MCLive -------------------------------
(* Liveness of the two halves of a paid request, side by side.  The first  *)
(* state chooses whether the session handlers or the settlement queue run; *)
(* the other half stays as it starts.  They share no state: what a handler *)
(* hands over is, for the queue, an item that may come at any time.        *)
EXTENDS PaidReading

CONSTANTS Items, Refs, NoRef

VARIABLES
    half,     \* "reading" or "settlement"
    stage, buffer, timer, batch, answer, call, halted, moved, status, records, scope,
    restarts  \* crashes of Settlement

queue == <<stage, buffer, timer, batch, answer, call, halted, moved, status, records,
           scope, restarts>>

S == INSTANCE Settlement WITH
    Sessions <- {"session"}, SessionOf <- [i \in Items |-> "session"], BatchSize <- 2,
    PersistFails <- TRUE, MaxCrashes <- 1, crashes <- restarts

TermsKey == <<0>>
ClientKeys == {TermsKey}

LiveInit == half \in {"reading", "settlement"} /\ Init /\ S!Init

Reading  == half = "reading" /\ Next /\ UNCHANGED <<half, queue>>
Settling == half = "settlement" /\ S!Next /\ UNCHANGED <<half, vars>>

LiveSpec ==
    /\ LiveInit
    /\ [][Reading \/ Settling]_<<half, vars, queue>>
    /\ Fairness
    /\ S!Fairness

EverythingSettles == S!EverythingSettles
DrainEnds == S!DrainEnds
=============================================================================
