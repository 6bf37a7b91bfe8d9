------------------------------- MODULE Billing -------------------------------
(***************************************************************************)
(* What settlement promises, with no queue, batch, timer or lost write in  *)
(* it: a bundle is authorized; the provider is asked for the money of an   *)
(* authorized bundle, and may move it whatever it answers; then the bundle *)
(* may be called failed, or completed, the latter only for money that was  *)
(* moved and with a reference that is evidence for no other.  What it is   *)
(* called and what is evidence for it stay as they are; a bundle that the  *)
(* provider was not asked for stays authorized.                            *)
(***************************************************************************)
CONSTANTS Items, Refs

VARIABLES
    status,   \* what each bundle is called
    asked,    \* bundles whose money the provider was asked for
    moved,    \* those whose money it moved
    evidence  \* references with the bundle they are linked to

Init ==
    /\ status = [i \in Items |-> "none"]
    /\ asked = {}
    /\ moved = {}
    /\ evidence = {}

Authorize ==
    /\ \E i \in Items \ asked : /\ status[i] = "none"
                                /\ status' = [status EXCEPT ![i] = "authorized"]
    /\ UNCHANGED <<asked, moved, evidence>>

Ask ==
    /\ \E some \in SUBSET {i \in Items \ asked : status[i] = "authorized"} :
          /\ asked' = asked \cup some
          /\ \E more \in SUBSET some : moved' = moved \cup more
    /\ UNCHANGED <<status, evidence>>

Fail ==
    /\ \E i \in asked : /\ status[i] = "authorized"
                        /\ status' = [status EXCEPT ![i] = "failed"]
    /\ UNCHANGED <<asked, moved, evidence>>

Complete ==
    /\ \E i \in moved, ref \in Refs :
          /\ status[i] = "authorized"
          /\ \A e \in evidence : e.ref # ref
          /\ status' = [status EXCEPT ![i] = "completed"]
          /\ evidence' = evidence \cup {[ref |-> ref, item |-> i]}
    /\ UNCHANGED <<asked, moved>>

Next == Authorize \/ Ask \/ Fail \/ Complete

Spec == Init /\ [][Next]_<<status, asked, moved, evidence>>
=============================================================================
