---------------------------- MODULE MCStorefront ----------------------------
(* Instances of Storefront for TLC.                                        *)
EXTENDS Storefront

\* "v1" has three words under two headings; "v2" lost a word and one heading.
Lengths == [t \in Texts |-> IF t = "v1" THEN 3 ELSE 2]
SectionRows ==
    [t \in Texts |->
        IF t = "v1" THEN <<[id |-> "s1", start |-> 0, count |-> 1],
                           [id |-> "s2", start |-> 1, count |-> 2]>>
        ELSE <<[id |-> "s1", start |-> 0, count |-> 2]>>]

\* Everything; one section; two that come as a union; a range that runs past the end.
Asked == { Article, Named(<<"s2">>), Named(<<"s2", "s1">>), Words(1, 9) }

-----------------------------------------------------------------------------
(* What the repository says of an edited article and the code does not     *)
(* keep.                                                                   *)

\* An open session goes on against the snapshot of the article captured when it started.
\* The words are kept in memory only; after a restart they are cut from the article as it
\* is by then.
SnapshotKept == \A r \in Readers : got[r] = SubSeq(chosen[r], 1, Len(got[r]))
=============================================================================
