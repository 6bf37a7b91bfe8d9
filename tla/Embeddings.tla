------------------------------ MODULE Embeddings ------------------------------
(***************************************************************************)
(* The embeddings runner: it brings article_section_embeddings in line     *)
(* with the sections of an article, embedding what changed in batches and  *)
(* deleting what is gone.  It is started by hand or by a schedule, so two  *)
(* may overlap, it dies at the first failed call, and creators edit while  *)
(* it works.  Articles do not interact: one is modelled.                   *)
(***************************************************************************)
EXTENDS Integers, FiniteSets

CONSTANTS
    Ids,       \* section ids
    Contents,  \* what is hashed: title, heading and words of a section
    Absent,    \* no such section, or no such row
    Runners,
    Batch,     \* EMBED_BATCH_SIZE
    MaxEdits   \* bound: writes of the creator

VARIABLES
    live,      \* the article is live
    sections,  \* its sections
    table,     \* content_hash of the embedding rows
    runner,    \* [at, record, hashes, pending, alone]; alone: nothing else has changed
               \* the sections or the table since it started
    edited

vars == <<live, sections, table, runner, edited>>

Nothing == [i \in Ids |-> Absent]
Of(f)   == {i \in Ids : f[i] # Absent}
Idle    == [at |-> "idle", record |-> Nothing, hashes |-> Nothing, pending |-> {},
            alone |-> FALSE]

Init ==
    /\ live \in BOOLEAN
    /\ sections \in [Ids -> Contents \cup {Absent}]
    /\ table = Nothing
    /\ runner = [r \in Runners |-> Idle]
    /\ edited = 0

Interrupted(f) == [r \in Runners |-> [f[r] EXCEPT !.alone = FALSE]]

-----------------------------------------------------------------------------

\* The creator, another program: one article is published or withdrawn, or a section
\* changes.
Edit ==
    /\ edited < MaxEdits
    /\ edited' = edited + 1
    /\ \/ live' = ~live /\ UNCHANGED sections
       \/ /\ \E i \in Ids, c \in Contents \cup {Absent} :
                sections[i] # c /\ sections' = [sections EXCEPT ![i] = c]
          /\ UNCHANGED live
    /\ runner' = Interrupted(runner)
    /\ UNCHANGED table

Alone(r) == \A q \in Runners \ {r} : runner[q].at = "idle"

\* The list of live articles.
Begin(r) ==
    /\ runner[r].at = "idle"
    /\ live
    /\ runner' = [Interrupted(runner) EXCEPT ![r] = [Idle EXCEPT !.at = "get", !.alone = Alone(r)]]
    /\ UNCHANGED <<live, sections, table, edited>>

\* Its full record; the article is skipped when it is no longer live.
GetRecord(r) ==
    /\ runner[r].at = "get"
    /\ runner' = [runner EXCEPT ![r] =
                    IF live THEN [@ EXCEPT !.at = "hashes", !.record = sections] ELSE Idle]
    /\ UNCHANGED <<live, sections, table, edited>>

\* Variation: a section that has a row is left alone.
Changed_New(record, hashes) == {i \in Of(record) : hashes[i] = Absent}

\* Sections whose text is not what was embedded.
Changed(record, hashes) == {i \in Of(record) : hashes[i] # record[i]}

\* The rows there are, and with them the work.
GetHashes(r) ==
    /\ runner[r].at = "hashes"
    /\ runner' = [runner EXCEPT ![r] =
                    [@ EXCEPT !.at = "embed", !.hashes = table,
                              !.pending = Changed(runner[r].record, table)]]
    /\ UNCHANGED <<live, sections, table, edited>>

\* One batch is embedded, and written with one upsert.
EmbedBatch(r) ==
    /\ runner[r].at = "embed"
    /\ runner[r].pending # {}
    /\ \E batch \in SUBSET runner[r].pending :
          /\ batch # {}
          /\ Cardinality(batch) = Batch \/ batch = runner[r].pending
          /\ Cardinality(batch) <= Batch
          /\ runner' = [Interrupted(runner) EXCEPT ![r] =
                          [runner[r] EXCEPT !.pending = @ \ batch]]
          /\ table' = [i \in Ids |-> IF i \in batch THEN runner[r].record[i] ELSE table[i]]
    /\ UNCHANGED <<live, sections, edited>>

\* Rows of sections that are gone, among the rows it has seen; then the next article.
DeleteStale(r) ==
    LET stale == Of(runner[r].hashes) \ Of(runner[r].record)
    IN  /\ runner[r].at = "embed"
        /\ runner[r].pending = {}
        /\ runner' = [Interrupted(runner) EXCEPT ![r] = [runner[r] EXCEPT !.at = "done"]]
        /\ table' = [i \in Ids |-> IF i \in stale THEN Absent ELSE table[i]]
        /\ UNCHANGED <<live, sections, edited>>

End(r) ==
    /\ runner[r].at = "done"
    /\ runner' = [runner EXCEPT ![r] = Idle]
    /\ UNCHANGED <<live, sections, table, edited>>

\* A query fails, the model's provider refuses, or the process is killed.
Fail(r) ==
    /\ runner[r].at \notin {"idle", "done"}
    /\ runner' = [runner EXCEPT ![r] = Idle]
    /\ UNCHANGED <<live, sections, table, edited>>

Next ==
    \/ Edit
    \/ \E r \in Runners :
          \/ Begin(r) \/ GetRecord(r) \/ GetHashes(r) \/ EmbedBatch(r) \/ DeleteStale(r)
          \/ End(r) \/ Fail(r)

Spec == Init /\ [][Next]_vars

-----------------------------------------------------------------------------

TypeOK ==
    /\ live \in BOOLEAN
    /\ sections \in [Ids -> Contents \cup {Absent}]
    /\ table \in [Ids -> Contents \cup {Absent}]
    /\ runner \in [Runners -> [at : {"idle", "get", "hashes", "embed", "done"},
                               record : [Ids -> Contents \cup {Absent}],
                               hashes : [Ids -> Contents \cup {Absent}],
                               pending : SUBSET Ids, alone : BOOLEAN]]
    /\ edited \in 0 .. MaxEdits

\* A run that nothing overlapped leaves a row for each section, of its present text, and
\* no other, whatever earlier runs left behind: halves, stale rows, rows that overlapping
\* runs wrote from older texts.
EmbeddingsConverge ==
    \A r \in Runners : runner[r].at = "done" /\ runner[r].alone => table = sections
=============================================================================
