--------------------------- MODULE DocumentStore ---------------------------
(***************************************************************************)
(* The documents table (database/schema.sql) and the statements of         *)
(* api/app/db.py the engine runs on it.  One statement is one atomic step. *)
(***************************************************************************)
EXTENDS CagParameters

CONSTANTS
    Text,       \* document contents, up to equality of content_sha256
    TextOf      \* the content id d is given to if it is ever inserted

ASSUME TextOfAssumption == TextOf \in [Doc -> Text]

VARIABLES
    row,        \* the status of the row with id d; "unborn" before it is
                \* inserted, "gone" after it is deleted
    hasFile     \* whether its cache_file is set (the name is then doc-<d>.bin)

storeVars == <<row, hasFile>>

Status == {"pending", "cached", "failed"}
Live == {d \in Doc : row[d] \in Status}

StoreTypeOK ==
    /\ row \in [Doc -> Status \cup {"unborn", "gone"}]
    /\ hasFile \in [Doc -> BOOLEAN]

StoreInit ==
    /\ row = [d \in Doc |-> "unborn"]
    /\ hasFile = [d \in Doc |-> FALSE]

FindBySha(x) == {d \in Live : TextOf[d] = x}

\* INSERT succeeds when no live row has the content (UNIQUE content_sha256).
InsertDocument(d) ==
    /\ row[d] = "unborn"
    /\ FindBySha(TextOf[d]) = {}
    /\ row' = [row EXCEPT ![d] = "pending"]
    /\ UNCHANGED hasFile

\* Mutant of RowFound: the UPDATE has "AND status = 'pending'".
RowFoundPending(d) == row[d] = "pending"

\* Whether UPDATE ... WHERE id = d RETURNING id returns a row: mark_cached's
\* result, FALSE once the document is deleted.
RowFound(d) == d \in Live

MarkCached(d) ==
    /\ RowFound(d)
    /\ row' = [row EXCEPT ![d] = "cached"]
    /\ hasFile' = [hasFile EXCEPT ![d] = TRUE]

MarkFailed(d) ==
    /\ row' = [row EXCEPT ![d] = IF d \in Live THEN "failed" ELSE @]
    /\ UNCHANGED hasFile

DeleteDocument(d) ==
    /\ d \in Live
    /\ row' = [row EXCEPT ![d] = "gone"]
    /\ hasFile' = [hasFile EXCEPT ![d] = FALSE]
=============================================================================
