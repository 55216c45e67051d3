------------------------- MODULE DocumentLifecycle -------------------------
(***************************************************************************)
(* What the ingestion pipeline promises about one document, as its owner   *)
(* and the search see it: a committed status, and whether a full set of    *)
(* its chunks can be found.  Status and chunks change together: there is   *)
(* no moment at which a document is READY without its chunks, and nobody   *)
(* sees the work in progress.                                              *)
(***************************************************************************)
VARIABLES
  status,     \* "absent", "pending", "ready" or "failed"
  searchable  \* a full set of chunks of the document is committed

vars == <<status, searchable>>

Init == status = "absent" /\ searchable = FALSE

\* The upload is accepted.
Accept ==
  /\ status = "absent" /\ ~searchable
  /\ status' = "pending"
  /\ UNCHANGED searchable

\* Some attempt succeeds: possibly after another one failed, or again.
Complete ==
  /\ status # "absent"
  /\ status' = "ready"
  /\ searchable' = TRUE

\* An attempt fails; chunks of an earlier success stay.
Fail ==
  /\ status # "absent"
  /\ status' = "failed"
  /\ UNCHANGED searchable

\* The owner deletes the document and its chunks.
Remove ==
  /\ status # "absent"
  /\ status' = "absent"
  /\ searchable' = FALSE

Next == Accept \/ Complete \/ Fail \/ Remove

Spec == Init /\ [][Next]_vars

=============================================================================
