-------------------------- MODULE ScopedConnection --------------------------
(***************************************************************************)
(* A pooled Postgres connection as orgScopeMiddleware and runInOrgScope    *)
(* use it: a transaction that SET LOCAL app.current_org_id scopes to one   *)
(* organization, and statements that run in that transaction when one is   *)
(* open and commit by themselves when none is.  A statement that Postgres  *)
(* rejects aborts the open transaction; COMMIT of an aborted transaction   *)
(* is a ROLLBACK that reports success.                                     *)
(***************************************************************************)
CONSTANTS
  Orgs,        \* organizations
  Rows,        \* rows that requests insert
  EnforceRLS   \* the pool's role is subject to row-level security (fugu_app)

NoOrg == "no org"

Connection == [tx      : {"none", "open", "aborted", "broken"},
               org     : Orgs \cup {NoOrg},  \* app.current_org_id
               pending : SUBSET Rows]        \* written in the open transaction

Clean == [tx |-> "none", org |-> NoOrg, pending |-> {}]

\* BEGIN; then SET LOCAL app.current_org_id = '...', which ends with the transaction.
Begun(cn) == [cn EXCEPT !.tx = "open"]
Scoped(cn, o) == [cn EXCEPT !.org = o]

\* The policy tenant_isolation: organization_id = current_org_id().
Sees(cn, o) == ~EnforceRLS \/ cn.org = o

Works(cn) == cn.tx \in {"none", "open"}

\* The connection, and the committed rows, after an accepted write of `row'.
Written(cn, row) == IF cn.tx = "open" THEN [cn EXCEPT !.pending = @ \cup {row}] ELSE cn
Saved(cn, row, rows) == IF cn.tx = "open" THEN rows ELSE rows \cup {row}

\* The connection after a statement that raised an error.
Failed(cn) == IF cn.tx = "open" THEN [cn EXCEPT !.tx = "aborted", !.pending = {}] ELSE cn

\* COMMIT and ROLLBACK; a broken connection stays broken until it is released.
Ended(cn) == IF cn.tx = "broken" THEN cn ELSE Clean

\* pool.release: a broken connection is thrown away and replaced by a new one.
Released(cn) == IF cn.tx = "broken" THEN Clean ELSE cn

=============================================================================
