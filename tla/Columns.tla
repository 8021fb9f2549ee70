------------------------------ MODULE Columns ------------------------------
(***************************************************************************)
(* How a request's changes reach a row.                                     *)
(*                                                                          *)
(* package/database/async_session.py builds every AsyncSession with         *)
(* expire_on_commit=False over MySQL's default REPEATABLE READ, and no      *)
(* service asks for a row lock (FOR UPDATE) or keeps a version column.  A   *)
(* request therefore computes on the values its first SELECT returned, and  *)
(* the commit writes, column by column, only the columns whose value        *)
(* differs from the loaded one, over whatever the row holds by then.        *)
(***************************************************************************)

\* One column of a row at commit: `cur' is what the table holds now, `loaded'
\* what the request read, `new' what it computed.  An unchanged column is not
\* part of the UPDATE statement.
Flush(cur, loaded, new) == IF new = loaded THEN cur ELSE new

=============================================================================
