----------------------------- MODULE OrmSession -----------------------------
(***************************************************************************)
(* How an AsyncSession of the backend (app/core/database/session.py)       *)
(* writes a mapped row back.  SQLAlchemy itself is a library; what is      *)
(* stated here is what the configuration in session.py and the handlers'   *)
(* use of it rely on:                                                      *)
(*                                                                         *)
(*   - one session per request (get_db), whose identity map returns the    *)
(*     object loaded first, with the attribute values loaded first, when   *)
(*     the same row is selected again;                                     *)
(*   - commit() flushes an UPDATE of the attributes whose value differs    *)
(*     from the loaded one, WHERE primary key only: there is no version    *)
(*     column and no SELECT FOR UPDATE, so the other columns keep whatever *)
(*     a concurrent transaction left in them;                              *)
(*   - expire_on_commit=False, so nothing is reloaded behind the handler.  *)
(*                                                                         *)
(* PostgreSQL runs at READ COMMITTED, so UPDATE and COMMIT of one          *)
(* transaction act on the row as one step.                                 *)
(***************************************************************************)

\* The columns of the object that differ from the values it was loaded with.
Dirty(loaded, object) == {c \in DOMAIN loaded : object[c] # loaded[c]}

\* Mutant of Flush: every attribute is written, loaded or changed.
FlushEveryColumn(row, loaded, object) == [c \in DOMAIN row |-> object[c]]

\* The stored row after the session flushes object, loaded earlier as loaded.
Flush(row, loaded, object) ==
    [c \in DOMAIN row |-> IF c \in Dirty(loaded, object) THEN object[c] ELSE row[c]]

=============================================================================
