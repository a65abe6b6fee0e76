----------------------------- MODULE OrmSession -----------------------------
(***************************************************************************)
(* What app/ relies on of an SQLAlchemy session, with the options of       *)
(* app/db/session.py: a session keeps the row it loaded, db.get returns    *)
(* that copy again without a query, and a flush writes the columns whose   *)
(* value was changed since, leaving the others as they are in the table.   *)
(***************************************************************************)

(* The row in the table after a flush by a session that loaded `loaded`    *)
(* and assigned it the columns `assigned`, when the table holds `current`. *)
Flushed(current, loaded, assigned) ==
    [c \in DOMAIN current |->
        IF assigned[c] = loaded[c] THEN current[c] ELSE assigned[c]]
=============================================================================
