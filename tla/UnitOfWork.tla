----------------------------- MODULE UnitOfWork -----------------------------
(***************************************************************************)
(* How the ORM session the program uses writes a row back (SQLAlchemy, an  *)
(* external library; api/app/db.py and workers/scheduler.py build every    *)
(* sessionmaker with expire_on_commit=False).                              *)
(*                                                                         *)
(* The object keeps the column values it was loaded with.  At the flush    *)
(* an UPDATE names only the columns whose value now differs from the       *)
(* loaded one, with no version check: a column the code did not change     *)
(* keeps whatever another transaction committed meanwhile, and a column it *)
(* did change overwrites it.  READ COMMITTED lets both happen.             *)
(***************************************************************************)

(* The stored value of one column after a flush. *)
Column(stored, loaded, assigned) ==
  IF assigned = loaded THEN stored ELSE assigned
=============================================================================
