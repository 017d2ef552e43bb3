----------------------------- MODULE MCTaskQueue -----------------------------
(* Small instances of TaskQueue: one row, numbered 1.                       *)
EXTENDS TaskQueue

MCRows == {1}
=============================================================================
