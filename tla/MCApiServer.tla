---------------------------- MODULE MCApiServer ----------------------------
(* A small instance of ApiServer for TLC.                                  *)
EXTENDS ApiServer
CONSTANTS t1, t2, c1, c2, c3, name1, name2

MCTasks == {t1, t2}
MCCalls == {c1, c2, c3}
MCNames == {name1, name2}
=============================================================================
