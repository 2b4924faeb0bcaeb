---- MODULE MCTerminal ----
(* An instance of Terminal for TLC: two tasks, the least for one to be     *)
(* taken for the other, and three lines from the server, so that a stream  *)
(* has more to bring than an interrupted task may still report, and than a *)
(* message may show.                                                       *)
EXTENDS Terminal
====
