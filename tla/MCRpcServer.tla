---------------------------- MODULE MCRpcServer ----------------------------
(* Small instances of RpcServer for TLC.                                   *)
EXTENDS RpcServer
CONSTANTS c1, c2, c3

MCConns == {c1, c2, c3}

Sends(x, y, z) == [c \in MCConns |-> CASE c = c1 -> x [] c = c2 -> y [] OTHER -> z]

\* A client that pipelines behind its run a cancel and another run, overlapped
\* by a second client; two clients and a cancel from a third; three runs that
\* may end in any order; a change of the model between runs; the odd lines.
MCWorkloads ==
  {Sends(<<"run", "cancel", "run", "eof">>, <<"run", "eof">>, <<>>),
   Sends(<<"run", "eof">>, <<"run">>, <<"cancel", "array">>),
   Sends(<<"run", "eof">>, <<"run">>, <<"run">>),
   Sends(<<"run", "call", "run">>, <<"switch", "run">>, <<"junk", "eof">>)}
=============================================================================
