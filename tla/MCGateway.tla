----------------------------- MODULE MCGateway -----------------------------
(* Small instances of Gateway for TLC.                                     *)
EXTENDS Gateway
CONSTANTS wechat, slack, discord, w1, w2, w3, k1, k2, k3, x1, x2, x3, chatW, chatK, chatX

MCPlatforms == {wechat, slack, discord}
MCKindOf == [p \in MCPlatforms |->
  CASE p = wechat -> "poll" [] p = slack -> "ack" [] OTHER -> "plain"]
MCMessages == {w1, w2, w3, k1, k2, k3, x1, x2, x3}
MCSessions == {chatW, chatK, chatX}
MCPlatformOf == [m \in MCMessages |->
  CASE m \in {w1, w2, w3} -> wechat [] m \in {k1, k2, k3} -> slack [] OTHER -> discord]
MCSessionOf == [m \in MCMessages |->
  CASE m \in {w1, w2, w3} -> chatW [] m \in {k1, k2, k3} -> chatK [] OTHER -> chatX]
MCNumber == [m \in MCMessages |->
  CASE m \in {w1, k1, x1} -> 1 [] m \in {w2, k2, x2} -> 2 [] OTHER -> 3]
MCCommandOf == [m \in MCMessages |->
  CASE m = x2 -> "stop" [] m = x3 -> "help" [] m = k2 -> "approve" [] m = k3 -> "reset"
    [] OTHER -> "text"]
MCAllowed == MCMessages \ {w3}
MCSkipped == {w2, k2}

\* Two messages in one chat of each listener, one of which may be a message to
\* skip or a command; a message that comes twice; two platforms at a time; an
\* unwelcome sender.
MCTraffic ==
  {{w1, w2}, {w3}, {k1}, {k2, k3}, {x1, x2}, {x1, x3}, {w1, x1}}
=============================================================================
