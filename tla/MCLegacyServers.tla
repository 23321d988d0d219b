--------------------------- MODULE MCLegacyServers ---------------------------
(* Two connections from one address or two; one connection where the       *)
(* honeypot keeps nothing in common.                                       *)
EXTENDS LegacyServers

CONSTANTS c1, c2, a1, a2

MCProtocols == {"tcp", "redis", "telnet", "postgres", "mysql"}

MCLines == [p \in MCProtocols |->
    CASE p = "tcp" -> {"data"}
      [] p = "redis" -> {"auth", "select", "set", "del", "flushall", "keys", "other", "half"}
      [] p = "telnet" -> {"line", "exit"}
      [] p = "postgres" -> {"ssl", "short", "startup", "password", "query", "parse", "bind",
                            "describe", "execute", "sync", "unknown", "malformed", "terminate",
                            "garbled"}
      [] OTHER -> {"set", "get", "malformed", "query"}]

MCSeats == [p \in MCProtocols |-> 
    CASE p = "postgres" -> {<<c1, a1>>}
      [] p = "telnet" -> {<<c1, a1>>, <<c2, a1>>, <<c2, a2>>}
      [] OTHER -> {<<c1, a1>>, <<c2, a2>>}]

MCMaxLines == [p \in MCProtocols |->
    CASE p = "tcp" -> 2 [] p = "redis" -> 2 [] p = "telnet" -> 2 [] p = "postgres" -> 7
      [] OTHER -> 2]
=============================================================================
