--------------------------- MODULE MCLogProcessor ---------------------------
EXTENDS LogProcessor

TheSidOf == [e \in Events \cup UsageRows |-> IF e \in UsageRows THEN Unknown ELSE "sid"]
TheTypeOf == [e \in Events \cup UsageRows |->
    CASE e = "start" -> "session_start" [] e = "end" -> "session_end" [] OTHER -> "other"]
=============================================================================
