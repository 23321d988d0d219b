----------------------------- MODULE MCIocWriter -----------------------------
EXTENDS IocWriter, TLC

CONSTANTS e1, e2, e3, s1, s2, a1, a2, url, c1, c2, hassh

\* Two sessions of one tool; the long event of the first has the URL of the other.
EventSession == e1 :> s1 @@ e2 :> s2 @@ e3 :> s1
SessionAddress == s1 :> a1 @@ s2 :> a2
EventIndicators == e1 :> {a1} @@ e2 :> {a2, url} @@ e3 :> {a1, url}
EventCommand == e1 :> c1 @@ e2 :> c1 @@ e3 :> c2
SameTool == s1 :> {hassh} @@ s2 :> {hassh}
=============================================================================
