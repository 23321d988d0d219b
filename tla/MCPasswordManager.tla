-------------------------- MODULE MCPasswordManager --------------------------
EXTENDS PasswordManager, TLC

CONSTANTS c1, c2, c3, ip1, ip2, master, short1, short2, long1

\* Two connections share an address, a third has another.
SharedAddress == c1 :> ip1 @@ c2 :> ip1 @@ c3 :> ip2

\* The third connection passes no client_ip: it is tracked by session.
NoAddress == c1 :> ip1 @@ c2 :> ip1 @@ c3 :> NoIP

\* Two connections, one address.
TwoThreads == c1 :> ip1 @@ c2 :> ip1
=============================================================================
