---------------------------- MODULE DeferredAuth ----------------------------
(***************************************************************************)
(* What the deferred-success password validator promises a client: each    *)
(* attempt of a key (a client IP) is one indivisible step that is either   *)
(* rejected, which lengthens the key's streak of failures, or accepted,    *)
(* which makes the password good for everybody and starts a new streak.    *)
(* PasswordManager.tla is shown to implement it for clients that wait for  *)
(* the answer to one attempt before they make the next.                    *)
(***************************************************************************)
EXTENDS Naturals

CONSTANTS
    Keys,          \* what attempts are counted by: client IPs, session ids
    Passwords,
    Configured,    \* the master password and the configured ones
    Long,          \* passwords longer than password_max_length
    MinAttempts,
    MaxAttempts,
    EarlySuccess   \* password_early_success_probability > 0

VARIABLES
    allowed,       \* passwords that are accepted at once
    streak         \* streak[k]: failures of k since its last success

vars == <<allowed, streak>>

Init ==
    /\ allowed = Configured
    /\ streak = [k \in Keys |-> 0]

\* The password is short, and the attempt is late enough in its streak.
Accept(k, p) ==
    /\ p \notin Long
    /\ EarlySuccess \/ streak[k] + 1 >= MinAttempts
    /\ allowed' = allowed \cup {p}
    /\ streak' = [streak EXCEPT ![k] = 0]

\* The threshold of the streak is not reached: it is never above MaxAttempts.
Reject(k) ==
    /\ streak[k] + 1 < MaxAttempts
    /\ streak' = [streak EXCEPT ![k] = @ + 1]
    /\ UNCHANGED allowed

Next == \E k \in Keys : Reject(k) \/ \E p \in Passwords : Accept(k, p)

Spec == Init /\ [][Next]_vars
=============================================================================
