----------------------------- MODULE NoticePromise -----------------------------
(* What subscribers are promised, without tables, lists or processes: a message *)
(* is sent only for a notice that is owed, and uses it up. A notice is owed    *)
(* after the subscription, once more after each time its channel was recorded  *)
(* closed, and once more after a fault that hid that it had been sent. What is *)
(* owed may be lost, which is all this module allows to go wrong silently. A   *)
(* close may be overtaken by a new broadcast while notices are armed for it.   *)
EXTENDS Integers

CONSTANTS Row, Broadcast, Subscribed

VARIABLES
    owed,    \* notices a message may still be sent for
    posted,  \* messages sent, per notice and broadcast
    closed,  \* channels recorded as not on air, or being armed for a close
    faults   \* faults so far

promiseVars == <<owed, posted, closed, faults>>

PromiseInit ==
    /\ owed = Subscribed
    /\ posted = [n \in Row |-> [b \in Broadcast |-> 0]]
    /\ closed = {n.streaming_channel_id : n \in Subscribed}
    /\ faults = 0

(* A new subscription: no message was ever sent for it.                        *)
Subscribe(n) ==
    /\ n \notin owed
    /\ posted[n] = [b \in Broadcast |-> 0]
    /\ owed' = owed \cup {n}
    /\ UNCHANGED <<posted, closed, faults>>

Tell(n, b) ==
    /\ n \in owed
    /\ owed' = owed \ {n}
    /\ posted' = [posted EXCEPT ![n][b] = @ + 1]
    /\ UNCHANGED <<closed, faults>>

Arm ==
    /\ owed \subseteq owed'
    /\ \A n \in owed' \ owed : n.streaming_channel_id \in closed
    /\ closed' \subseteq closed
    /\ UNCHANGED <<posted, faults>>

Lose ==
    /\ owed' \subseteq owed
    /\ UNCHANGED <<posted, closed, faults>>

Record ==
    /\ UNCHANGED <<owed, posted, faults>>
    /\ closed' # closed

Fail ==
    /\ faults' = faults + 1
    /\ \A m, n \in owed' \ owed : m = n
    /\ closed' \subseteq closed
    /\ UNCHANGED posted

PromiseNext ==
    \/ \E n \in Row : Subscribe(n)
    \/ \E n \in Row, b \in Broadcast : Tell(n, b)
    \/ Arm \/ Lose \/ Record \/ Fail

PromiseSpec == PromiseInit /\ [][PromiseNext]_promiseVars

=============================================================================
