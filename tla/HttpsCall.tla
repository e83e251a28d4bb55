------------------------------ MODULE HttpsCall ------------------------------
(* httpsRequestCall, called by several threads of one process. Its callers     *)
(* make the HTTPS record a local variable and leave ctx, sock and ssl unset;   *)
(* httpsFinish releases whatever they seem to hold. Descriptors are numbers    *)
(* of one table for the whole process, and a freed number is used again.       *)
EXTENDS Integers, FiniteSets

CONSTANTS
    Thread,      \* threads of the process
    Fd,          \* descriptor numbers of the table
    Garbage,     \* what an unset sock may hold: descriptor numbers, or 0
    Mysql,       \* owner of the database connection's descriptor
    None,        \* nobody
    FaultKinds   \* kinds of failing calls that may happen

ASSUME HttpsCallAssumption ==
    /\ Fd \subseteq Nat \ {0}
    /\ Garbage \subseteq Fd \cup {0} /\ Garbage # {}
    /\ Mysql \notin Thread /\ None \notin Thread \cup {Mysql}

VARIABLES
    open,      \* Fd -> who opened it, None when it is free
    call,      \* Thread -> where its call is
    sock,      \* Thread -> https.sock
    ssl,       \* Thread -> https.ssl: "none" without a record, "unset", or "set"
    taken,     \* history: a descriptor was closed by someone who had not opened it
    wild,      \* history: SSL_free was given what an unset ssl happened to hold
    happened   \* kinds of failures so far

httpsVars == <<open, call, sock, ssl, taken, wild>>

CallPc == {"none", "ctx", "socket", "connect", "handshake", "exchange", "ok", "failed"}

Fault(kind) == kind \in FaultKinds /\ happened' = happened \cup {kind}

HttpsInit ==
    /\ open = [fd \in Fd |-> None]
    /\ call = [t \in Thread |-> "none"]
    /\ sock = [t \in Thread |-> 0]
    /\ ssl = [t \in Thread |-> "none"]
    /\ taken = FALSE /\ wild = FALSE
    /\ happened = {}

Lowest(fd) == open[fd] = None /\ \A g \in Fd : g < fd => open[g] # None
TableFull == \A fd \in Fd : open[fd] # None

----------------------------------------------------------------------------

Reach(t, next) == call' = [call EXCEPT ![t] = next]

(* The record is declared; nothing of it is initialised.                       *)
CallBegin(t) ==
    /\ call[t] = "none"
    /\ Reach(t, "ctx")
    /\ \E fd \in Garbage : sock' = [sock EXCEPT ![t] = fd]
    /\ ssl' = [ssl EXCEPT ![t] = "unset"]
    /\ UNCHANGED <<open, taken, wild, happened>>

(* Mutant: the socket is left to the process.                                  *)
HttpsFinishKeepsSock(t, result) ==
    /\ UNCHANGED <<open, taken>>
    /\ wild' = (wild \/ ssl[t] = "unset")
    /\ sock' = [sock EXCEPT ![t] = 0]
    /\ ssl' = [ssl EXCEPT ![t] = "none"]
    /\ Reach(t, result)

(* httpsFinish, and the end of the record's life. A sock above 0 is closed,    *)
(* whoever owns that number now.                                               *)
HttpsFinish(t, result) ==
    /\ IF sock[t] \in Fd /\ open[sock[t]] # None
       THEN /\ open' = [open EXCEPT ![sock[t]] = None]
            /\ taken' = (taken \/ open[sock[t]] # t)
       ELSE UNCHANGED <<open, taken>>
    /\ wild' = (wild \/ ssl[t] = "unset")
    /\ sock' = [sock EXCEPT ![t] = 0]
    /\ ssl' = [ssl EXCEPT ![t] = "none"]
    /\ Reach(t, result)

NewContext(t) ==
    /\ call[t] = "ctx"
    /\ Reach(t, "socket")
    /\ UNCHANGED <<open, sock, ssl, taken, wild, happened>>

NewContextFails(t) ==
    /\ call[t] = "ctx"
    /\ Fault("ctx")
    /\ HttpsFinish(t, "failed")

(* Mutant: a socket is only asked for when there is none yet.                  *)
NewSocketIfUnset(t) ==
    /\ call[t] = "socket"
    /\ \/ \E fd \in Fd :
             Lowest(fd) /\ sock[t] \notin Fd
                /\ open' = [open EXCEPT ![fd] = t] /\ sock' = [sock EXCEPT ![t] = fd]
       \/ sock[t] \in Fd /\ UNCHANGED <<open, sock>>
       \/ TableFull /\ sock' = [sock EXCEPT ![t] = -1] /\ UNCHANGED open
    /\ Reach(t, "connect")
    /\ UNCHANGED <<ssl, taken, wild, happened>>

(* The result of socket() is not looked at.                                    *)
NewSocket(t) ==
    /\ call[t] = "socket"
    /\ \/ \E fd \in Fd :
             Lowest(fd) /\ open' = [open EXCEPT ![fd] = t] /\ sock' = [sock EXCEPT ![t] = fd]
       \/ TableFull /\ sock' = [sock EXCEPT ![t] = -1] /\ UNCHANGED open
    /\ Reach(t, "connect")
    /\ UNCHANGED <<ssl, taken, wild, happened>>

(* The host has an address and the server accepts; only then is ssl set.       *)
Connect(t) ==
    /\ call[t] = "connect"
    /\ sock[t] \in Fd /\ open[sock[t]] = t
    /\ ssl' = [ssl EXCEPT ![t] = "set"]
    /\ Reach(t, "handshake")
    /\ UNCHANGED <<open, sock, taken, wild, happened>>

(* No address, no connection, or no socket to connect.                         *)
ConnectFails(t) ==
    /\ call[t] = "connect"
    /\ IF sock[t] \in Fd /\ open[sock[t]] = t THEN Fault("net") ELSE UNCHANGED happened
    /\ HttpsFinish(t, "failed")

Handshake(t) ==
    /\ call[t] = "handshake"
    /\ sock[t] \in Fd /\ open[sock[t]] = t
    /\ Reach(t, "exchange")
    /\ UNCHANGED <<open, sock, ssl, taken, wild, happened>>

(* The handshake fails, or the descriptor was closed in the meantime.          *)
HandshakeFails(t) ==
    /\ call[t] = "handshake"
    /\ IF sock[t] \in Fd /\ open[sock[t]] = t THEN Fault("net") ELSE UNCHANGED happened
    /\ HttpsFinish(t, "failed")

(* Request, answer and the caller's look at it. Every caller sets the headers  *)
(* and the types the request checks for. An answer that is late by more than   *)
(* the receive timeout, cut short or of another status is a failed call.       *)
Exchange(t) ==
    /\ call[t] = "exchange"
    /\ \/ sock[t] \in Fd /\ open[sock[t]] = t /\ HttpsFinish(t, "ok") /\ UNCHANGED happened
       \/ sock[t] \in Fd /\ open[sock[t]] = t /\ HttpsFinish(t, "failed") /\ Fault("net")
       \/ ~(sock[t] \in Fd /\ open[sock[t]] = t) /\ HttpsFinish(t, "failed") /\ UNCHANGED happened

HttpsStep(t) ==
    \/ NewContext(t) \/ NewContextFails(t)
    \/ NewSocket(t)
    \/ Connect(t) \/ ConnectFails(t)
    \/ Handshake(t) \/ HandshakeFails(t)
    \/ Exchange(t)

HttpsTypeOK ==
    /\ open \in [Fd -> Thread \cup {Mysql, None}]
    /\ call \in [Thread -> CallPc]
    /\ sock \in [Thread -> Fd \cup {0, -1}]
    /\ ssl \in [Thread -> {"none", "unset", "set"}]
    /\ taken \in BOOLEAN /\ wild \in BOOLEAN
    /\ happened \subseteq FaultKinds

=============================================================================
