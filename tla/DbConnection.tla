----------------------------- MODULE DbConnection -----------------------------
(* One MYSQL handle, as dbmysql.cpp hands it to every thread of a process: a   *)
(* SELECT is two calls, mysql_query and mysql_store_result, with nothing that  *)
(* keeps other threads away before, between or during them. External: what     *)
(* the client library makes of such calls.                                     *)
EXTENDS HttpsCall

VARIABLES
    conn,     \* the handle: "none", "ready", "lost" or "closed"
    dbSock,   \* the descriptor of its connection, 0 for none
    query,    \* Thread -> "no", "running" in mysql_query, "result" before the store,
              \* "storing" in mysql_store_result, or how it ended: "ok", "failed"
    pending,  \* whose result the handle holds, None when it holds none
    raced     \* history: two threads were inside the client library together

connVars == <<conn, dbSock, query, pending, raced>>

QueryPc == {"no", "running", "result", "storing", "ok", "failed"}

(* Where a thread talks to the server through the handle.                      *)
Inside == {"running", "storing"}

ConnInit ==
    /\ conn = "none" /\ dbSock = 0
    /\ query = [t \in Thread |-> "no"]
    /\ pending = None
    /\ raced = FALSE

(* The server hears what is written only while the descriptor is the handle's. *)
Usable == conn = "ready" /\ dbSock \in Fd /\ open[dbSock] = Mysql

QueryReach(t, next) == query' = [query EXCEPT ![t] = next]

Enters == raced' = (raced \/ \E u \in Thread : query[u] \in Inside)

(* The library closes the descriptor it knows, whoever owns that number now.   *)
Disconnect ==
    /\ dbSock' = 0
    /\ IF dbSock \in Fd /\ open[dbSock] # None
       THEN /\ open' = [open EXCEPT ![dbSock] = None]
            /\ taken' = (taken \/ open[dbSock] # Mysql)
       ELSE UNCHANGED <<open, taken>>

(* A connection that is lost is closed, and nothing opens it again.            *)
Loses == conn = "ready" /\ conn' = "lost" /\ Disconnect
Stays == UNCHANGED <<conn, dbSock, open, taken>>

(* mysql_init, the settings, mysql_real_connect.                               *)
DbConnect ==
    /\ conn = "none"
    /\ \E fd \in Fd :
          Lowest(fd) /\ open' = [open EXCEPT ![fd] = Mysql] /\ dbSock' = fd
    /\ conn' = "ready"
    /\ UNCHANGED <<query, pending, raced, call, sock, ssl, taken, wild, happened>>

(* A handle that lost its connection answers "server gone" at once, one that   *)
(* holds a result "commands out of sync".                                      *)
QueryBegin(t) ==
    /\ query[t] = "no"
    /\ IF conn = "lost" \/ (conn = "ready" /\ pending # None)
       THEN QueryReach(t, "failed") /\ UNCHANGED raced
       ELSE QueryReach(t, "running") /\ Enters
    /\ UNCHANGED <<conn, dbSock, pending, httpsVars, happened>>

(* The handle holds the result of a SELECT. Threads that are inside together   *)
(* read each other's packets, and may leave any result or none.                *)
QueryEnd(t, isSelect) ==
    /\ query[t] = "running"
    /\ Usable
    /\ QueryReach(t, IF isSelect THEN "result" ELSE "ok")
    /\ pending' \in IF raced THEN {None, pending, t} ELSE {IF isSelect THEN t ELSE pending}
    /\ UNCHANGED <<conn, dbSock, raced, httpsVars, happened>>

(* What makes a call of the library fail: the server refuses, or is gone; the  *)
(* descriptor is another's, or closed; other threads took what was to be read; *)
(* there is no connection.                                                     *)
ServerFails ==
    \/ Usable /\ Fault("db") /\ Stays
    \/ Usable /\ Fault("gone") /\ Loses
    \/ ~Usable /\ Loses /\ UNCHANGED happened
    \/ raced /\ (Stays \/ Loses) /\ UNCHANGED happened
    \/ conn # "ready" /\ Stays /\ UNCHANGED happened

(* Mutant: a failed statement closes the handle, as a failed connect does.     *)
QueryFailsCloses(t) ==
    /\ query[t] = "running"
    /\ Usable /\ Fault("db")
    /\ conn' = "closed" /\ Disconnect
    /\ QueryReach(t, "failed")
    /\ UNCHANGED <<pending, raced, call, sock, ssl, wild>>

(* Mutant: the answer of mysql_query is not looked at.                         *)
QueryFailsGoesOn(t) ==
    /\ query[t] = "running"
    /\ ServerFails
    /\ QueryReach(t, "result")
    /\ UNCHANGED <<pending, raced, call, sock, ssl, wild>>

QueryFails(t) ==
    /\ query[t] = "running"
    /\ ServerFails
    /\ QueryReach(t, "failed")
    /\ UNCHANGED <<pending, raced, call, sock, ssl, wild>>

(* Mutant: the result is left where it is.                                     *)
StoreBeginNot(t) ==
    /\ query[t] = "result"
    /\ QueryReach(t, "ok")
    /\ UNCHANGED <<conn, dbSock, pending, raced, httpsVars, happened>>

(* Whatever result the handle holds is taken, this thread's or not: the handle *)
(* is ready for the next statement before the rows are read from the server.   *)
StoreBegin(t) ==
    /\ query[t] = "result"
    /\ IF pending = None
       THEN QueryReach(t, "failed") /\ UNCHANGED raced
       ELSE QueryReach(t, "storing") /\ Enters
    /\ pending' = None
    /\ UNCHANGED <<conn, dbSock, httpsVars, happened>>

StoreEnd(t) ==
    /\ query[t] = "storing"
    /\ Usable
    /\ QueryReach(t, "ok")
    /\ UNCHANGED <<conn, dbSock, pending, raced, httpsVars, happened>>

StoreFails(t) ==
    /\ query[t] = "storing"
    /\ ServerFails
    /\ QueryReach(t, "failed")
    /\ UNCHANGED <<pending, raced, call, sock, ssl, wild>>

(* mysql_close.                                                                *)
DbClose ==
    /\ conn' = "closed" /\ Disconnect
    /\ UNCHANGED <<query, pending, raced, call, sock, ssl, wild, happened>>

ConnTypeOK ==
    /\ conn \in {"none", "ready", "lost", "closed"}
    /\ dbSock \in Fd \cup {0}
    /\ query \in [Thread -> QueryPc]
    /\ pending \in Thread \cup {None}
    /\ raced \in BOOLEAN

=============================================================================
