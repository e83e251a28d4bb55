--------------------------- MODULE BotProcessProofs ---------------------------
(* Proofs about BotProcess for any number of threads, descriptors and notices, *)
(* and for whatever an unset sock may hold: who owns a descriptor, who owns    *)
(* the result the handle holds, and when the handle is good.                   *)
EXTENDS BotProcess, TLAPS

Connected == {"connect", "handshake", "exchange"}

(* Who closes a descriptor is who opened it, as long as no SSL context was     *)
(* refused.                                                                    *)
OwnersKnown ==
    /\ ~taken
    /\ \A t \in Thread : call[t] \in Connected /\ sock[t] \in Fd => open[sock[t]] = t
    /\ conn = "ready" => dbSock \in Fd /\ open[dbSock] = Mysql

SockInv ==
    /\ HttpsTypeOK
    /\ conn \in {"none", "ready", "lost", "closed"}
    /\ dbSock \in Fd \cup {0} /\ (conn # "ready" => dbSock = 0)
    /\ NothingLeaks
    /\ "ctx" \notin happened => OwnersKnown

(* What the phase of the process says of the handle, and what loses it.        *)
HandleInv ==
    /\ pPc = "init" => conn = "none"
    /\ pPc \in {"loop", "wait"} => conn \in {"ready", "lost"}
    /\ conn = "lost" => raced \/ "gone" \in happened \/ "ctx" \in happened

(* Where a query is and whose the result of the handle is.                     *)
ResultInv ==
    /\ query \in [Thread -> QueryPc]
    /\ pending \in Thread \cup {None}

(* The owners of descriptors and the descriptor numbers are different things.  *)
LEMMA Distinct ==
    /\ Mysql \notin Thread /\ None \notin Thread /\ None # Mysql
    /\ 0 \notin Fd /\ -1 \notin Fd
    /\ Garbage \subseteq Fd \cup {0}
BY HttpsCallAssumption

----------------------------------------------------------------------------
(* Descriptors *)

(* No descriptor is open at first.                                             *)
LEMMA SockInit == ProcessInit => SockInv
<1> SUFFICES ASSUME ProcessInit PROVE SockInv
  OBVIOUS
<1>1. HttpsTypeOK
  BY DEF ProcessInit, HttpsInit, HttpsTypeOK, CallPc
<1>2. dbSock = 0 /\ conn = "none" /\ taken = FALSE /\ \A t \in Thread : call[t] = "none"
  BY DEF ProcessInit, HttpsInit, ConnInit
<1>3. \A fd \in Fd : open[fd] = None
  BY DEF ProcessInit, HttpsInit
<1>4. NothingLeaks
  BY <1>3, Distinct DEF NothingLeaks
<1>5. QED
  BY <1>1, <1>2, <1>4 DEF SockInv, OwnersKnown, Connected

(* httpsFinish closes the descriptor of its own call, or follows a context     *)
(* that was refused.                                                           *)
LEMMA FinishKeeps ==
    ASSUME SockInv, NEW t \in Thread, NEW r \in {"ok", "failed"}, HttpsFinish(t, r),
           call[t] \in Connected \/ "ctx" \in happened',
           happened \subseteq happened', happened' \subseteq FaultKinds, UNCHANGED <<conn, dbSock>>
    PROVE  SockInv'
<1> DEFINE Closes == sock[t] \in Fd /\ open[sock[t]] # None
<1>1. /\ sock' = [sock EXCEPT ![t] = 0] /\ ssl' = [ssl EXCEPT ![t] = "none"]
      /\ call' = [call EXCEPT ![t] = r] /\ wild' = (wild \/ ssl[t] = "unset")
      /\ Closes => /\ open' = [open EXCEPT ![sock[t]] = None]
                   /\ taken' = (taken \/ open[sock[t]] # t)
      /\ ~Closes => open' = open /\ taken' = taken
  BY DEF HttpsFinish, Reach
<1>2. wild' \in BOOLEAN /\ taken' \in BOOLEAN
  BY <1>1 DEF SockInv, HttpsTypeOK
<1>3. open' \in [Fd -> Thread \cup {Mysql, None}]
  BY <1>1 DEF SockInv, HttpsTypeOK
<1>4. sock' \in [Thread -> Fd \cup {0, -1}] /\ ssl' \in [Thread -> {"none", "unset", "set"}]
  BY <1>1 DEF SockInv, HttpsTypeOK
<1>5. call' \in [Thread -> CallPc]
  BY <1>1 DEF SockInv, HttpsTypeOK, CallPc
<1>6. HttpsTypeOK'
  BY <1>2, <1>3, <1>4, <1>5 DEF HttpsTypeOK
<1>7. \A u \in Thread \ {t} : sock'[u] = sock[u] /\ call'[u] = call[u]
  BY <1>1 DEF SockInv, HttpsTypeOK
<1>8. call'[t] = r /\ r \notin Connected
  BY <1>1 DEF SockInv, HttpsTypeOK, Connected
<1>9. \A fd \in Fd : open'[fd] = None \/ (open'[fd] = open[fd] /\ (Closes => fd # sock[t]))
  BY <1>1 DEF SockInv, HttpsTypeOK
<1>10. NothingLeaks'
  <2>1. ASSUME NEW fd \in Fd, open'[fd] \in Thread
        PROVE  sock'[open'[fd]] = fd /\ call'[open'[fd]] \in Connected
    <3>1. open'[fd] = open[fd] /\ (Closes => fd # sock[t])
      BY <1>9, <2>1, Distinct
    <3>2. sock[open[fd]] = fd /\ call[open[fd]] \in Connected
      BY <2>1, <3>1 DEF SockInv, NothingLeaks, Connected
    <3>3. open[fd] # t
      BY <2>1, <3>1, <3>2, Distinct
    <3>4. QED
      BY <1>7, <2>1, <3>1, <3>2, <3>3
  <2>2. \A fd \in Fd : open'[fd] = Mysql => dbSock' = fd
    BY <1>9, Distinct DEF SockInv, NothingLeaks
  <2>3. QED
    BY <2>1, <2>2 DEF NothingLeaks, Connected
<1>11. ASSUME "ctx" \notin happened' PROVE OwnersKnown'
  <2>1. OwnersKnown /\ call[t] \in Connected
    BY <1>11 DEF SockInv
  <2>2. Closes => open[sock[t]] = t
    BY <2>1 DEF OwnersKnown
  <2>3. ~taken'
    BY <1>1, <2>1, <2>2 DEF OwnersKnown
  <2>4. \A fd \in Fd : open'[fd] = open[fd] \/ open[fd] = t
    BY <1>1, <2>2 DEF SockInv, HttpsTypeOK
  <2>5. ASSUME NEW u \in Thread, call'[u] \in Connected, sock'[u] \in Fd
        PROVE  open'[sock'[u]] = u
    <3>1. u # t
      BY <1>8, <2>5
    <3>2. sock'[u] = sock[u] /\ open[sock[u]] = u
      BY <1>7, <2>1, <2>5, <3>1 DEF OwnersKnown
    <3>3. QED
      BY <2>4, <2>5, <3>1, <3>2
  <2>6. conn' = "ready" => dbSock' \in Fd /\ open'[dbSock'] = Mysql
    BY <2>1, <2>4, Distinct DEF OwnersKnown
  <2>7. QED
    BY <2>3, <2>5, <2>6 DEF OwnersKnown
<1>12. QED
  BY <1>6, <1>10, <1>11 DEF SockInv

(* A step of a call moves no descriptor but its own.                           *)
LEMMA ReachKeeps ==
    ASSUME SockInv, NEW t \in Thread, NEW next \in CallPc, Reach(t, next),
           UNCHANGED <<open, sock, ssl, taken, wild, conn, dbSock, happened>>,
           call[t] \in Connected <=> next \in Connected
    PROVE  SockInv'
<1>1. call' = [call EXCEPT ![t] = next]
  BY DEF Reach
<1>2. HttpsTypeOK'
  BY <1>1 DEF SockInv, HttpsTypeOK
<1>3. \A u \in Thread : call'[u] \in Connected <=> call[u] \in Connected
  BY <1>1 DEF SockInv, HttpsTypeOK
<1>4. NothingLeaks'
  BY <1>3 DEF SockInv, NothingLeaks, Connected
<1>5. OwnersKnown => OwnersKnown'
  BY <1>3 DEF OwnersKnown
<1>6. QED
  BY <1>2, <1>4, <1>5 DEF SockInv

(* A record that is not initialised owns no descriptor.                        *)
LEMMA CallBeginKeeps ==
    ASSUME SockInv, NEW t \in Thread, CallBegin(t), UNCHANGED <<conn, dbSock>>
    PROVE  SockInv'
<1>1. PICK g \in Garbage : sock' = [sock EXCEPT ![t] = g]
  BY DEF CallBegin
<1>2. /\ call[t] = "none" /\ call' = [call EXCEPT ![t] = "ctx"]
      /\ ssl' = [ssl EXCEPT ![t] = "unset"]
      /\ UNCHANGED <<open, taken, wild, happened>>
  BY DEF CallBegin, Reach
<1>3. g \in Fd \cup {0, -1}
  BY Distinct
<1>4. HttpsTypeOK'
  BY <1>1, <1>2, <1>3 DEF SockInv, HttpsTypeOK, CallPc
<1>5. /\ call'[t] \notin Connected /\ call[t] \notin Connected
      /\ \A u \in Thread \ {t} : call'[u] = call[u] /\ sock'[u] = sock[u]
  BY <1>1, <1>2 DEF SockInv, HttpsTypeOK, Connected
<1>6. \A fd \in Fd : open[fd] \in Thread => open[fd] # t
  BY <1>5 DEF SockInv, NothingLeaks, Connected
<1>7. NothingLeaks'
  BY <1>2, <1>5, <1>6 DEF SockInv, NothingLeaks, Connected
<1>8. OwnersKnown => OwnersKnown'
  BY <1>2, <1>5 DEF OwnersKnown
<1>9. QED
  BY <1>2, <1>4, <1>7, <1>8 DEF SockInv

(* socket() takes a free number, or none.                                      *)
LEMMA NewSocketKeeps ==
    ASSUME SockInv, NEW t \in Thread, NewSocket(t), UNCHANGED <<conn, dbSock>>
    PROVE  SockInv'
<1>1. /\ call[t] = "socket" /\ call' = [call EXCEPT ![t] = "connect"]
      /\ UNCHANGED <<ssl, taken, wild, happened>>
  BY DEF NewSocket, Reach
<1>2. /\ call'[t] = "connect" /\ call[t] \notin Connected
      /\ \A u \in Thread \ {t} : call'[u] = call[u]
  BY <1>1 DEF SockInv, HttpsTypeOK, Connected
<1>3. \A fd \in Fd : open[fd] # t
  BY <1>2 DEF SockInv, NothingLeaks, Connected
<1>4. CASE TableFull /\ sock' = [sock EXCEPT ![t] = -1] /\ UNCHANGED open
  <2>1. HttpsTypeOK'
    BY <1>1, <1>4 DEF SockInv, HttpsTypeOK, CallPc
  <2>2. sock'[t] \notin Fd /\ \A u \in Thread \ {t} : sock'[u] = sock[u]
    BY <1>4, Distinct DEF SockInv, HttpsTypeOK
  <2>3. NothingLeaks'
    BY <1>2, <1>3, <1>4, <2>2 DEF SockInv, NothingLeaks, Connected
  <2>4. OwnersKnown => OwnersKnown'
    BY <1>1, <1>2, <1>4, <2>2 DEF OwnersKnown
  <2>5. QED
    BY <1>1, <2>1, <2>3, <2>4 DEF SockInv
<1>5. ASSUME NEW fd \in Fd, Lowest(fd), open' = [open EXCEPT ![fd] = t],
             sock' = [sock EXCEPT ![t] = fd]
      PROVE  SockInv'
  <2>1. HttpsTypeOK'
    BY <1>1, <1>5 DEF SockInv, HttpsTypeOK, CallPc
  <2>2. /\ open[fd] = None /\ open'[fd] = t
        /\ \A g \in Fd \ {fd} : open'[g] = open[g]
    BY <1>5 DEF Lowest, SockInv, HttpsTypeOK
  <2>3. sock'[t] = fd /\ \A u \in Thread \ {t} : sock'[u] = sock[u]
    BY <1>5 DEF SockInv, HttpsTypeOK
  <2>4. NothingLeaks'
    <3>1. ASSUME NEW g \in Fd, open'[g] \in Thread
          PROVE  sock'[open'[g]] = g /\ call'[open'[g]] \in Connected
      <4>1. CASE g = fd
        BY <1>2, <2>2, <2>3, <4>1 DEF Connected
      <4>2. CASE g # fd
        <5>1. open'[g] = open[g] /\ open[g] # t
          BY <1>3, <2>2, <4>2
        <5>2. QED
          BY <1>2, <2>3, <3>1, <5>1 DEF SockInv, NothingLeaks, Connected
      <4>3. QED
        BY <4>1, <4>2
    <3>2. \A g \in Fd : open'[g] = Mysql => dbSock' = g
      BY <2>2, Distinct DEF SockInv, NothingLeaks
    <3>3. QED
      BY <3>1, <3>2 DEF NothingLeaks, Connected
  <2>5. OwnersKnown => OwnersKnown'
    <3>1. SUFFICES ASSUME OwnersKnown PROVE OwnersKnown'
      OBVIOUS
    <3>2. ASSUME NEW u \in Thread, call'[u] \in Connected, sock'[u] \in Fd
          PROVE  open'[sock'[u]] = u
      <4>1. CASE u = t
        BY <2>2, <2>3, <4>1
      <4>2. CASE u # t
        <5>1. open[sock[u]] = u /\ sock'[u] = sock[u]
          BY <1>2, <2>3, <3>1, <3>2, <4>2 DEF OwnersKnown
        <5>2. QED
          BY <2>2, <3>2, <5>1, Distinct
      <4>3. QED
        BY <4>1, <4>2
    <3>3. conn' = "ready" => dbSock' \in Fd /\ open'[dbSock'] = Mysql
      BY <2>2, <3>1, Distinct DEF OwnersKnown
    <3>4. QED
      BY <1>1, <3>1, <3>2, <3>3 DEF OwnersKnown
  <2>6. QED
    BY <1>1, <2>1, <2>4, <2>5 DEF SockInv
<1>6. QED
  BY <1>4, <1>5 DEF NewSocket

(* Every step of a call keeps the descriptors in order.                        *)
LEMMA HttpsStepKeeps ==
    ASSUME SockInv, NEW t \in Thread, HttpsStep(t), UNCHANGED <<conn, dbSock>>
    PROVE  SockInv'
<1>1. CASE NewContext(t)
  BY <1>1, ReachKeeps DEF NewContext, CallPc, Connected
<1>2. CASE NewContextFails(t)
  <2>1. HttpsFinish(t, "failed") /\ "ctx" \in happened' /\ happened \subseteq happened'
        /\ happened' \subseteq FaultKinds
    BY <1>2 DEF NewContextFails, Fault, SockInv, HttpsTypeOK
  <2>2. QED
    BY <2>1, FinishKeeps
<1>3. CASE NewSocket(t)
  BY <1>3, NewSocketKeeps
<1>4. CASE Connect(t)
  <2>1. /\ call[t] = "connect" /\ call' = [call EXCEPT ![t] = "handshake"]
        /\ ssl' = [ssl EXCEPT ![t] = "set"]
        /\ UNCHANGED <<open, sock, taken, wild, happened>>
    BY <1>4 DEF Connect, Reach
  <2>2. HttpsTypeOK'
    BY <2>1 DEF SockInv, HttpsTypeOK, CallPc
  <2>3. \A u \in Thread : call'[u] \in Connected <=> call[u] \in Connected
    BY <2>1 DEF SockInv, HttpsTypeOK, Connected
  <2>4. NothingLeaks'
    BY <2>1, <2>3 DEF SockInv, NothingLeaks, Connected
  <2>5. OwnersKnown => OwnersKnown'
    BY <2>1, <2>3 DEF OwnersKnown
  <2>6. QED
    BY <2>1, <2>2, <2>4, <2>5 DEF SockInv
<1>5. CASE ConnectFails(t) \/ HandshakeFails(t)
  <2>1. /\ HttpsFinish(t, "failed") /\ call[t] \in Connected
        /\ happened \subseteq happened' /\ happened' \subseteq FaultKinds
    BY <1>5 DEF ConnectFails, HandshakeFails, Connected, Fault, SockInv, HttpsTypeOK
  <2>2. QED
    BY <2>1, FinishKeeps
<1>6. CASE Handshake(t)
  BY <1>6, ReachKeeps DEF Handshake, CallPc, Connected
<1>7. CASE Exchange(t)
  <2>1. PICK r \in {"ok", "failed"} : HttpsFinish(t, r)
    BY <1>7 DEF Exchange
  <2>2. /\ call[t] \in Connected
        /\ happened \subseteq happened' /\ happened' \subseteq FaultKinds
    BY <1>7 DEF Exchange, Connected, Fault, SockInv, HttpsTypeOK
  <2>3. QED
    BY <2>1, <2>2, FinishKeeps
<1>8. QED
  BY <1>1, <1>2, <1>3, <1>4, <1>5, <1>6, <1>7 DEF HttpsStep

----------------------------------------------------------------------------
(* The connection and the process *)

(* The connection takes the only descriptor of the handle.                     *)
LEMMA DbConnectKeeps == ASSUME SockInv, DbConnect PROVE SockInv'
<1>1. PICK fd \in Fd : Lowest(fd) /\ open' = [open EXCEPT ![fd] = Mysql] /\ dbSock' = fd
  BY DEF DbConnect
<1>2. conn = "none" /\ conn' = "ready" /\ UNCHANGED <<call, sock, ssl, taken, wild, happened>>
  BY DEF DbConnect
<1>3. /\ open[fd] = None /\ open'[fd] = Mysql
      /\ \A g \in Fd \ {fd} : open'[g] = open[g]
  BY <1>1 DEF Lowest, SockInv, HttpsTypeOK
<1>4. HttpsTypeOK'
  BY <1>1, <1>2 DEF SockInv, HttpsTypeOK
<1>5. \A g \in Fd : open[g] # Mysql
  BY <1>2, Distinct DEF SockInv, NothingLeaks
<1>6. NothingLeaks'
  BY <1>1, <1>2, <1>3, <1>5, Distinct DEF SockInv, NothingLeaks
<1>7. OwnersKnown => OwnersKnown'
  BY <1>1, <1>2, <1>3, Distinct DEF OwnersKnown
<1>8. QED
  BY <1>1, <1>2, <1>4, <1>6, <1>7 DEF SockInv

(* The end of the connection, or its loss, frees its descriptor.               *)
LEMMA DisconnectKeeps ==
    ASSUME SockInv, Disconnect, conn' \in {"lost", "closed"}, UNCHANGED <<call, sock, ssl, wild>>,
           happened \subseteq happened', happened' \subseteq FaultKinds
    PROVE  SockInv'
<1>1. dbSock' = 0
  BY DEF Disconnect
<1>2. \/ open' = open /\ taken' = taken
      \/ /\ dbSock \in Fd /\ open' = [open EXCEPT ![dbSock] = None]
         /\ taken' = (taken \/ open[dbSock] # Mysql)
  BY DEF Disconnect
<1>3. taken' \in BOOLEAN /\ open' \in [Fd -> Thread \cup {Mysql, None}]
  BY <1>2 DEF SockInv, HttpsTypeOK
<1>4. HttpsTypeOK'
  BY <1>3 DEF SockInv, HttpsTypeOK
<1>5. \A fd \in Fd : open'[fd] = IF fd = dbSock THEN None ELSE open[fd]
  <2>1. dbSock \in Fd => open'[dbSock] = None
    BY <1>2 DEF SockInv, HttpsTypeOK, Disconnect
  <2>2. \A fd \in Fd \ {dbSock} : open'[fd] = open[fd]
    BY <1>2 DEF SockInv, HttpsTypeOK
  <2>3. QED
    BY <2>1, <2>2
<1>6. NothingLeaks'
  BY <1>1, <1>5, Distinct DEF SockInv, NothingLeaks
<1>7. OwnersKnown => OwnersKnown'
  <2>1. SUFFICES ASSUME OwnersKnown PROVE OwnersKnown'
    OBVIOUS
  <2>2. dbSock \in Fd => open[dbSock] = Mysql
    BY <2>1, Distinct DEF OwnersKnown, SockInv
  <2>3. ~taken'
    BY <1>2, <2>1, <2>2 DEF OwnersKnown
  <2>4. \A fd \in Fd : open[fd] \in Thread => open'[fd] = open[fd]
    BY <1>5, <2>2, Distinct
  <2>5. QED
    BY <2>1, <2>3, <2>4 DEF OwnersKnown
<1>8. QED
  BY <1>1, <1>4, <1>6, <1>7 DEF SockInv

(* A process that is gone has no descriptors.                                  *)
LEMMA GoneKeeps ==
    ASSUME SockInv, Gone, happened \subseteq happened', happened' \subseteq FaultKinds
    PROVE  SockInv'
<1>1. /\ dbSock' = 0 /\ conn' = "none" /\ UNCHANGED <<taken, wild>>
      /\ open' = [fd \in Fd |-> None] /\ call' = [t \in Thread |-> "none"]
      /\ sock' = [t \in Thread |-> 0] /\ ssl' = [t \in Thread |-> "none"]
  BY DEF Gone
<1>2. HttpsTypeOK'
  BY <1>1 DEF SockInv, HttpsTypeOK, CallPc
<1>3. NothingLeaks'
  BY <1>1, Distinct DEF NothingLeaks
<1>4. OwnersKnown => OwnersKnown'
  BY <1>1 DEF OwnersKnown, Connected
<1>5. QED
  BY <1>1, <1>2, <1>3, <1>4 DEF SockInv

(* A step that leaves the descriptors and the connection alone.                *)
LEMMA NoDescriptorMoves ==
    ASSUME SockInv, UNCHANGED <<httpsVars, conn, dbSock>>,
           happened \subseteq happened', happened' \subseteq FaultKinds
    PROVE  SockInv'
<1>1. HttpsTypeOK'
  BY DEF SockInv, HttpsTypeOK, httpsVars
<1>2. NothingLeaks'
  BY DEF SockInv, NothingLeaks, httpsVars
<1>3. OwnersKnown => OwnersKnown'
  BY DEF OwnersKnown, httpsVars
<1>4. QED
  BY <1>1, <1>2, <1>3 DEF SockInv

(* A call of the client library that fails leaves the connection, or closes it.*)
LEMMA ServerFailsKeeps ==
    ASSUME SockInv, ServerFails, UNCHANGED <<call, sock, ssl, wild>> PROVE SockInv'
<1>1. happened \subseteq happened' /\ happened' \subseteq FaultKinds
  BY DEF ServerFails, Fault, SockInv, HttpsTypeOK
<1>2. CASE Stays
  BY <1>1, <1>2, NoDescriptorMoves DEF Stays, httpsVars
<1>3. CASE Loses
  BY <1>1, <1>3, DisconnectKeeps DEF Loses
<1>4. QED
  BY <1>2, <1>3 DEF ServerFails

(* No other step of a statement moves a descriptor.                            *)
LEMMA QueryStepKeeps ==
    ASSUME SockInv, NEW t \in Thread, QueryStep(t) PROVE SockInv'
<1>1. CASE QueryFails(t) \/ StoreFails(t)
  BY <1>1, ServerFailsKeeps DEF QueryFails, StoreFails
<1>2. CASE ~(QueryFails(t) \/ StoreFails(t))
  <2>1. UNCHANGED <<httpsVars, dbSock, conn, happened>>
    BY <1>2 DEF QueryStep, QueryBegin, QueryEnd, StoreBegin, StoreEnd
  <2>2. happened' \subseteq FaultKinds
    BY <2>1 DEF SockInv, HttpsTypeOK
  <2>3. QED
    BY <2>1, <2>2, NoDescriptorMoves
<1>3. QED
  BY <1>1, <1>2

(* Every step of the process, and a stutter, keep the descriptors in order.    *)
LEMMA SockNext == SockInv /\ [ProcessNext]_allVars => SockInv'
<1> SUFFICES ASSUME SockInv, [ProcessNext]_allVars PROVE SockInv'
  OBVIOUS
<1>1. happened \subseteq FaultKinds
  BY DEF SockInv, HttpsTypeOK
<1>2. CASE UNCHANGED <<httpsVars, conn, dbSock, happened>>
  BY <1>1, <1>2, NoDescriptorMoves
<1>3. CASE MainStep
  <2>1. CASE Start
    BY <2>1, DbConnectKeeps DEF Start
  <2>2. CASE LoopEnd /\ UNCHANGED <<conn, dbSock, pending, raced, httpsVars, happened>>
    BY <1>2, <2>2
  <2>3. CASE NextRound /\ UNCHANGED <<connVars, httpsVars, happened>>
    BY <1>2, <2>3 DEF connVars
  <2>4. CASE Terminate /\ UNCHANGED processVars
    BY <1>1, <2>4, DisconnectKeeps DEF Terminate, DbClose
  <2>5. CASE Exit
    BY <1>1, <2>5, GoneKeeps DEF Exit
  <2>6. QED
    BY <1>3, <2>1, <2>2, <2>3, <2>4, <2>5 DEF MainStep
<1>4. ASSUME NEW t \in Thread, ThreadStep(t) PROVE SockInv'
  <2>1. CASE QueryStep(t)
    BY <2>1, QueryStepKeeps
  <2>2. CASE LookupCall(t) /\ UNCHANGED <<connVars, processVars>>
    BY <2>2, CallBeginKeeps, HttpsStepKeeps DEF LookupCall, connVars
  <2>3. CASE CommandStep(t) /\ UNCHANGED <<conn, dbSock, pending, raced, httpsVars, happened>>
    BY <1>2, <2>3
  <2>4. CASE LookupStep(t) /\ UNCHANGED <<connVars, open, sock, ssl, taken, wild, happened>>
    <3>1. /\ Reach(t, "none") /\ call[t] \notin Connected /\ "none" \notin Connected
          /\ UNCHANGED <<open, sock, ssl, taken, wild, conn, dbSock, happened>>
      BY <2>4 DEF LookupStep, Connected, connVars
    <3>2. "none" \in CallPc
      BY DEF CallPc
    <3>3. QED
      BY <3>1, <3>2, ReachKeeps
  <2>5. QED
    BY <1>4, <2>1, <2>2, <2>3, <2>4 DEF ThreadStep
<1>5. ASSUME NEW t \in Handler, CommandBegin(t), UNCHANGED <<connVars, httpsVars, happened>>
      PROVE  SockInv'
  BY <1>2, <1>5 DEF connVars
<1>6. CASE StartFails
  <2>1. Gone /\ happened \subseteq happened' /\ happened' \subseteq FaultKinds
    BY <1>1, <1>6 DEF StartFails, Fault
  <2>2. QED
    BY <2>1, GoneKeeps
<1>7. CASE Signal /\ UNCHANGED <<connVars, httpsVars>>
  <2>1. happened \subseteq happened' /\ happened' \subseteq FaultKinds
    BY <1>1, <1>7 DEF Signal, Fault
  <2>2. QED
    BY <1>7, <2>1, NoDescriptorMoves DEF connVars
<1>8. CASE Die
  BY <1>1, <1>8, GoneKeeps DEF Die
<1>9. CASE UNCHANGED allVars
  BY <1>2, <1>9 DEF allVars, connVars
<1>10. QED
  BY <1>3, <1>4, <1>5, <1>6, <1>7, <1>8, <1>9 DEF ProcessNext

(* No thread leaves a descriptor behind (NothingLeaks), for any table, any     *)
(* number of threads and whatever an unset sock may hold.                      *)
THEOREM NoDescriptorLeaks == ProcessSpec => []NothingLeaks
<1>1. SockInv => NothingLeaks
  BY DEF SockInv
<1>2. QED
  BY <1>1, SockInit, SockNext, PTL DEF ProcessSpec

(* Only a context that was refused makes a call close what it did not open     *)
(* (OnlyEarlyFailuresTake).                                                    *)
THEOREM OnlyRefusedContextsTake == ProcessSpec => []OnlyEarlyFailuresTake
<1>1. SockInv => OnlyEarlyFailuresTake
  BY DEF SockInv, OwnersKnown, OnlyEarlyFailuresTake
<1>2. QED
  BY <1>1, SockInit, SockNext, PTL DEF ProcessSpec

----------------------------------------------------------------------------
(* The handle *)

(* A failure, and a race, are remembered.                                      *)
LEMMA HistoryStays ==
    [ProcessNext]_allVars => happened \subseteq happened' /\ (raced => raced')
<1> SUFFICES ASSUME [ProcessNext]_allVars PROVE happened \subseteq happened' /\ (raced => raced')
  OBVIOUS
<1> USE DEF Fault, connVars, httpsVars
<1>1. CASE MainStep
  <2>1. CASE Start \/ (Terminate /\ UNCHANGED processVars)
    BY <2>1 DEF Start, DbConnect, Terminate, DbClose
  <2>2. CASE \/ LoopEnd /\ UNCHANGED <<conn, dbSock, pending, raced, httpsVars, happened>>
             \/ NextRound /\ UNCHANGED <<connVars, httpsVars, happened>>
    BY <2>2
  <2>3. CASE Exit
    BY <2>3 DEF Exit, Gone
  <2>4. QED
    BY <1>1, <2>1, <2>2, <2>3 DEF MainStep
<1>2. ASSUME NEW t \in Thread, ThreadStep(t)
      PROVE  happened \subseteq happened' /\ (raced => raced')
  <2>1. CASE QueryStep(t)
    <3>1. raced => raced'
      BY <2>1 DEF QueryStep, QueryBegin, QueryEnd, QueryFails, StoreBegin, StoreEnd, StoreFails,
                  Enters
    <3>2. happened \subseteq happened'
      BY <2>1 DEF QueryStep, QueryBegin, QueryEnd, QueryFails, StoreBegin, StoreEnd, StoreFails,
                  ServerFails
    <3>3. QED
      BY <3>1, <3>2
  <2>2. CASE LookupCall(t) /\ UNCHANGED <<connVars, processVars>>
    BY <2>2 DEF LookupCall, CallBegin, HttpsStep, NewContext, NewContextFails, NewSocket,
                Connect, ConnectFails, Handshake, HandshakeFails, Exchange
  <2>3. CASE \/ CommandStep(t) /\ UNCHANGED <<conn, dbSock, pending, raced, httpsVars, happened>>
             \/ LookupStep(t) /\ UNCHANGED <<connVars, open, sock, ssl, taken, wild, happened>>
    BY <2>3
  <2>4. QED
    BY <1>2, <2>1, <2>2, <2>3 DEF ThreadStep
<1>3. CASE StartFails \/ Die
  BY <1>3 DEF StartFails, Die, Gone
<1>4. CASE \/ \E t \in Handler : CommandBegin(t) /\ UNCHANGED <<connVars, httpsVars, happened>>
           \/ Signal /\ UNCHANGED <<connVars, httpsVars>>
  BY <1>4 DEF Signal
<1>5. CASE UNCHANGED allVars
  BY <1>5 DEF allVars
<1>6. QED
  BY <1>1, <1>2, <1>3, <1>4, <1>5 DEF ProcessNext

(* The phase of the process says whether there is a connection, and only       *)
(* threads inside the library together, a server that is gone and a refused    *)
(* context lose it.                                                            *)
LEMMA HandleNext == SockInv /\ HandleInv /\ [ProcessNext]_allVars => HandleInv'
<1> SUFFICES ASSUME SockInv, HandleInv, [ProcessNext]_allVars PROVE HandleInv'
  OBVIOUS
<1>1. CASE UNCHANGED <<pPc, conn>>
  BY <1>1, HistoryStays DEF HandleInv
<1>2. CASE Gone
  BY <1>2 DEF Gone, HandleInv
<1>3. CASE MainStep
  <2>1. CASE Start
    BY <2>1 DEF Start, DbConnect, HandleInv
  <2>2. CASE LoopEnd /\ UNCHANGED <<conn, dbSock, pending, raced, httpsVars, happened>>
    BY <2>2 DEF LoopEnd, NoticesSelected, NoticesNotSelected, NoticeStep, HandleInv
  <2>3. CASE NextRound /\ UNCHANGED <<connVars, httpsVars, happened>>
    <3>1. pPc = "wait" /\ pPc' \in {"loop", "end"}
      BY <2>3 DEF NextRound
    <3>2. QED
      BY <2>3, <3>1 DEF HandleInv, connVars
  <2>4. CASE Terminate /\ UNCHANGED processVars
    BY <2>4 DEF Terminate, DbClose, HandleInv, processVars
  <2>5. CASE Exit
    BY <1>2, <2>5 DEF Exit
  <2>6. QED
    BY <1>3, <2>1, <2>2, <2>3, <2>4, <2>5 DEF MainStep
<1>4. ASSUME NEW t \in Thread, ThreadStep(t) PROVE HandleInv'
  <2>1. CASE QueryStep(t) /\ UNCHANGED processVars
    <3>1. pPc' = pPc
      BY <2>1 DEF processVars
    <3>2. CASE ServerFails
      <4>1. CASE Stays
        BY <1>1, <3>1, <4>1 DEF Stays
      <4>2. CASE Loses
        <5>1. conn = "ready" /\ conn' = "lost"
          BY <4>2 DEF Loses
        <5>2. raced \/ "gone" \in happened' \/ ~Usable
          BY <3>2, <5>1 DEF ServerFails, Stays, Fault
        <5>3. ~Usable => "ctx" \in happened
          BY <5>1 DEF Usable, SockInv, OwnersKnown
        <5>4. raced' \/ "gone" \in happened' \/ "ctx" \in happened'
          BY <5>2, <5>3, HistoryStays
        <5>5. QED
          BY <3>1, <5>1, <5>4 DEF HandleInv
      <4>3. QED
        BY <3>2, <4>1, <4>2 DEF ServerFails
    <3>3. CASE ~ServerFails
      BY <1>1, <2>1, <3>1, <3>3
         DEF QueryStep, QueryBegin, QueryEnd, QueryFails, StoreBegin, StoreEnd, StoreFails
    <3>4. QED
      BY <3>2, <3>3
  <2>2. CASE LookupCall(t) /\ UNCHANGED <<connVars, processVars>>
    BY <1>1, <2>2 DEF connVars, processVars
  <2>3. CASE CommandStep(t) /\ UNCHANGED <<conn, dbSock, pending, raced, httpsVars, happened>>
    BY <1>1, <2>3 DEF CommandStep
  <2>4. CASE LookupStep(t) /\ UNCHANGED <<connVars, open, sock, ssl, taken, wild, happened>>
    BY <1>1, <2>4 DEF LookupStep, connVars
  <2>5. QED
    BY <1>4, <2>1, <2>2, <2>3, <2>4 DEF ThreadStep
<1>5. ASSUME NEW t \in Handler, CommandBegin(t), UNCHANGED <<connVars, httpsVars, happened>>
      PROVE  HandleInv'
  BY <1>1, <1>5 DEF CommandBegin, connVars
<1>6. CASE Signal /\ UNCHANGED <<connVars, httpsVars>>
  BY <1>1, <1>6 DEF Signal, connVars
<1>7. CASE UNCHANGED allVars
  BY <1>1, <1>7 DEF allVars, connVars, processVars
<1>8. QED
  BY <1>2, <1>3, <1>4, <1>5, <1>6, <1>7 DEF ProcessNext, StartFails, Die

(* While the loop runs its handle is good, but for threads inside the library  *)
(* together, a server that is gone and refused contexts (HandleStaysUsable).   *)
THEOREM HandleIsGood == ProcessSpec => []HandleStaysUsable
<1>1. ProcessInit => HandleInv
  BY DEF ProcessInit, ConnInit, HandleInv
<1>2. SockInv /\ HandleInv => HandleStaysUsable
  BY DEF SockInv, OwnersKnown, HandleInv, HandleStaysUsable, Usable
<1>3. QED
  BY <1>1, <1>2, SockInit, SockNext, HandleNext, PTL DEF ProcessSpec

----------------------------------------------------------------------------
(* The result the handle holds *)

(* Where queries are, and whose result the handle holds, at every step.        *)
LEMMA ResultNext == ResultInv /\ [ProcessNext]_allVars => ResultInv'
<1> SUFFICES ASSUME ResultInv, [ProcessNext]_allVars PROVE ResultInv'
  OBVIOUS
<1>1. CASE UNCHANGED <<query, pending>>
  BY <1>1 DEF ResultInv
<1>2. CASE Gone
  BY <1>2 DEF Gone, ResultInv, QueryPc
<1>3. ASSUME NEW t \in Thread, NEW next \in QueryPc, QueryReach(t, next),
             pending' \in Thread \cup {None}
      PROVE  ResultInv'
  BY <1>3 DEF ResultInv, QueryReach
<1>4. CASE MainStep
  <2>1. CASE Start
    BY <1>1, <2>1 DEF Start, DbConnect
  <2>2. CASE LoopEnd /\ UNCHANGED <<conn, dbSock, pending, raced, httpsVars, happened>>
    <3>1. QueryReach(Main, "no") /\ pending' = pending /\ Main \in Thread
      BY <2>2, BotProcessAssumption
         DEF LoopEnd, NoticesSelected, NoticesNotSelected, NoticeStep
    <3>2. QED
      BY <1>3, <3>1 DEF ResultInv, QueryPc
  <2>3. CASE NextRound /\ UNCHANGED <<connVars, httpsVars, happened>>
    BY <1>1, <2>3 DEF connVars
  <2>4. CASE Terminate /\ UNCHANGED processVars
    BY <1>1, <2>4 DEF Terminate, DbClose
  <2>5. CASE Exit
    BY <1>2, <2>5 DEF Exit
  <2>6. QED
    BY <1>4, <2>1, <2>2, <2>3, <2>4, <2>5 DEF MainStep
<1>5. ASSUME NEW t \in Thread, ThreadStep(t) PROVE ResultInv'
  <2>1. CASE QueryStep(t)
    <3>1. \E next \in QueryPc : QueryReach(t, next)
      BY <2>1 DEF QueryStep, QueryBegin, QueryEnd, QueryFails, StoreBegin, StoreEnd, StoreFails,
                  QueryPc
    <3>2. pending' \in {None, pending, t}
      BY <2>1 DEF QueryStep, QueryBegin, QueryEnd, QueryFails, StoreBegin, StoreEnd, StoreFails
    <3>3. QED
      BY <1>3, <3>1, <3>2 DEF ResultInv
  <2>2. CASE LookupCall(t) /\ UNCHANGED <<connVars, processVars>>
    BY <1>1, <2>2 DEF connVars
  <2>3. CASE CommandStep(t) /\ UNCHANGED <<conn, dbSock, pending, raced, httpsVars, happened>>
    BY <1>3, <2>3 DEF CommandStep, ResultInv, QueryPc
  <2>4. CASE LookupStep(t) /\ UNCHANGED <<connVars, open, sock, ssl, taken, wild, happened>>
    BY <1>1, <2>4 DEF connVars
  <2>5. QED
    BY <1>5, <2>1, <2>2, <2>3, <2>4 DEF ThreadStep
<1>6. ASSUME NEW t \in Handler, CommandBegin(t), UNCHANGED <<connVars, httpsVars, happened>>
      PROVE  ResultInv'
  BY <1>1, <1>6 DEF connVars
<1>7. CASE Signal /\ UNCHANGED <<connVars, httpsVars>>
  BY <1>1, <1>7 DEF connVars
<1>8. CASE UNCHANGED allVars
  BY <1>1, <1>8 DEF allVars, connVars
<1>9. QED
  BY <1>2, <1>4, <1>5, <1>6, <1>7, <1>8 DEF ProcessNext, StartFails, Die

----------------------------------------------------------------------------
(* Whose result is stored *)

(* While no two threads were inside the client library together, one at most   *)
(* is, none is while the handle holds a result, and the result is that of the  *)
(* only thread before its store.                                               *)
AloneInv ==
    /\ conn = "none" => pending = None
    /\ ~raced =>
          /\ \A t, u \in Thread : query[t] \in Inside /\ query[u] \in Inside => t = u
          /\ conn = "ready" /\ pending # None => \A t \in Thread : query[t] \notin Inside
    /\ ResultHasOwner /\ StoresItsOwn

(* A thread that enters no call of the library and holds no result keeps the   *)
(* others so.                                                                  *)
LEMMA AloneMoves ==
    ASSUME ResultInv, AloneInv, NEW t \in Thread, NEW next \in {"no", "ok", "failed"},
           QueryReach(t, next), query[t] # "result", UNCHANGED <<pending, raced>>,
           conn' = conn \/ (conn = "ready" /\ conn' = "lost")
    PROVE  AloneInv'
<1>1. /\ \A u \in Thread : query'[u] = query[u] \/ query'[u] \notin Inside \cup {"result"}
      /\ \A u \in Thread : query[u] = "result" => query'[u] = "result"
  BY DEF ResultInv, QueryReach, Inside
<1>2. (conn' = "ready" => conn = "ready") /\ (conn' = "none" => conn = "none")
  OBVIOUS
<1>3. CASE raced
  BY <1>2, <1>3 DEF AloneInv, StoresItsOwn, ResultHasOwner
<1>4. CASE ~raced
  BY <1>1, <1>2, <1>4 DEF AloneInv, StoresItsOwn, ResultHasOwner, ResultInv
<1>5. QED
  BY <1>3, <1>4

(* A statement starts when the handle holds no result, or makes a race.        *)
LEMMA AloneBegins ==
    ASSUME ResultInv, AloneInv, NEW t \in Thread, QueryBegin(t)
    PROVE  AloneInv'
<1>1. CASE conn = "lost" \/ (conn = "ready" /\ pending # None)
  BY <1>1, AloneMoves DEF QueryBegin
<1>2. CASE ~(conn = "lost" \/ (conn = "ready" /\ pending # None))
  <2>1. /\ query' = [query EXCEPT ![t] = "running"] /\ UNCHANGED <<conn, pending>>
        /\ query[t] = "no" /\ raced' = (raced \/ \E u \in Thread : query[u] \in Inside)
    BY <1>2 DEF QueryBegin, QueryReach, Enters
  <2>2. query'[t] = "running" /\ \A u \in Thread \ {t} : query'[u] = query[u]
    BY <2>1 DEF ResultInv
  <2>3. CASE raced'
    BY <2>1, <2>3 DEF AloneInv, StoresItsOwn, ResultHasOwner
  <2>4. CASE ~raced'
    <3>1. ~raced /\ \A u \in Thread : query[u] \notin Inside
      BY <2>1, <2>4
    <3>2. ResultHasOwner' /\ StoresItsOwn'
      BY <2>1, <2>2, <3>1 DEF AloneInv, StoresItsOwn, ResultHasOwner, ResultInv
    <3>3. QED
      BY <1>2, <2>1, <2>2, <3>1, <3>2 DEF AloneInv
  <2>5. QED
    BY <2>3, <2>4
<1>3. QED
  BY <1>1, <1>2

(* The result a SELECT leaves is that of the only thread that was at work.     *)
LEMMA AloneEnds ==
    ASSUME ResultInv, AloneInv, NEW t \in Thread, NEW isSelect \in BOOLEAN, QueryEnd(t, isSelect)
    PROVE  AloneInv'
<1>1. query[t] = "running" /\ conn = "ready" /\ UNCHANGED <<conn, raced>>
  BY DEF QueryEnd, Usable
<1>2. CASE raced
  BY <1>1, <1>2 DEF AloneInv, StoresItsOwn, ResultHasOwner
<1>3. CASE ~raced /\ ~isSelect
  BY <1>1, <1>3, AloneMoves DEF QueryEnd
<1>4. CASE ~raced /\ isSelect
  <2>1. query' = [query EXCEPT ![t] = "result"] /\ pending' = t
    BY <1>4 DEF QueryEnd, QueryReach
  <2>2. query'[t] = "result" /\ \A u \in Thread \ {t} : query'[u] = query[u]
    BY <2>1 DEF ResultInv
  <2>3. pending = None /\ \A u \in Thread \ {t} : query[u] \notin Inside
    BY <1>1, <1>4 DEF AloneInv, Inside
  <2>4. \A u \in Thread : query[u] # "result"
    BY <1>4, <2>3, Distinct DEF AloneInv, StoresItsOwn
  <2>5. QED
    BY <1>1, <1>4, <2>1, <2>2, <2>3, <2>4 DEF AloneInv, StoresItsOwn, ResultHasOwner, Inside
<1>5. QED
  BY <1>2, <1>3, <1>4

(* Nobody else is before a store, or inside, when a result is taken.           *)
LEMMA AloneStores ==
    ASSUME ResultInv, AloneInv, NEW t \in Thread, StoreBegin(t)
    PROVE  AloneInv'
<1>1. /\ query[t] = "result" /\ pending' = None /\ UNCHANGED conn
      /\ query'[t] \in {"failed", "storing"} /\ \A u \in Thread \ {t} : query'[u] = query[u]
      /\ raced => raced'
      /\ \/ raced' = (raced \/ \E u \in Thread : query[u] \in Inside)
         \/ raced' = raced /\ pending = None
  BY DEF StoreBegin, QueryReach, ResultInv, Enters
<1>2. CASE raced'
  BY <1>1, <1>2 DEF AloneInv, StoresItsOwn, ResultHasOwner
<1>3. CASE ~raced'
  <2>1. ~raced /\ pending = t
    BY <1>1, <1>3 DEF AloneInv, StoresItsOwn
  <2>2. \A u \in Thread : query[u] \notin Inside
    BY <1>1, <1>3, <2>1, Distinct
  <2>3. \A u \in Thread \ {t} : query[u] # "result"
    BY <2>1 DEF AloneInv, StoresItsOwn
  <2>4. QED
    BY <1>1, <1>3, <2>2, <2>3 DEF AloneInv, StoresItsOwn, ResultHasOwner, Inside
<1>4. QED
  BY <1>2, <1>3

(* A call of the library that fails is the end of that thread's statement.     *)
LEMMA AloneFails ==
    ASSUME ResultInv, AloneInv, NEW t \in Thread, QueryFails(t) \/ StoreFails(t)
    PROVE  AloneInv'
<1>1. QueryReach(t, "failed") /\ query[t] # "result" /\ UNCHANGED <<pending, raced>>
  BY DEF QueryFails, StoreFails
<1>2. conn' = conn \/ (conn = "ready" /\ conn' = "lost")
  BY DEF QueryFails, StoreFails, ServerFails, Stays, Loses
<1>3. QED
  BY <1>1, <1>2, AloneMoves

(* Every step keeps the thread in the client library alone, or is a race.      *)
LEMMA AloneNext == ResultInv /\ AloneInv /\ [ProcessNext]_allVars => AloneInv'
<1> SUFFICES ASSUME ResultInv, AloneInv, [ProcessNext]_allVars PROVE AloneInv'
  OBVIOUS
<1>1. CASE UNCHANGED <<query, pending, conn, raced>>
  BY <1>1 DEF AloneInv, StoresItsOwn, ResultHasOwner
<1>2. CASE Gone
  BY <1>2 DEF Gone, AloneInv, StoresItsOwn, ResultHasOwner, Inside
<1>3. CASE MainStep
  <2>1. CASE Start
    BY <2>1 DEF Start, DbConnect, AloneInv, StoresItsOwn, ResultHasOwner
  <2>2. CASE LoopEnd /\ UNCHANGED <<conn, dbSock, pending, raced, httpsVars, happened>>
    <3>1. QueryReach(Main, "no") /\ Main \in Thread /\ query[Main] \in {"ok", "failed"}
      BY <2>2, BotProcessAssumption
         DEF LoopEnd, NoticesSelected, NoticesNotSelected, NoticeStep
    <3>2. QED
      BY <2>2, <3>1, AloneMoves
  <2>3. CASE NextRound /\ UNCHANGED <<connVars, httpsVars, happened>>
    BY <1>1, <2>3 DEF connVars
  <2>4. CASE Terminate /\ UNCHANGED processVars
    BY <2>4 DEF Terminate, DbClose, AloneInv, StoresItsOwn, ResultHasOwner
  <2>5. CASE Exit
    BY <1>2, <2>5 DEF Exit
  <2>6. QED
    BY <1>3, <2>1, <2>2, <2>3, <2>4, <2>5 DEF MainStep
<1>4. ASSUME NEW t \in Thread, ThreadStep(t) PROVE AloneInv'
  <2>1. CASE QueryBegin(t)
    BY <2>1, AloneBegins
  <2>2. CASE QueryEnd(t, Waiting(t, "select"))
    BY <2>2, AloneEnds DEF Waiting
  <2>3. CASE QueryFails(t) \/ StoreFails(t)
    BY <2>3, AloneFails
  <2>4. CASE StoreBegin(t)
    BY <2>4, AloneStores
  <2>5. CASE StoreEnd(t)
    BY <2>5, AloneMoves DEF StoreEnd, Usable
  <2>6. CASE LookupCall(t) /\ UNCHANGED <<connVars, processVars>>
    BY <1>1, <2>6 DEF connVars
  <2>7. CASE CommandStep(t) /\ UNCHANGED <<conn, dbSock, pending, raced, httpsVars, happened>>
    BY <2>7, AloneMoves DEF CommandStep
  <2>8. CASE LookupStep(t) /\ UNCHANGED <<connVars, open, sock, ssl, taken, wild, happened>>
    BY <1>1, <2>8 DEF connVars
  <2>9. QED
    BY <1>4, <2>1, <2>2, <2>3, <2>4, <2>5, <2>6, <2>7, <2>8 DEF ThreadStep, QueryStep
<1>5. ASSUME NEW t \in Handler, CommandBegin(t), UNCHANGED <<connVars, httpsVars, happened>>
      PROVE  AloneInv'
  BY <1>1, <1>5 DEF connVars
<1>6. CASE Signal /\ UNCHANGED <<connVars, httpsVars>>
  BY <1>1, <1>6 DEF connVars
<1>7. CASE UNCHANGED allVars
  BY <1>1, <1>7 DEF allVars, connVars
<1>8. QED
  BY <1>2, <1>3, <1>4, <1>5, <1>6, <1>7 DEF ProcessNext, StartFails, Die

(* The result the handle holds is that of a thread about to store it           *)
(* (ResultHasOwner): without two threads in the library together, no failure   *)
(* leaves the connection out of sync for good.                                 *)
THEOREM HandleComesBack == ProcessSpec => []ResultHasOwner
<1>1. ProcessInit => ResultInv /\ AloneInv
  BY DEF ProcessInit, ConnInit, ResultInv, ResultHasOwner, QueryPc, AloneInv, StoresItsOwn, Inside
<1>2. AloneInv => ResultHasOwner
  BY DEF AloneInv
<1>3. QED
  BY <1>1, <1>2, ResultNext, AloneNext, PTL DEF ProcessSpec

(* Rows never go to another command's thread unless two threads were inside    *)
(* the client library together (StoresItsOwn), for any number of threads.      *)
THEOREM RowsGoToTheirStatement == ProcessSpec => []StoresItsOwn
<1>1. ProcessInit => ResultInv /\ AloneInv
  BY DEF ProcessInit, ConnInit, ResultInv, ResultHasOwner, QueryPc, AloneInv, StoresItsOwn, Inside
<1>2. AloneInv => StoresItsOwn
  BY DEF AloneInv
<1>3. QED
  BY <1>1, <1>2, ResultNext, AloneNext, PTL DEF ProcessSpec

----------------------------------------------------------------------------
(* Type correctness: what a thread still has to do *)

Calls == {"select", "write", "https"}

(* A thread is only inside the call it has to make next.                       *)
InItsCall(t) ==
    /\ query[t] # "no" => Waiting(t, "select") \/ Waiting(t, "write")
    /\ call[t] # "none" => Waiting(t, "https")

TodoOK == todo \in [Thread -> Seq(Calls)] /\ \A t \in Thread : InItsCall(t)

(* A notice's read is never the last thing the sender has to do.               *)
EndsInWrite(calls) == calls = <<>> \/ calls[Len(calls)] # "select"

PhaseOK ==
    /\ pPc \in {"init", "loop", "wait", "end", "exited"}
    /\ running \in BOOLEAN /\ signalled \in BOOLEAN /\ raced \in BOOLEAN
    /\ pPc = "init" => todo[Main] = <<>>
    /\ pPc = "wait" => EndsInWrite(todo[Main])

(* Every script is a sequence of calls.                                        *)
LEMMA ScriptsAreCalls ==
    ASSUME NEW script \in Scripts PROVE script \in Seq(Calls)
<1>1. CASE script \in ListScripts
  <2>1. PICK n \in 0 .. MaxNotice : script = <<"select">> \o [i \in 1 .. n |-> "select"]
    BY <1>1 DEF ListScripts
  <2>2. n \in Nat
    BY BotProcessAssumption
  <2>3. [i \in 1 .. n |-> "select"] \in Seq(Calls) /\ <<"select">> \in Seq(Calls)
    BY <2>2 DEF Calls
  <2>4. QED
    BY <2>1, <2>3
<1>2. CASE script \in RegisterScripts \cup ReleaseScripts \cup SelectScripts
  <2>1. script \in {<<"select", "write">>, <<"select", "https", "write", "write">>, <<"select">>}
    BY <1>2 DEF RegisterScripts, ReleaseScripts, SelectScripts
  <2>2. /\ <<"select", "write">> \in Seq(Calls) /\ <<"select">> \in Seq(Calls)
        /\ <<"select", "https", "write", "write">> \in Seq(Calls)
    BY DEF Calls
  <2>3. QED
    BY <2>1, <2>2
<1>3. QED
  BY <1>1, <1>2 DEF Scripts

(* The rest of the sender's calls after a notice's statement.                  *)
LEMMA RestOfTheNotices ==
    ASSUME NEW calls \in Seq(Calls), calls # <<>>, EndsInWrite(calls)
    PROVE  /\ Tail(calls) \in Seq(Calls) /\ EndsInWrite(Tail(calls))
           /\ Head(calls) = "select" =>
                 Tail(Tail(calls)) \in Seq(Calls) /\ EndsInWrite(Tail(Tail(calls)))
<1>1. ASSUME NEW s \in Seq(Calls), s # <<>>, EndsInWrite(s)
      PROVE  Tail(s) \in Seq(Calls) /\ EndsInWrite(Tail(s))
  <2>1. Tail(s) \in Seq(Calls) /\ Len(Tail(s)) = Len(s) - 1
    BY <1>1
  <2>2. CASE Tail(s) = <<>>
    BY <2>1, <2>2 DEF EndsInWrite
  <2>3. CASE Tail(s) # <<>>
    <3>1. Tail(s)[Len(Tail(s))] = s[Len(s)]
      BY <1>1, <2>1, <2>3
    <3>2. QED
      BY <1>1, <2>1, <3>1 DEF EndsInWrite
  <2>4. QED
    BY <2>2, <2>3
<1>2. ASSUME Head(calls) = "select" PROVE Tail(calls) # <<>>
  <2>1. calls[1] = "select" /\ calls[Len(calls)] # "select"
    BY <1>2 DEF EndsInWrite
  <2>2. Len(calls) # 1 /\ Len(calls) \in Nat /\ Len(calls) # 0
    BY <2>1
  <2>3. Len(Tail(calls)) = Len(calls) - 1
    BY <2>2
  <2>4. Len(Tail(calls)) # 0
    BY <2>2, <2>3
  <2>5. QED
    BY <2>4
<1>3. QED
  BY <1>1, <1>2

(* One thread's list changes, and that thread is in no call.                   *)
LEMMA TodoMoves ==
    ASSUME TodoOK, NEW t \in Thread, NEW calls \in Seq(Calls),
           todo' = [todo EXCEPT ![t] = calls],
           query'[t] = "no", call'[t] = "none",
           \A u \in Thread \ {t} : query'[u] = query[u] /\ call'[u] = call[u]
    PROVE  TodoOK'
<1>1. todo' \in [Thread -> Seq(Calls)]
  BY DEF TodoOK
<1>2. InItsCall(t)'
  BY DEF InItsCall
<1>3. \A u \in Thread \ {t} : InItsCall(u)'
  BY DEF TodoOK, InItsCall, Waiting
<1>4. QED
  BY <1>1, <1>2, <1>3 DEF TodoOK

(* No list changes, and a call only begins when it is next.                    *)
LEMMA CallsMove ==
    ASSUME TodoOK, todo' = todo,
           \A u \in Thread :
             /\ query'[u] # "no" => query[u] # "no" \/ Waiting(u, "select") \/ Waiting(u, "write")
             /\ call'[u] # "none" => call[u] # "none" \/ Waiting(u, "https")
    PROVE  TodoOK'
BY DEF TodoOK, InItsCall, Waiting

(* A thread's step of a query: it begins, or it goes on.                       *)
LEMMA QueryKeepsTodo ==
    ASSUME SockInv, ResultInv, TodoOK, NEW t \in Thread, QueryStep(t), todo' = todo
    PROVE  TodoOK' /\ (raced \in BOOLEAN => raced' \in BOOLEAN)
<1>1. call' = call
  BY DEF QueryStep, QueryBegin, QueryEnd, QueryFails, StoreBegin, StoreEnd, StoreFails, httpsVars
<1>2. query[t] # "no" \/ Waiting(t, "select") \/ Waiting(t, "write")
  BY DEF QueryStep, QueryEnd, QueryFails, StoreBegin, StoreEnd, StoreFails
<1>3. \E next \in QueryPc : query' = [query EXCEPT ![t] = next]
  BY DEF QueryStep, QueryBegin, QueryEnd, QueryFails, StoreBegin, StoreEnd, StoreFails,
         QueryReach, QueryPc
<1>4. \A u \in Thread \ {t} : query'[u] = query[u]
  BY <1>3 DEF ResultInv
<1>5. TodoOK'
  BY <1>1, <1>2, <1>4, CallsMove
<1>6. raced' = raced \/ Enters
  BY DEF QueryStep, QueryBegin, QueryEnd, QueryFails, StoreBegin, StoreEnd, StoreFails
<1>7. QED
  BY <1>5, <1>6 DEF Enters

(* A thread's step of a call to the platform.                                  *)
LEMMA LookupKeepsTodo ==
    ASSUME SockInv, TodoOK, NEW t \in Thread, LookupCall(t), UNCHANGED <<query, todo>>
    PROVE  TodoOK'
<1>1. call[t] # "none" \/ Waiting(t, "https")
  BY DEF LookupCall, HttpsStep, NewContext, NewContextFails, NewSocket, Connect,
         ConnectFails, Handshake, HandshakeFails, Exchange
<1>2. \E next \in CallPc : call' = [call EXCEPT ![t] = next]
  BY DEF LookupCall, CallBegin, HttpsStep, NewContext, NewContextFails, NewSocket, Connect,
         ConnectFails, Handshake, HandshakeFails, Exchange, HttpsFinish, Reach, CallPc
<1>3. \A u \in Thread \ {t} : call'[u] = call[u]
  BY <1>2 DEF SockInv, HttpsTypeOK
<1>4. QED
  BY <1>1, <1>3, CallsMove

(* What a handler has left after a call of it.                                 *)
LEMMA RestOfTheScript ==
    ASSUME SockInv, ResultInv, TodoOK, NEW t \in Thread, CommandStep(t) \/ LookupStep(t),
           CommandStep(t) => call' = call, LookupStep(t) => query' = query
    PROVE  TodoOK' /\ \A u \in Thread \ {t} : todo'[u] = todo[u]
<1>1. PICK calls : /\ todo' = [todo EXCEPT ![t] = calls]
                   /\ calls = <<>> \/ calls = Tail(todo[t])
  <2>1. CASE CommandStep(t)
    BY <2>1 DEF CommandStep
  <2>2. CASE LookupStep(t)
    BY <2>2 DEF LookupStep
  <2>3. QED
    BY <2>1, <2>2
<1>2. InItsCall(t) /\ todo[t] \in Seq(Calls)
  BY DEF TodoOK
<1>3. todo[t] # <<>>
  BY <1>2 DEF CommandStep, LookupStep, InItsCall, Waiting
<1>4. calls \in Seq(Calls)
  <2>1. <<>> \in Seq(Calls) /\ Tail(todo[t]) \in Seq(Calls)
    BY <1>2, <1>3
  <2>2. QED
    BY <1>1, <2>1
<1>5. CASE CommandStep(t)
  <2>1. query' = [query EXCEPT ![t] = "no"] /\ query[t] # "no" /\ call' = call
    BY <1>5 DEF CommandStep, QueryReach
  <2>2. call[t] = "none"
    BY <1>2, <2>1 DEF InItsCall, Waiting
  <2>3. query'[t] = "no" /\ \A u \in Thread \ {t} : query'[u] = query[u]
    BY <2>1 DEF ResultInv
  <2>4. QED
    BY <1>1, <1>4, <2>1, <2>2, <2>3, TodoMoves DEF TodoOK
<1>6. CASE LookupStep(t)
  <2>1. call' = [call EXCEPT ![t] = "none"] /\ call[t] # "none" /\ query' = query
    BY <1>6 DEF LookupStep, Reach
  <2>2. query[t] = "no"
    BY <1>2, <2>1 DEF InItsCall, Waiting
  <2>3. call'[t] = "none" /\ \A u \in Thread \ {t} : call'[u] = call[u]
    BY <2>1 DEF SockInv, HttpsTypeOK
  <2>4. QED
    BY <1>1, <1>4, <2>1, <2>2, <2>3, TodoMoves DEF TodoOK
<1>7. QED
  BY <1>5, <1>6

(* The sender's part: its rounds and the notices of each.                      *)
LEMMA LoopEndKeepsTodo ==
    ASSUME SockInv, ResultInv, TodoOK, PhaseOK, LoopEnd, UNCHANGED <<raced, call>>
    PROVE  TodoOK' /\ PhaseOK'
<1>1. Main \in Thread /\ MaxNotice \in Nat
  BY BotProcessAssumption
<1>2. query' = [query EXCEPT ![Main] = "no"] /\ query[Main] # "no"
  BY DEF LoopEnd, NoticesSelected, NoticesNotSelected, NoticeStep, QueryReach
<1>3. InItsCall(Main) /\ todo[Main] \in Seq(Calls)
  BY <1>1 DEF TodoOK
<1>4. call'[Main] = "none"
  BY <1>2, <1>3 DEF InItsCall, Waiting
<1>5. query'[Main] = "no" /\ \A u \in Thread \ {Main} : query'[u] = query[u]
  BY <1>1, <1>2 DEF ResultInv
<1>6. ASSUME NEW calls \in Seq(Calls), todo' = [todo EXCEPT ![Main] = calls],
             pPc' \in {"wait", "end"}, pPc' = "wait" => EndsInWrite(calls),
             UNCHANGED <<running, signalled>>
      PROVE  TodoOK' /\ PhaseOK'
  <2>1. TodoOK'
    BY <1>1, <1>4, <1>5, <1>6, TodoMoves
  <2>2. todo'[Main] = calls
    BY <1>1, <1>6 DEF TodoOK
  <2>3. QED
    BY <1>6, <2>1, <2>2 DEF PhaseOK
<1>7. CASE NoticesSelected
  <2>1. PICK n \in 0 .. MaxNotice :
          todo' = [todo EXCEPT ![Main] =
                     [i \in 1 .. 2 * n |-> IF i % 2 = 1 THEN "select" ELSE "write"]]
    BY <1>7 DEF NoticesSelected
  <2> DEFINE calls == [i \in 1 .. 2 * n |-> IF i % 2 = 1 THEN "select" ELSE "write"]
  <2>2. n \in Nat /\ 2 * n \in Nat /\ (2 * n) % 2 # 1
    BY <1>1
  <2>3. calls \in Seq(Calls) /\ Len(calls) = 2 * n
    BY <2>2 DEF Calls
  <2>4. EndsInWrite(calls)
    BY <2>2, <2>3 DEF EndsInWrite
  <2>5. QED
    BY <1>6, <1>7, <2>1, <2>3, <2>4 DEF NoticesSelected
<1>8. CASE NoticesNotSelected
  <2>1. <<>> \in Seq(Calls)
    OBVIOUS
  <2>2. QED
    BY <1>6, <1>8, <2>1 DEF NoticesNotSelected
<1>9. CASE NoticeStep
  <2>1. todo[Main] # <<>> /\ EndsInWrite(todo[Main]) /\ pPc' = "wait"
        /\ UNCHANGED <<running, signalled>>
    BY <1>9 DEF NoticeStep, PhaseOK
  <2>2. PICK calls : /\ todo' = [todo EXCEPT ![Main] = calls]
                     /\ \/ calls = Tail(todo[Main])
                        \/ Head(todo[Main]) = "select" /\ calls = Tail(Tail(todo[Main]))
    BY <1>9 DEF NoticeStep
  <2>3. calls \in Seq(Calls) /\ EndsInWrite(calls)
    BY <1>3, <2>1, <2>2, RestOfTheNotices
  <2>4. QED
    BY <1>6, <2>1, <2>2, <2>3
<1>10. QED
  BY <1>7, <1>8, <1>9 DEF LoopEnd

(* Every step keeps the lists of calls and the phases typed.                   *)
LEMMA TodoNext ==
    SockInv /\ ResultInv /\ TodoOK /\ PhaseOK /\ [ProcessNext]_allVars => TodoOK' /\ PhaseOK'
<1> SUFFICES ASSUME SockInv, ResultInv, TodoOK, PhaseOK, [ProcessNext]_allVars
             PROVE  TodoOK' /\ PhaseOK'
  OBVIOUS
<1>1. Main \in Thread
  BY BotProcessAssumption
<1>2. ASSUME UNCHANGED <<query, call, todo>> PROVE TodoOK'
  BY <1>2, CallsMove
<1>3. CASE Gone
  <2>1. TodoOK'
    BY <1>3 DEF Gone, TodoOK, InItsCall
  <2>2. PhaseOK'
    BY <1>3 DEF Gone, PhaseOK
  <2>3. QED
    BY <2>1, <2>2
<1>4. ASSUME pPc \in {"init", "wait"}, todo[Main] = <<>>, pPc' = "loop",
             todo' = [todo EXCEPT ![Main] = <<"select">>],
             UNCHANGED <<query, call, running, signalled, raced>>
      PROVE  TodoOK' /\ PhaseOK'
  <2>1. query[Main] = "no" /\ call[Main] = "none"
    BY <1>1, <1>4 DEF TodoOK, InItsCall, Waiting
  <2>2. <<"select">> \in Seq(Calls)
    BY DEF Calls
  <2>3. TodoOK'
    BY <1>1, <1>4, <2>1, <2>2, TodoMoves
  <2>4. QED
    BY <1>4, <2>3 DEF PhaseOK
<1>5. CASE MainStep
  <2>1. CASE Start
    BY <1>4, <2>1 DEF Start, DbConnect, PhaseOK
  <2>2. CASE LoopEnd /\ UNCHANGED <<conn, dbSock, pending, raced, httpsVars, happened>>
    BY <2>2, LoopEndKeepsTodo DEF httpsVars
  <2>3. CASE NextRound /\ UNCHANGED <<connVars, httpsVars, happened>>
    <3>1. CASE running
      BY <1>4, <2>3, <3>1 DEF NextRound, connVars, httpsVars
    <3>2. CASE ~running
      <4>1. TodoOK'
        BY <1>2, <2>3, <3>2 DEF NextRound, connVars, httpsVars
      <4>2. PhaseOK'
        BY <2>3, <3>2 DEF NextRound, connVars, PhaseOK
      <4>3. QED
        BY <4>1, <4>2
    <3>3. QED
      BY <3>1, <3>2
  <2>4. CASE Terminate /\ UNCHANGED processVars
    <3>1. TodoOK'
      BY <1>2, <2>4 DEF Terminate, DbClose, processVars
    <3>2. PhaseOK'
      BY <2>4 DEF Terminate, DbClose, processVars, PhaseOK
    <3>3. QED
      BY <3>1, <3>2
  <2>5. CASE Exit
    BY <1>3, <2>5 DEF Exit
  <2>6. QED
    BY <1>5, <2>1, <2>2, <2>3, <2>4, <2>5 DEF MainStep
<1>6. ASSUME NEW t \in Thread, ThreadStep(t) PROVE TodoOK' /\ PhaseOK'
  <2>1. CASE QueryStep(t) /\ UNCHANGED processVars
    <3>1. TodoOK' /\ raced' \in BOOLEAN
      BY <2>1, QueryKeepsTodo DEF processVars, PhaseOK
    <3>2. QED
      BY <2>1, <3>1 DEF processVars, PhaseOK
  <2>2. CASE LookupCall(t) /\ UNCHANGED <<connVars, processVars>>
    <3>1. TodoOK'
      BY <2>2, LookupKeepsTodo DEF connVars, processVars
    <3>2. QED
      BY <2>2, <3>1 DEF connVars, processVars, PhaseOK
  <2>3. CASE t # Main /\ CommandStep(t)
             /\ UNCHANGED <<conn, dbSock, pending, raced, httpsVars, happened>>
    <3>1. UNCHANGED <<call, raced, pPc, running, signalled>>
      BY <2>3 DEF CommandStep, httpsVars
    <3>2. query' = [query EXCEPT ![t] = "no"] /\ query[t] # "no"
      BY <2>3 DEF CommandStep, QueryReach
    <3>3. LookupStep(t) => query' = query
      <4>1. call[t] # "none" => query[t] = "no"
        BY DEF TodoOK, InItsCall, Waiting
      <4>2. QED
        BY <3>2, <4>1 DEF LookupStep
    <3>4. TodoOK' /\ todo'[Main] = todo[Main]
      BY <1>1, <2>3, <3>1, <3>3, RestOfTheScript
    <3>5. QED
      BY <3>1, <3>4 DEF PhaseOK
  <2>4. CASE t # Main /\ LookupStep(t)
             /\ UNCHANGED <<connVars, open, sock, ssl, taken, wild, happened>>
    <3>1. UNCHANGED <<query, raced, pPc, running, signalled>>
      BY <2>4 DEF LookupStep, connVars
    <3>2. CommandStep(t) => call' = call
      <4>1. call[t] # "none" => query[t] = "no"
        BY DEF TodoOK, InItsCall, Waiting
      <4>2. QED
        BY <2>4, <4>1 DEF LookupStep, CommandStep
    <3>3. TodoOK' /\ todo'[Main] = todo[Main]
      BY <1>1, <2>4, <3>1, <3>2, RestOfTheScript
    <3>4. QED
      BY <3>1, <3>3 DEF PhaseOK
  <2>5. QED
    BY <1>6, <2>1, <2>2, <2>3, <2>4 DEF ThreadStep
<1>7. ASSUME NEW t \in Handler, CommandBegin(t), UNCHANGED <<connVars, httpsVars, happened>>
      PROVE  TodoOK' /\ PhaseOK'
  <2>1. PICK calls \in Seq(Calls) : todo' = [todo EXCEPT ![t] = calls]
    BY <1>7, ScriptsAreCalls DEF CommandBegin
  <2>2. t \in Thread /\ t # Main /\ todo[t] = <<>>
    BY <1>7 DEF Handler, CommandBegin
  <2>3. query[t] = "no" /\ call[t] = "none"
    BY <2>2 DEF TodoOK, InItsCall, Waiting
  <2>4. TodoOK'
    BY <1>7, <2>1, <2>2, <2>3, TodoMoves DEF connVars, httpsVars
  <2>5. todo'[Main] = todo[Main]
    BY <1>1, <2>1, <2>2 DEF TodoOK
  <2>6. QED
    BY <1>7, <2>4, <2>5 DEF CommandBegin, connVars, PhaseOK
<1>8. CASE Signal /\ UNCHANGED <<connVars, httpsVars>>
  <2>1. TodoOK'
    BY <1>2, <1>8 DEF Signal, connVars, httpsVars
  <2>2. PhaseOK'
    BY <1>8 DEF Signal, connVars, PhaseOK
  <2>3. QED
    BY <2>1, <2>2
<1>9. CASE UNCHANGED allVars
  <2>1. TodoOK'
    BY <1>2, <1>9 DEF allVars, connVars, httpsVars, processVars
  <2>2. PhaseOK'
    BY <1>9 DEF allVars, connVars, processVars, PhaseOK
  <2>3. QED
    BY <2>1, <2>2
<1>10. QED
  BY <1>3, <1>5, <1>6, <1>7, <1>8, <1>9 DEF ProcessNext, StartFails, Die

(* The process starts with nothing to do.                                      *)
LEMMA TodoInit == ProcessInit => TodoOK /\ PhaseOK
<1> SUFFICES ASSUME ProcessInit PROVE TodoOK /\ PhaseOK
  OBVIOUS
<1>1. TodoOK
  BY DEF ProcessInit, HttpsInit, ConnInit, TodoOK, InItsCall
<1>2. PhaseOK
  BY BotProcessAssumption DEF ProcessInit, ConnInit, PhaseOK
<1>3. QED
  BY <1>1, <1>2

(* Every variable keeps its type, and a thread is inside one call at a time    *)
(* (ProcessTypeOK).                                                            *)
THEOREM ProcessTypeCorrect == ProcessSpec => []ProcessTypeOK
<1>1. ProcessInit => ResultInv
  BY DEF ProcessInit, ConnInit, ResultInv, QueryPc
<1>2. ASSUME SockInv, ResultInv, TodoOK, PhaseOK PROVE ProcessTypeOK
  <2>1. HttpsTypeOK /\ ConnTypeOK
    BY <1>2 DEF SockInv, ResultInv, PhaseOK, ConnTypeOK
  <2>2. \A t \in Thread : \A i \in DOMAIN todo[t] : todo[t][i] \in Calls
    BY <1>2 DEF TodoOK
  <2>3. QED
    BY <1>2, <2>1, <2>2 DEF ProcessTypeOK, TodoOK, InItsCall, PhaseOK, Calls
<1>3. QED
  BY <1>1, <1>2, SockInit, SockNext, ResultNext, TodoInit, TodoNext, PTL DEF ProcessSpec

=============================================================================
