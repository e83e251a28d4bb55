------------------------------ MODULE BotProcess ------------------------------
(* chtice_bot as one process: the sender's loop on the main thread and the      *)
(* command handlers on the library's threads, all through one MYSQL handle and *)
(* one descriptor table. What the statements do to the tables is ChticeBot;    *)
(* here a statement only succeeds or fails, and what matters is why.           *)
EXTENDS DbConnection, Sequences

CONSTANTS
    Main,      \* the main thread
    MaxNotice  \* bound: notices one SELECT of the sender returns

ASSUME BotProcessAssumption == Main \in Thread /\ MaxNotice \in Nat

VARIABLES
    pPc,       \* main: "init", "loop", "wait", "end" or "exited"
    todo,      \* Thread -> the calls its function has still to make
    running,   \* _global.is_running
    signalled  \* history: SIGINT or SIGTERM came

processVars == <<pPc, todo, running, signalled>>
allVars     == <<httpsVars, connVars, processVars, happened>>

Handler == Thread \ {Main}

(* The calls of each command handler, in order. A register command looks the   *)
(* channel up at the platform when its SELECT finds no row.                    *)
RegisterScripts == {<<"select", "write">>, <<"select", "https", "write", "write">>}
ReleaseScripts  == {<<"select", "write">>}
SelectScripts   == {<<"select">>}
ListScripts     == {<<"select">> \o [i \in 1 .. n |-> "select"] : n \in 0 .. MaxNotice}

Scripts == RegisterScripts \cup ReleaseScripts \cup SelectScripts \cup ListScripts

ProcessInit ==
    /\ HttpsInit /\ ConnInit
    /\ pPc = "init"
    /\ todo = [t \in Thread |-> <<>>]
    /\ running = TRUE /\ signalled = FALSE

Waiting(t, c) == todo[t] # <<>> /\ Head(todo[t]) = c

----------------------------------------------------------------------------
(* The main thread *)

(* mainInitailize, and start(), from which handlers may run.                   *)
Start ==
    /\ pPc = "init"
    /\ DbConnect
    /\ pPc' = "loop"
    /\ todo' = [todo EXCEPT ![Main] = <<"select">>]
    /\ UNCHANGED <<running, signalled>>

(* The SELECT of the round returned n notices: a read and a write for each.    *)
NoticesSelected ==
    /\ pPc = "loop"
    /\ query[Main] = "ok" /\ QueryReach(Main, "no")
    /\ \E n \in 0 .. MaxNotice :
          todo' = [todo EXCEPT ![Main] =
                     [i \in 1 .. 2 * n |-> IF i % 2 = 1 THEN "select" ELSE "write"]]
    /\ pPc' = "wait"
    /\ UNCHANGED <<running, signalled>>

(* It failed: the loop breaks.                                                 *)
NoticesNotSelected ==
    /\ pPc = "loop"
    /\ query[Main] = "failed" /\ QueryReach(Main, "no")
    /\ todo' = [todo EXCEPT ![Main] = <<>>]
    /\ pPc' = "end"
    /\ UNCHANGED <<running, signalled>>

(* One statement of sendStreamingNotice is done. After a read that failed, the *)
(* notice's write is left out; the loop goes on with the next notice.          *)
NoticeStep ==
    /\ pPc = "wait" /\ todo[Main] # <<>>
    /\ query[Main] \in {"ok", "failed"} /\ QueryReach(Main, "no")
    /\ todo' = [todo EXCEPT ![Main] =
                  IF query[Main] = "failed" /\ Head(@) = "select" THEN Tail(Tail(@)) ELSE Tail(@)]
    /\ UNCHANGED <<pPc, running, signalled>>

NextRound ==
    /\ pPc = "wait" /\ todo[Main] = <<>>
    /\ IF running THEN pPc' = "loop" /\ todo' = [todo EXCEPT ![Main] = <<"select">>]
                  ELSE pPc' = "end" /\ UNCHANGED todo
    /\ UNCHANGED <<running, signalled>>

Signal ==
    /\ running
    /\ Fault("signal")
    /\ running' = FALSE /\ signalled' = TRUE
    /\ UNCHANGED <<pPc, todo>>

(* mainTerminate closes the handle while handlers may still be at work.        *)
Terminate ==
    /\ pPc = "end" /\ conn # "closed"
    /\ DbClose

(* The process is gone, with its threads, its handle and its descriptors.      *)
Gone ==
    /\ pPc' = "exited"
    /\ todo' = [t \in Thread |-> <<>>]
    /\ query' = [t \in Thread |-> "no"] /\ pending' = None
    /\ conn' = "none" /\ dbSock' = 0
    /\ open' = [fd \in Fd |-> None]
    /\ call' = [t \in Thread |-> "none"]
    /\ sock' = [t \in Thread |-> 0] /\ ssl' = [t \in Thread |-> "none"]
    /\ UNCHANGED <<running, signalled, raced, taken, wild>>

(* The connection cannot be made: main returns at once.                        *)
StartFails == pPc = "init" /\ Fault("db") /\ Gone

(* main returns, and the threads of the library with it.                       *)
Exit == pPc = "end" /\ conn = "closed" /\ Gone /\ UNCHANGED happened

----------------------------------------------------------------------------
(* The command handlers *)

(* Mutant: a thread takes its next event before its handler has returned.      *)
CommandBeginAnytime(t) ==
    /\ pPc \in {"loop", "wait", "end"}
    /\ \E script \in Scripts : todo' = [todo EXCEPT ![t] = script]
    /\ UNCHANGED <<pPc, running, signalled>>

(* The library runs a handler on a thread that has none, also while main ends. *)
CommandBegin(t) ==
    /\ pPc \in {"loop", "wait", "end"}
    /\ todo[t] = <<>>
    /\ \E script \in Scripts : todo' = [todo EXCEPT ![t] = script]
    /\ UNCHANGED <<pPc, running, signalled>>

(* A statement is done. A handler returns at its first call that fails, and    *)
(* on_slashcommand replies that the command failed.                            *)
CommandStep(t) ==
    /\ query[t] \in {"ok", "failed"} /\ QueryReach(t, "no")
    /\ todo' = [todo EXCEPT ![t] = IF query[t] = "failed" THEN <<>> ELSE Tail(@)]
    /\ UNCHANGED <<pPc, running, signalled>>

(* The call to the platform is done.                                           *)
LookupStep(t) ==
    /\ call[t] \in {"ok", "failed"} /\ Reach(t, "none")
    /\ todo' = [todo EXCEPT ![t] = IF call[t] = "failed" THEN <<>> ELSE Tail(@)]
    /\ UNCHANGED <<pPc, running, signalled>>

----------------------------------------------------------------------------

(* A pointer nobody set was given to SSL_free, two threads were inside the     *)
(* handle together, or one is at work on it after it was closed: the process   *)
(* may not survive it.                                                         *)
Die ==
    /\ \/ wild
       \/ raced
       \/ conn = "closed" /\ \E t \in Thread : query[t] \in Inside \cup {"result"}
    /\ pPc # "exited"
    /\ Gone /\ UNCHANGED happened

Alive == pPc # "exited"

QueryStep(t) ==
    \/ (Waiting(t, "select") \/ Waiting(t, "write")) /\ QueryBegin(t)
    \/ QueryEnd(t, Waiting(t, "select"))
    \/ QueryFails(t)
    \/ StoreBegin(t) \/ StoreEnd(t) \/ StoreFails(t)

LookupCall(t) == (Waiting(t, "https") /\ CallBegin(t)) \/ HttpsStep(t)

LoopEnd == NoticesSelected \/ NoticesNotSelected \/ NoticeStep

MainStep ==
    \/ Start
    \/ LoopEnd /\ UNCHANGED <<conn, dbSock, pending, raced, httpsVars, happened>>
    \/ NextRound /\ UNCHANGED <<connVars, httpsVars, happened>>
    \/ Terminate /\ UNCHANGED processVars
    \/ Exit

ThreadStep(t) ==
    /\ Alive
    /\ \/ QueryStep(t) /\ UNCHANGED processVars
       \/ LookupCall(t) /\ UNCHANGED <<connVars, processVars>>
       \/ /\ t # Main
          /\ \/ CommandStep(t) /\ UNCHANGED <<conn, dbSock, pending, raced, httpsVars, happened>>
             \/ LookupStep(t)
                  /\ UNCHANGED <<connVars, open, sock, ssl, taken, wild, happened>>

ProcessNext ==
    \/ MainStep
    \/ \E t \in Thread : ThreadStep(t)
    \/ \E t \in Handler : CommandBegin(t) /\ UNCHANGED <<connVars, httpsVars, happened>>
    \/ StartFails
    \/ Signal /\ UNCHANGED <<connVars, httpsVars>>
    \/ Die

ProcessSpec == ProcessInit /\ [][ProcessNext]_allVars

----------------------------------------------------------------------------
(* Invariants *)

(* The values of every variable, and that a thread is in one call at a time.   *)
ProcessTypeOK ==
    /\ HttpsTypeOK /\ ConnTypeOK
    /\ pPc \in {"init", "loop", "wait", "end", "exited"}
    /\ \A t \in Thread : \A i \in DOMAIN todo[t] : todo[t][i] \in {"select", "write", "https"}
    /\ running \in BOOLEAN /\ signalled \in BOOLEAN
    /\ \A t \in Thread : query[t] # "no" => Waiting(t, "select") \/ Waiting(t, "write")
    /\ \A t \in Thread : call[t] # "none" => Waiting(t, "https")

(* Every descriptor but the connection's belongs to a call that is under way   *)
(* and that will close it: whatever fails, and whatever an unset sock holds,   *)
(* no thread leaves one behind.                                                *)
NothingLeaks ==
    \A fd \in Fd :
        /\ open[fd] \in Thread =>
              sock[open[fd]] = fd /\ call[open[fd]] \in {"connect", "handshake", "exchange"}
        /\ open[fd] = Mysql => dbSock = fd

(* Only a call that could not make its SSL context closes what it did not      *)
(* open, although the numbers are used again as soon as they are free: no      *)
(* other failure makes one thread close another's connection.                  *)
OnlyEarlyFailuresTake == taken => "ctx" \in happened

(* A handle that is out of sync comes back: unless two threads were inside the *)
(* client library together, the result it holds is that of a thread that is    *)
(* about to store it, whatever fails in the meantime.                          *)
ResultHasOwner == ~raced /\ pending # None => query[pending] = "result"

(* Unless two threads were inside the client library together, the result a    *)
(* thread is about to store is that of its own statement: what keeps the rows  *)
(* of one command from another is only the library's "out of sync" and the     *)
(* return after a query that failed.                                           *)
StoresItsOwn == ~raced => \A t \in Thread : query[t] = "result" => pending = t

(* While the loop runs its handle is good, unless two threads were inside the  *)
(* client library together, the server went away (nothing connects again) or a *)
(* call that could not make its SSL context closed the connection's            *)
(* descriptor: no refused statement and no other failure of a call to the      *)
(* platform costs the process its connection.                                  *)
HandleStaysUsable ==
    pPc \in {"loop", "wait"} /\ ~raced /\ happened \cap {"ctx", "gone"} = {} => Usable

----------------------------------------------------------------------------
(* What the program's text says and the code does not keep *)

(* The sender's loop is while(is_running): with every call of the platform and *)
(* the database in order, and no two threads ever inside the client library    *)
(* together, only a signal ends it.                                            *)
OnlyASignalStopsTheBot ==
    pPc = "end" /\ ~raced /\ happened \subseteq {"signal"} => signalled

(* httpsFinish releases only what httpsRequestCall set.                        *)
ReleasesOnlyWhatItSet == ~wild

=============================================================================
