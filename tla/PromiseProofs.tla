----------------------------- MODULE PromiseProofs -----------------------------
(* The daemon, the sender, the command handlers and any number of syncs        *)
(* implement NoticePromise: every step of Chtice is a step of the promise,     *)
(* seen through Owed and Closed, or changes nothing of it.                     *)
EXTENDS NoticeProofs

(* The daemon arms for a close it has recorded.                                *)
RearmInv == dPc = "rearm" => dCur.streaming_status = "C"

(* A step of the promise, or a stutter.                                        *)
PromiseStep == Promise!PromiseNext \/ UNCHANGED <<Owed, posted, Closed, faults>>

----------------------------------------------------------------------------
(* The steps of the promise, in terms of Chtice *)

(* Nothing new is owed.                                                        *)
LEMMA LoseStep ==
    ASSUME Owed' \subseteq Owed, Closed' = Closed, UNCHANGED <<posted, faults>>
    PROVE  PromiseStep
BY DEF PromiseStep, Promise!PromiseNext, Promise!Lose

(* The owed notices stay, and the table may have a new status.                 *)
LEMMA RecordStep ==
    ASSUME Owed' = Owed, UNCHANGED <<posted, faults>> PROVE PromiseStep
BY DEF PromiseStep, Promise!PromiseNext, Promise!Record

(* A fault makes one notice owed at the most.                                  *)
LEMMA FailStep ==
    ASSUME NEW n, Owed' \subseteq Owed \cup {n}, Closed' \subseteq Closed, UNCHANGED posted,
           NEW kind, Fault(kind)
    PROVE  PromiseStep
<1>1. \A m, p \in Owed' \ Owed : m = p
  OBVIOUS
<1>2. faults' = faults + 1
  BY DEF Fault
<1>3. QED
  BY <1>1, <1>2 DEF PromiseStep, Promise!PromiseNext, Promise!Fail

(* What is owed follows from the table, the list and the notice in hand.       *)
LEMMA SameOwed ==
    ASSUME UNCHANGED <<notice_info, bList, bPc, bCur>> PROVE Owed' = Owed
BY DEF Owed

(* A table of streamers that does not change has the same closed channels, as  *)
(* long as the daemon stays where it is.                                       *)
LEMMA SameClosed == ASSUME UNCHANGED <<streamer_info, dPc, dCur>> PROVE Closed' = Closed
BY DEF Closed

(* When the daemon has armed, or given up, only the table counts.              *)
LEMMA FewerClosed == ASSUME UNCHANGED streamer_info, dPc' # "rearm" PROVE Closed' \subseteq Closed
BY DEF Closed

----------------------------------------------------------------------------
(* The daemon *)

(* The daemon records statuses and arms what it recorded as closed.            *)
LEMMA DaemonPromise ==
    ASSUME TypeOK, RearmInv, DaemonNext, UNCHANGED botVars PROVE PromiseStep
<1> USE DEF dbVars, botVars, sendVars, historyVars
<1>1. CASE DaemonSelect \/ DaemonPollSame \/ DaemonPollChanged \/ DaemonUpdate \/ DaemonWait
           \/ DaemonRestart
  <2>1. UNCHANGED <<notice_info, bList, bPc, bCur, posted, faults>>
    BY <1>1 DEF DaemonSelect, DaemonPollSame, DaemonPollChanged, DaemonUpdate, DaemonWait,
                DaemonRestart
  <2>2. QED
    BY <2>1, SameOwed, RecordStep
<1>2. CASE DaemonUpdateFails /\ UNCHANGED faults
  BY <1>2, SameOwed, RecordStep DEF DaemonUpdateFails
<1>3. ASSUME NEW kind, Fault(kind), UNCHANGED dbVars,
             dPc' # "rearm" \/ UNCHANGED <<dPc, dCur>>
      PROVE  PromiseStep
  <2>1. Closed' \subseteq Closed
    BY <1>3, SameClosed, FewerClosed
  <2>2. QED
    BY <1>3, <2>1, SameOwed, FailStep
<1>4. CASE DaemonSelectFails \/ DaemonPollFails \/ DaemonRearmFails \/ DaemonSignal \/ DaemonCrash
  BY <1>3, <1>4 DEF DaemonSelectFails, DaemonPollFails, DaemonRearmFails, DaemonSignal, DaemonCrash,
                    DaemonExit, DaemonContinue
<1>5. CASE DaemonUpdateFails /\ Fault("db")
  BY <1>3, <1>5 DEF DaemonUpdateFails, DaemonContinue
<1>6. CASE DaemonRearm
  <2> DEFINE s == dCur.streaming_channel_id
  <2>1. /\ notice_info' = [n \in DOMAIN notice_info |->
                            IF n.streaming_channel_id = s THEN "WAIT" ELSE notice_info[n]]
        /\ UNCHANGED <<streamer_info, bList, bPc, bCur, posted, faults>>
    BY <1>6 DEF DaemonRearm, UpdateNoticeInfoNoticeState
  <2>2. /\ Owed \subseteq Owed'
        /\ \A n \in Owed' \ Owed : n \in DOMAIN notice_info /\ n.streaming_channel_id = s
    BY <2>1 DEF Owed
  <2>3. s \in Streamer
    BY <1>6 DEF DaemonRearm, TypeOK, DaemonTypeOK, StreamerInfo
  <2>4. s \in Closed
    <3>1. dPc = "rearm" /\ dCur.streaming_status = "C"
      BY <1>6 DEF DaemonRearm, RearmInv
    <3>2. QED
      BY <2>3, <3>1 DEF Closed
  <2>5. Closed' \subseteq Closed
    BY <1>6, <2>1, FewerClosed DEF DaemonRearm, DaemonContinue
  <2>6. QED
    BY <2>1, <2>2, <2>4, <2>5 DEF PromiseStep, Promise!PromiseNext, Promise!Arm
<1>7. QED
  BY <1>1, <1>2, <1>4, <1>5, <1>6 DEF DaemonNext, DaemonStep, DaemonUpdateFails

----------------------------------------------------------------------------
(* The sender *)

(* A message uses up what its notice was owed; only a fault after it makes the *)
(* notice owed again.                                                          *)
LEMMA SenderPromise ==
    ASSUME TypeOK, NoticeHasStreamer,
           BotStep \/ BotSelectFails \/ BotReadFails \/ BotMarkFails
             \/ BotSignal \/ BotCrash \/ BotRestart,
           UNCHANGED daemonVars
    PROVE  PromiseStep
<1> USE DEF dbVars, commandVars, historyVars, daemonVars
<1>1. bPc # "mark" => bCur = None
  BY DEF TypeOK, BotTypeOK
<1>2. CASE BotSelect
  <2>1. /\ bPc = "select" /\ bPc' # "mark" /\ UNCHANGED <<streamer_info, notice_info, posted, faults>>
        /\ bList' \subseteq {n \in DOMAIN notice_info : notice_info[n] = "WAIT"}
    BY <1>2 DEF BotSelect, BotContinue, SelectNoticeInfoForSend
  <2>2. Owed' \subseteq Owed
    BY <2>1 DEF Owed
  <2>3. QED
    BY <2>1, <2>2, SameClosed, LoseStep
<1>3. CASE BotPost
  <2>1. PICK n \in bList :
          /\ bList' = bList \ {n} /\ bCur' = n
          /\ \/ /\ UNCHANGED faults
                /\ posted' = [posted EXCEPT
                     ![n][streamer_info[n.streaming_channel_id].broadcast] = @ + 1]
             \/ Fault("discord") /\ UNCHANGED posted
    BY <1>3 DEF BotPost
  <2>2. bPc = "post" /\ bPc' = "mark" /\ UNCHANGED <<streamer_info, notice_info>>
    BY <1>3 DEF BotPost
  <2>3. n \in Owed /\ Owed' = Owed \ {n}
    BY <2>1, <2>2 DEF Owed
  <2>4. Closed' = Closed
    BY <2>2, SameClosed
  <2>5. CASE Fault("discord") /\ UNCHANGED posted
    BY <2>3, <2>4, <2>5, FailStep
  <2>6. CASE ~(Fault("discord") /\ UNCHANGED posted)
    <3>1. n \in Row /\ n.streaming_channel_id \in DOMAIN streamer_info
      BY DEF TypeOK, BotTypeOK, NoticeHasStreamer
    <3>2. streamer_info[n.streaming_channel_id].broadcast \in Broadcast
      BY <3>1 DEF TypeOK, DbTypeOK, StreamerInfo
    <3>3. \E b \in Broadcast : Promise!Tell(n, b)
      BY <2>1, <2>3, <2>4, <2>6, <3>2 DEF Promise!Tell
    <3>4. QED
      BY <3>1, <3>3 DEF PromiseStep, Promise!PromiseNext
  <2>7. QED
    BY <2>5, <2>6
<1>4. CASE BotMark
  <2> DEFINE s == bCur.streaming_channel_id
  <2>1. /\ notice_info' = [n \in DOMAIN notice_info |->
                            IF n.streaming_channel_id = s THEN "SEND" ELSE notice_info[n]]
        /\ bList' = bList /\ UNCHANGED <<streamer_info, posted, faults>>
    BY <1>4 DEF BotMark, BotContinue, UpdateNoticeInfoNoticeState
  <2>2. \A n \in DOMAIN notice_info' :
           notice_info'[n] = "WAIT" => notice_info[n] = "WAIT" /\ n # bCur
    BY <2>1
  <2>3. DOMAIN notice_info' = DOMAIN notice_info
    BY <2>1
  <2>4. Owed' \subseteq Owed
    BY <2>1, <2>2, <2>3 DEF Owed
  <2>5. QED
    BY <2>1, <2>4, SameClosed, LoseStep
<1>5. CASE BotWait
  <2>1. /\ bPc = "wait" /\ bList' \subseteq bList
        /\ UNCHANGED <<streamer_info, notice_info, posted, faults>>
    BY <1>5 DEF BotWait, BotExit
  <2>2. Owed' \subseteq Owed
    BY <2>1 DEF Owed
  <2>3. QED
    BY <2>1, <2>2, SameClosed, LoseStep
<1>6. CASE BotRestart
  <2>1. bPc = "stopped" /\ bList' = bList /\ UNCHANGED <<streamer_info, notice_info, posted, faults>>
    BY <1>6 DEF BotRestart
  <2>2. Owed' \subseteq Owed
    BY <2>1 DEF Owed
  <2>3. QED
    BY <2>1, <2>2, SameClosed, LoseStep
<1>7. CASE BotSelectFails \/ BotReadFails \/ BotMarkFails \/ BotSignal \/ BotCrash
  <2>1. /\ UNCHANGED <<streamer_info, notice_info, posted>> /\ bList' \subseteq bList
        /\ \E kind \in {"db", "signal", "crash"} : Fault(kind)
    BY <1>7 DEF BotSelectFails, BotReadFails, BotMarkFails, BotSignal, BotCrash, BotExit, BotContinue
  <2>2. Owed' \subseteq Owed \cup {bCur}
    BY <2>1 DEF Owed
  <2>3. QED
    BY <2>1, <2>2, SameClosed, FailStep
<1>8. QED
  BY <1>2, <1>3, <1>4, <1>5, <1>6, <1>7 DEF BotStep

----------------------------------------------------------------------------
(* The command handlers *)

(* A registration is a subscription, a release loses what was owed.            *)
LEMMA CommandPromise ==
    ASSUME TypeOK, RowInv, CommandNext, UNCHANGED daemonVars PROVE PromiseStep
<1> USE DEF dbVars, sendVars, historyVars, daemonVars
<1>1. ASSUME NEW s \in Streamer, NEW u \in User, RegisterSelect(s, u) PROVE PromiseStep
  BY <1>1, SameOwed, RecordStep DEF RegisterSelect
<1>2. ASSUME NEW s \in Streamer, NEW u \in User, Release(s, u) PROVE PromiseStep
  <2>1. /\ DOMAIN notice_info' \subseteq DOMAIN notice_info
        /\ \A n \in DOMAIN notice_info' : notice_info'[n] = notice_info[n]
        /\ UNCHANGED <<streamer_info, bPc, bCur, bList, posted, faults>>
    BY <1>2 DEF Release, DeleteNoticeInfoUnitByMentionId, Restrict
  <2>2. Owed' \subseteq Owed
    BY <2>1 DEF Owed
  <2>3. QED
    BY <2>1, <2>2, SameClosed, LoseStep
<1>3. ASSUME NEW n \in newStreamer, RegisterInsertStreamer(n) PROVE PromiseStep
  BY <1>3, SameOwed, RecordStep DEF RegisterInsertStreamer
<1>4. ASSUME NEW n \in newStreamer, RegisterStreamerFails(n) PROVE PromiseStep
  <2>1. UNCHANGED <<streamer_info, notice_info, bPc, bCur, bList, posted>>
    BY <1>4 DEF RegisterStreamerFails
  <2>2. Owed' = Owed /\ Closed' = Closed
    BY <2>1, SameOwed, SameClosed
  <2>3. UNCHANGED faults \/ \E kind \in {"http", "db"} : Fault(kind)
    BY <1>4 DEF RegisterStreamerFails
  <2>4. QED
    BY <2>1, <2>2, <2>3, RecordStep, FailStep
<1>5. ASSUME NEW n \in newNotice, RegisterInsertNotice(n) PROVE PromiseStep
  <2>1. n \in Row /\ Unborn(n)
    BY DEF TypeOK, BotTypeOK, Unborn
  <2>2. n \notin DOMAIN notice_info \cup bList /\ \A b \in Broadcast : posted[n][b] = 0
    BY <2>1 DEF RowInv
  <2>3. posted[n] \in [Broadcast -> Nat]
    BY <2>1 DEF TypeOK, HistoryTypeOK
  <2>4. posted[n] = [b \in Broadcast |-> 0]
    BY <2>2, <2>3
  <2>5. /\ notice_info' = [m \in DOMAIN notice_info \cup {n} |->
                            IF m = n THEN "WAIT" ELSE notice_info[m]]
        /\ UNCHANGED <<streamer_info, bPc, bCur, bList, posted, faults>>
    BY <1>5 DEF RegisterInsertNotice, InsertNoticeInfo
  <2>6. n \notin Owed
    BY <2>2 DEF Owed
  <2>7. Owed' = Owed \cup {n} \/ Owed' = Owed
    BY <2>2, <2>5 DEF Owed
  <2>8. CASE Owed' = Owed
    BY <2>5, <2>8, RecordStep
  <2>9. CASE Owed' = Owed \cup {n}
    <3>1. Promise!Subscribe(n)
      BY <2>4, <2>5, <2>6, <2>9, SameClosed DEF Promise!Subscribe
    <3>2. QED
      BY <2>1, <3>1 DEF PromiseStep, Promise!PromiseNext
  <2>10. QED
    BY <2>7, <2>8, <2>9
<1>6. ASSUME NEW n \in newNotice, RegisterNoticeFails(n) PROVE PromiseStep
  <2>1. UNCHANGED <<streamer_info, notice_info, bPc, bCur, bList, posted>> /\ Fault("db")
    BY <1>6 DEF RegisterNoticeFails
  <2>2. Owed' = Owed /\ Closed' = Closed
    BY <2>1, SameOwed, SameClosed
  <2>3. QED
    BY <2>1, <2>2, FailStep
<1>7. QED
  BY <1>1, <1>2, <1>3, <1>4, <1>5, <1>6 DEF CommandNext

----------------------------------------------------------------------------
(* The syncs *)

(* A sync records statuses; it arms nothing and sends nothing.                 *)
LEMMA SyncPromise ==
    ASSUME BatchNext, UNCHANGED <<daemonVars, botVars>> PROVE PromiseStep
<1> USE DEF dbVars, daemonVars, botVars, sendVars, historyVars
<1>1. PICK p \in Sync :
         \/ SyncSelect(p) \/ SyncPoll(p) \/ SyncPollFails(p)
         \/ SyncUpdate(p) \/ SyncUpdateFails(p) \/ SyncCrash(p)
  BY DEF BatchNext
<1>2. CASE SyncSelect(p) \/ SyncPoll(p) \/ SyncUpdate(p) \/ (SyncUpdateFails(p) /\ UNCHANGED faults)
  <2>1. UNCHANGED <<notice_info, faults>>
    BY <1>2 DEF SyncSelect, SyncPoll, SyncUpdate, SyncUpdateFails
  <2>2. QED
    BY <2>1, SameOwed, RecordStep
<1>3. CASE SyncPollFails(p) \/ SyncCrash(p) \/ (SyncUpdateFails(p) /\ ~UNCHANGED faults)
  <2>1. UNCHANGED dbVars /\ \E kind \in {"http", "db", "crash"} : Fault(kind)
    BY <1>3 DEF SyncPollFails, SyncCrash, SyncUpdateFails
  <2>2. Owed' = Owed /\ Closed' = Closed
    BY <2>1, SameOwed, SameClosed
  <2>3. QED
    BY <2>1, <2>2, FailStep
<1>4. QED
  BY <1>1, <1>2, <1>3

----------------------------------------------------------------------------

(* The first state owes a message for every subscription there is.             *)
LEMMA PromiseStart == Init => Promise!PromiseInit /\ RearmInv
<1> SUFFICES ASSUME Init PROVE Promise!PromiseInit /\ RearmInv
  OBVIOUS
<1>1. Owed = Subscribed
  BY DEF Init, BotInit, Owed
<1>2. dPc = "select"
  BY DEF Init, DaemonInit
<1>3. Closed = {n.streaming_channel_id : n \in Subscribed}
  BY <1>2 DEF Init, NewStreamerInfo, Closed
<1>4. QED
  BY <1>1, <1>2, <1>3 DEF Init, BotInit, Promise!PromiseInit, RearmInv

(* Only the daemon moves itself, and it arms after it has written a close.     *)
LEMMA RearmNext == RearmInv /\ [Next]_vars => RearmInv'
<1> SUFFICES ASSUME RearmInv, [Next]_vars PROVE RearmInv'
  OBVIOUS
<1>1. CASE UNCHANGED <<dPc, dCur>>
  BY <1>1 DEF RearmInv
<1>2. CASE DaemonNext
  BY <1>2 DEF DaemonNext, DaemonStep, DaemonSelect, DaemonPollSame, DaemonPollChanged, DaemonUpdate,
              DaemonUpdateFails, DaemonRearm, DaemonWait, DaemonSelectFails, DaemonPollFails,
              DaemonRearmFails, DaemonSignal, DaemonCrash, DaemonRestart, DaemonExit,
              DaemonContinue, RearmInv
<1>3. QED
  BY <1>1, <1>2 DEF Next, vars, daemonVars

(* Every step is one of the promise.                                           *)
LEMMA EveryStepKeepsPromise ==
    ASSUME TypeOK, NoticeHasStreamer, RowInv, RearmInv, [Next]_vars
    PROVE  PromiseStep
<1>1. CASE DaemonNext /\ UNCHANGED <<channel, botVars, batchVars>>
  BY <1>1, DaemonPromise
<1>2. CASE BotNext /\ UNCHANGED <<channel, daemonVars, batchVars>>
  BY <1>2, SenderPromise, CommandPromise DEF BotNext
<1>3. CASE BatchNext /\ UNCHANGED <<channel, daemonVars, botVars>>
  BY <1>3, SyncPromise
<1>4. CASE UNCHANGED <<dbVars, faults, botVars>>
  BY <1>4, SameOwed, RecordStep DEF dbVars, botVars, sendVars, historyVars
<1>5. QED
  BY <1>1, <1>2, <1>3, <1>4 DEF Next, vars, dbVars

(* The daemon, sendStreamingNotice, the command handlers and any number of     *)
(* syncs implement NoticePromise (KeepsPromise): a message uses up one arming, *)
(* and armings come from a registration, a close the daemon recorded or a      *)
(* fault.                                                                      *)
THEOREM PromiseKept == Spec => KeepsPromise
<1>1. (TypeOK /\ NoticeHasStreamer /\ RowInv /\ RearmInv) /\ [Next]_vars
        => [Promise!PromiseNext]_(Promise!promiseVars)
  BY EveryStepKeepsPromise DEF PromiseStep, Promise!promiseVars
<1>2. QED
  BY <1>1, PromiseStart, RearmNext, TypeCorrect, NoticesHaveStreamers, InitRowInv, NextRowInv, PTL
     DEF Spec, KeepsPromise, Promise!PromiseSpec

=============================================================================
