----------------------------- MODULE ChticeProofs -----------------------------
(* Theorems about Chtice, for every set of streamers, users and syncs and      *)
(* every bound.                                                                *)
EXTENDS Chtice, TLAPS

----------------------------------------------------------------------------
(* Type correctness *)

(* What the platform answers, laid over a row, is a row of the same streamer.  *)
LEMMA LiveStatusType ==
    ASSUME ChannelTypeOK, NEW org \in StreamerInfo, NEW fields
    PROVE  /\ LiveStatus(org, fields) \in StreamerInfo
           /\ LiveStatus(org, fields).streaming_channel_id = org.streaming_channel_id
  BY DEF ChannelTypeOK, LiveStatus, StreamerInfo

(* The SELECT of all streamers returns rows.                                   *)
LEMMA SelectAllType ==
    ASSUME DbTypeOK PROVE SelectStreamerInfoAll \subseteq StreamerInfo
  BY DEF DbTypeOK, SelectStreamerInfoAll

(* What queryInsertStreamerInfo writes is a row of that streamer.              *)
LEMMA NewStreamerInfoType ==
    ASSUME NEW s \in Streamer
    PROVE  /\ NewStreamerInfo(s) \in StreamerInfo
           /\ NewStreamerInfo(s).streaming_channel_id = s
  BY DbQueryAssumption DEF NewStreamerInfo, StreamerInfo, Title, Broadcast

(* Counting one more keeps a function of counters one.                         *)
LEMMA CountUpType ==
    ASSUME NEW S, NEW f \in [S -> Nat], NEW k
    PROVE  [f EXCEPT ![k] = @ + 1] \in [S -> Nat]
<1>1. CASE k \in S
  BY <1>1
<1>2. CASE k \notin S
  BY <1>2
<1>3. QED
  BY <1>1, <1>2

(* A fault stays within the bound.                                             *)
LEMMA FaultType ==
    ASSUME faults \in 0 .. MaxFaults, NEW kind, Fault(kind)
    PROVE  faults' \in 0 .. MaxFaults
  BY DbQueryAssumption DEF Fault

(* The UPDATE of a live status writes a row where a row of its streamer was.   *)
LEMMA UpdateLiveStatusType ==
    ASSUME DbTypeOK, NEW info \in StreamerInfo, UpdateStreamerInfoLiveStatus(info)
    PROVE  /\ DOMAIN streamer_info' = DOMAIN streamer_info
           /\ streamer_info' \in [DOMAIN streamer_info' -> StreamerInfo]
           /\ \A s \in DOMAIN streamer_info' : streamer_info'[s].streaming_channel_id = s
  BY DEF DbTypeOK, UpdateStreamerInfoLiveStatus

(* The UPDATE by channel neither adds nor removes notices.                     *)
LEMMA UpdateNoticeStateType ==
    ASSUME DbTypeOK, NEW state \in NoticeState, NEW s,
           UpdateNoticeInfoNoticeState(state, s)
    PROVE  /\ DOMAIN notice_info' = DOMAIN notice_info
           /\ notice_info' \in [DOMAIN notice_info' -> NoticeState]
  BY DEF DbTypeOK, UpdateNoticeInfoNoticeState

(* The daemon's actions keep the types.                                        *)
LEMMA DaemonTypes ==
    ASSUME TypeOK, DaemonNext PROVE DbTypeOK' /\ DaemonTypeOK'
<1> USE DEF TypeOK
<1>1. CASE DaemonSelect
  BY <1>1, SelectAllType
  DEF DaemonSelect, DaemonContinue, DbTypeOK, DaemonTypeOK, DaemonPc, dbVars
<1>2. CASE DaemonSelectFails
  BY <1>2, FaultType
  DEF DaemonSelectFails, DaemonExit, DbTypeOK, DaemonTypeOK, DaemonPc, dbVars
<1>3. CASE DaemonPollSame
  BY <1>3 DEF DaemonPollSame, DaemonContinue, DbTypeOK, DaemonTypeOK, DaemonPc, dbVars
<1>4. CASE DaemonPollChanged
  BY <1>4, LiveStatusType
  DEF DaemonPollChanged, DbTypeOK, DaemonTypeOK, DaemonPc, dbVars
<1>5. CASE DaemonPollFails
  BY <1>5, FaultType
  DEF DaemonPollFails, DaemonContinue, DbTypeOK, DaemonTypeOK, DaemonPc, dbVars
<1>6. CASE DaemonUpdate
  BY <1>6, UpdateLiveStatusType
  DEF DaemonUpdate, DaemonContinue, DbTypeOK, DaemonTypeOK, DaemonPc
<1>7. CASE DaemonUpdateFails
  BY <1>7, FaultType
  DEF DaemonUpdateFails, DaemonContinue, DbTypeOK, DaemonTypeOK, DaemonPc, dbVars
<1>8. CASE DaemonRearm
  BY <1>8, UpdateNoticeStateType
  DEF DaemonRearm, DaemonContinue, DbTypeOK, DaemonTypeOK, DaemonPc, NoticeState
<1>9. CASE DaemonRearmFails
  BY <1>9, FaultType
  DEF DaemonRearmFails, DaemonContinue, DbTypeOK, DaemonTypeOK, DaemonPc, dbVars
<1>10. CASE DaemonWait
  BY <1>10 DEF DaemonWait, DbTypeOK, DaemonTypeOK, DaemonPc, dbVars
<1>11. CASE DaemonSignal
  BY <1>11, FaultType DEF DaemonSignal, DbTypeOK, DaemonTypeOK, DaemonPc, dbVars
<1>12. CASE DaemonCrash
  BY <1>12, FaultType DEF DaemonCrash, DaemonExit, DbTypeOK, DaemonTypeOK, DaemonPc, dbVars
<1>13. CASE DaemonRestart
  BY <1>13 DEF DaemonRestart, DbTypeOK, DaemonTypeOK, DaemonPc, dbVars
<1>14. QED
  BY <1>1, <1>2, <1>3, <1>4, <1>5, <1>6, <1>7, <1>8, <1>9, <1>10, <1>11, <1>12, <1>13
  DEF DaemonNext, DaemonStep

(* The command handlers keep the types.                                        *)
LEMMA RegisterTypes ==
    ASSUME TypeOK, CommandNext PROVE DbTypeOK' /\ BotTypeOK' /\ HistoryTypeOK'
<1> USE DbQueryAssumption DEF TypeOK, dbVars, sendVars, historyVars
<1>1. ASSUME NEW s \in Streamer, NEW u \in User, RegisterSelect(s, u)
      PROVE  DbTypeOK' /\ BotTypeOK' /\ HistoryTypeOK'
  <2> DEFINE n == [streaming_channel_id |-> s, mention_id |-> u, regist_no |-> issued + 1]
  <2>1. issued' \in 0 .. MaxRegist /\ issued' = issued + 1
    BY <1>1 DEF RegisterSelect, BotTypeOK
  <2>2. n \in Row
    BY <2>1 DEF Row, BotTypeOK
  <2>3. newNotice' \subseteq newNotice \cup {n} /\ newStreamer' \subseteq newStreamer \cup {n}
    BY <1>1 DEF RegisterSelect
  <2> HIDE DEF n
  <2>4. QED
    BY <1>1, <2>1, <2>2, <2>3 DEF RegisterSelect, DbTypeOK, BotTypeOK, HistoryTypeOK
<1>2. ASSUME NEW s \in Streamer, NEW u \in User, Release(s, u)
      PROVE  DbTypeOK' /\ BotTypeOK' /\ HistoryTypeOK'
  <2>1. DOMAIN notice_info' \subseteq DOMAIN notice_info
        /\ notice_info' \in [DOMAIN notice_info' -> NoticeState]
    BY <1>2 DEF Release, DeleteNoticeInfoUnitByMentionId, Restrict, DbTypeOK
  <2>2. QED
    BY <1>2, <2>1 DEF Release, commandVars, DbTypeOK, BotTypeOK, HistoryTypeOK
<1>3. ASSUME NEW n \in newStreamer, RegisterInsertStreamer(n)
      PROVE  DbTypeOK' /\ BotTypeOK' /\ HistoryTypeOK'
  <2> DEFINE s == n.streaming_channel_id
  <2>1. n \in Row /\ s \in Streamer
    BY DEF BotTypeOK, Row
  <2>2. NewStreamerInfo(s) \in StreamerInfo /\ NewStreamerInfo(s).streaming_channel_id = s
    BY <2>1, NewStreamerInfoType
  <2>3. DOMAIN streamer_info' = DOMAIN streamer_info \cup {s}
        /\ \A t \in DOMAIN streamer_info' :
              streamer_info'[t] = (IF t = s THEN NewStreamerInfo(s) ELSE streamer_info[t])
        /\ streamer_info' \in [DOMAIN streamer_info' -> StreamerInfo]
    BY <1>3, <2>1, <2>2 DEF RegisterInsertStreamer, InsertStreamerInfo, DbTypeOK
  <2> HIDE DEF s
  <2>4. QED
    BY <1>3, <2>1, <2>2, <2>3
    DEF RegisterInsertStreamer, DbTypeOK, BotTypeOK, HistoryTypeOK
<1>4. ASSUME NEW n \in newStreamer, RegisterStreamerFails(n)
      PROVE  DbTypeOK' /\ BotTypeOK' /\ HistoryTypeOK'
  BY <1>4, FaultType DEF RegisterStreamerFails, DbTypeOK, BotTypeOK, HistoryTypeOK
<1>5. ASSUME NEW n \in newNotice, RegisterInsertNotice(n)
      PROVE  DbTypeOK' /\ BotTypeOK' /\ HistoryTypeOK'
  BY <1>5 DEF RegisterInsertNotice, InsertNoticeInfo, NoticeState, DbTypeOK, BotTypeOK, HistoryTypeOK
<1>6. ASSUME NEW n \in newNotice, RegisterNoticeFails(n)
      PROVE  DbTypeOK' /\ BotTypeOK' /\ HistoryTypeOK'
  BY <1>6, FaultType DEF RegisterNoticeFails, DbTypeOK, BotTypeOK, HistoryTypeOK
<1>7. QED
  BY <1>1, <1>2, <1>3, <1>4, <1>5, <1>6 DEF CommandNext

(* The bot's actions, its handlers' included, keep the types.                  *)
LEMMA BotTypes ==
    ASSUME TypeOK, BotNext PROVE DbTypeOK' /\ BotTypeOK' /\ HistoryTypeOK'
<1> USE DEF TypeOK, BotPc, dbVars, commandVars, historyVars
<1>1. CASE BotSelect
  BY <1>1 DEF BotSelect, BotContinue, SelectNoticeInfoForSend, DbTypeOK, BotTypeOK, HistoryTypeOK
<1>2. CASE BotSelectFails
  BY <1>2, FaultType DEF BotSelectFails, BotExit, DbTypeOK, BotTypeOK, HistoryTypeOK
<1>3. CASE BotPost
  <2>1. PICK n \in bList :
           /\ bList' = bList \ {n}
           /\ bCur' = n
           /\ \/ /\ UNCHANGED faults
                 /\ posted' = [posted EXCEPT
                      ![n][streamer_info[n.streaming_channel_id].broadcast] = @ + 1]
                 /\ late' = IF n \in DOMAIN notice_info
                            THEN late ELSE [late EXCEPT ![n] = @ + 1]
              \/ Fault("discord") /\ UNCHANGED <<posted, late>>
    BY <1>3 DEF BotPost
  <2>2. n \in Row
    BY DEF BotTypeOK
  <2>3. faults' \in 0 .. MaxFaults
    BY <2>1, FaultType DEF DbTypeOK
  <2>4. late' \in [Row -> Nat]
    BY <2>1, <2>2 DEF HistoryTypeOK
  <2>5. posted' \in [Row -> [Broadcast -> Nat]]
    <3> DEFINE b == streamer_info[n.streaming_channel_id].broadcast
    <3>1. [posted[n] EXCEPT ![b] = @ + 1] \in [Broadcast -> Nat]
      BY <2>2, CountUpType DEF HistoryTypeOK
    <3>2. CASE posted' = [posted EXCEPT ![n][b] = @ + 1]
      <4>1. posted' = [posted EXCEPT ![n] = [posted[n] EXCEPT ![b] = @ + 1]]
        BY <3>2
      <4> HIDE DEF b
      <4>2. QED
        BY <2>2, <3>1, <4>1 DEF HistoryTypeOK
    <3>3. CASE UNCHANGED posted
      BY <3>3 DEF HistoryTypeOK
    <3>4. QED
      BY <2>1, <3>2, <3>3
  <2>6. QED
    BY <1>3, <2>1, <2>2, <2>3, <2>4, <2>5 DEF BotPost, DbTypeOK, BotTypeOK, HistoryTypeOK
<1>4. CASE BotReadFails
  BY <1>4, FaultType DEF BotReadFails, BotContinue, DbTypeOK, BotTypeOK, HistoryTypeOK
<1>5. CASE BotMark
  BY <1>5, UpdateNoticeStateType
  DEF BotMark, BotContinue, NoticeState, DbTypeOK, BotTypeOK, HistoryTypeOK
<1>6. CASE BotMarkFails
  <2>1. lostMarks' \in [Row -> Nat]
    BY <1>6 DEF BotMarkFails, BotTypeOK, HistoryTypeOK
  <2>2. QED
    BY <1>6, <2>1, FaultType DEF BotMarkFails, BotContinue, DbTypeOK, BotTypeOK, HistoryTypeOK
<1>7. CASE BotWait
  BY <1>7 DEF BotWait, BotExit, DbTypeOK, BotTypeOK, HistoryTypeOK
<1>8. CASE BotSignal
  BY <1>8, FaultType DEF BotSignal, DbTypeOK, BotTypeOK, HistoryTypeOK
<1>9. CASE BotCrash
  <2>1. lostMarks' \in [Row -> Nat]
    BY <1>9 DEF BotCrash, BotTypeOK, HistoryTypeOK
  <2>2. QED
    BY <1>9, <2>1, FaultType DEF BotCrash, BotExit, DbTypeOK, BotTypeOK, HistoryTypeOK
<1>10. CASE BotRestart
  BY <1>10 DEF BotRestart, DbTypeOK, BotTypeOK, HistoryTypeOK
<1>11. CASE CommandNext
  BY <1>11, RegisterTypes
<1>12. QED
  BY <1>1, <1>2, <1>3, <1>4, <1>5, <1>6, <1>7, <1>8, <1>9, <1>10, <1>11 DEF BotNext, BotStep

(* The actions of the syncs keep the types.                                    *)
LEMMA BatchTypes ==
    ASSUME TypeOK, NEW p \in Sync,
           \/ SyncSelect(p) \/ SyncPoll(p) \/ SyncPollFails(p)
           \/ SyncUpdate(p) \/ SyncUpdateFails(p) \/ SyncCrash(p)
    PROVE  DbTypeOK' /\ BatchTypeOK'
<1> USE DEF TypeOK, SyncPc, dbVars
<1>1. CASE SyncSelect(p)
  BY <1>1, SelectAllType DEF SyncSelect, SyncContinue, DbTypeOK, BatchTypeOK
<1>2. CASE SyncPoll(p)
  <2>1. PICK org \in tList[p], fields \in AnswerFields :
           tCur' = [tCur EXCEPT ![p] = LiveStatus(org, fields)]
    BY <1>2 DEF SyncPoll
  <2>2. LiveStatus(org, fields) \in StreamerInfo
    BY LiveStatusType DEF BatchTypeOK
  <2>3. QED
    BY <1>2, <2>1, <2>2 DEF SyncPoll, DbTypeOK, BatchTypeOK
<1>3. CASE SyncPollFails(p)
  BY <1>3, FaultType DEF SyncPollFails, SyncStop, DbTypeOK, BatchTypeOK
<1>4. CASE SyncUpdate(p)
  BY <1>4, UpdateLiveStatusType DEF SyncUpdate, SyncContinue, DbTypeOK, BatchTypeOK
<1>5. CASE SyncUpdateFails(p)
  BY <1>5, FaultType DEF SyncUpdateFails, SyncStop, DbTypeOK, BatchTypeOK
<1>6. CASE SyncCrash(p)
  BY <1>6, FaultType DEF SyncCrash, SyncStop, DbTypeOK, BatchTypeOK
<1>7. QED
  BY <1>1, <1>2, <1>3, <1>4, <1>5, <1>6

(* The platform keeps its type.                                                *)
LEMMA ChannelTypes ==
    ASSUME ChannelTypeOK, ChannelNext PROVE ChannelTypeOK'
<1>1. ASSUME NEW s \in Streamer, GoLive(s) PROVE ChannelTypeOK'
  <2>1. PICK title \in LiveTitles :
           channel' = [channel EXCEPT ![s] =
              [streaming_channel_id |-> s, streaming_title |-> title,
               streaming_status |-> "O", broadcast |-> channel[s].broadcast + 1]]
    BY <1>1 DEF GoLive
  <2>2. channel[s].broadcast \in 0 .. MaxBroadcast /\ channel[s].broadcast < MaxBroadcast
    BY <1>1 DEF GoLive, ChannelTypeOK, StreamerInfo, Broadcast
  <2>3. channel[s].broadcast + 1 \in Broadcast
    BY <2>2, DbQueryAssumption DEF Broadcast
  <2>4. QED
    BY <2>1, <2>3 DEF ChannelTypeOK, StreamerInfo, Title
<1>2. ASSUME NEW s \in Streamer, GoOffline(s) PROVE ChannelTypeOK'
  BY <1>2 DEF GoOffline, ChannelTypeOK, StreamerInfo
<1>3. ASSUME NEW s \in Streamer, Retitle(s) PROVE ChannelTypeOK'
  <2>1. PICK title \in LiveTitles :
           channel' = [channel EXCEPT ![s].streaming_title = title]
    BY <1>3 DEF Retitle
  <2>2. QED
    BY <2>1 DEF ChannelTypeOK, StreamerInfo, Title
<1>4. QED
  BY <1>1, <1>2, <1>3 DEF ChannelNext

(* The initial states are typed.                                               *)
LEMMA InitTypes == Init => TypeOK
<1> SUFFICES ASSUME Init PROVE TypeOK
  OBVIOUS
<1> USE DbQueryAssumption DEF Init
<1>1. DbTypeOK
  <2>1. \A s \in Streamer : NewStreamerInfo(s) \in StreamerInfo
                            /\ NewStreamerInfo(s).streaming_channel_id = s
    BY NewStreamerInfoType
  <2>2. {n.streaming_channel_id : n \in Subscribed} \subseteq Streamer
    BY SubscribedAssumption DEF Row
  <2>3. QED
    BY <2>1, <2>2, SubscribedAssumption DEF DbTypeOK, NoticeState
<1>2. ChannelTypeOK
  BY DEF ChannelInit, ChannelTypeOK
<1>3. DaemonTypeOK
  BY DEF DaemonInit, DaemonTypeOK, DaemonPc
<1>4. BotTypeOK
  BY DEF BotInit, BotTypeOK, BotPc
<1>5. HistoryTypeOK
  BY DEF BotInit, HistoryTypeOK
<1>6. BatchTypeOK
  BY DEF BatchInit, BatchTypeOK, SyncPc
<1>7. QED
  BY <1>1, <1>2, <1>3, <1>4, <1>5, <1>6 DEF TypeOK

(* Every step keeps the types.                                                 *)
LEMMA NextTypes == TypeOK /\ [Next]_vars => TypeOK'
<1> SUFFICES ASSUME TypeOK, [Next]_vars PROVE TypeOK'
  OBVIOUS
<1> USE DEF TypeOK, daemonVars, botVars, sendVars, commandVars, historyVars, batchVars, dbVars
<1>1. CASE DaemonNext /\ UNCHANGED <<channel, botVars, batchVars>>
  BY <1>1, DaemonTypes DEF ChannelTypeOK, BotTypeOK, HistoryTypeOK, BatchTypeOK
<1>2. CASE BotNext /\ UNCHANGED <<channel, daemonVars, batchVars>>
  BY <1>2, BotTypes DEF ChannelTypeOK, DaemonTypeOK, BatchTypeOK
<1>3. CASE BatchNext /\ UNCHANGED <<channel, daemonVars, botVars>>
  BY <1>3, BatchTypes DEF BatchNext, ChannelTypeOK, DaemonTypeOK, BotTypeOK, HistoryTypeOK
<1>4. CASE ChannelNext /\ UNCHANGED <<dbVars, faults, daemonVars, botVars, batchVars>>
  BY <1>4, ChannelTypes DEF DbTypeOK, DaemonTypeOK, BotTypeOK, HistoryTypeOK, BatchTypeOK
<1>5. CASE UNCHANGED vars
  BY <1>5 DEF vars, DbTypeOK, ChannelTypeOK, DaemonTypeOK, BotTypeOK, HistoryTypeOK, BatchTypeOK
<1>6. QED
  BY <1>1, <1>2, <1>3, <1>4, <1>5 DEF Next

(* Every reachable state is well formed: cur_info and ninfo hold a record       *)
(* whenever pollLiveStatus and sendStreamingNotice use them, and the tables    *)
(* only ever hold rows filed under their own channel.                          *)
THEOREM TypeCorrect == Spec => []TypeOK
  BY InitTypes, NextTypes, PTL DEF Spec

=============================================================================
