------------------------------ MODULE NoticeProofs ------------------------------
(* The invariants of Chtice that are about the tables and the messages. The    *)
(* first part holds with any number of syncs, the second needs that there are  *)
(* none.                                                                       *)
EXTENDS ChticeProofs

----------------------------------------------------------------------------
(* RecordedStatusWasReal. The table alone is not inductive: a process writes   *)
(* back a copy it took earlier. So the claim is made of every copy there is.   *)

WasReal(info) ==
    LET real == channel[info.streaming_channel_id] IN
    /\ info.broadcast <= real.broadcast
    /\ info.streaming_status = "C" =>
          real.streaming_status = "C" \/ real.broadcast > info.broadcast

(* The rows in the table, and those the daemon and the syncs hold in memory.   *)
Copies ==
    SelectStreamerInfoAll
    \cup dList
    \cup {info \in StreamerInfo : dPc \in {"update", "rearm"} /\ info = dCur}
    \cup {info \in StreamerInfo : \E p \in Sync : info \in tList[p]}
    \cup {info \in StreamerInfo : \E p \in Sync : tPc[p] = "update" /\ info = tCur[p]}

RealInv ==
    /\ \A s \in Streamer : channel[s].streaming_status = "O" => channel[s].broadcast > 0
    /\ \A info \in Copies : WasReal(info)

(* A copy laid over with what the platform says now was real at some time, if  *)
(* the copy was.                                                               *)
LEMMA LiveStatusReal ==
    ASSUME ChannelTypeOK, NEW org \in StreamerInfo, WasReal(org), NEW fields
    PROVE  WasReal(LiveStatus(org, fields))
<1> DEFINE cur  == LiveStatus(org, fields)
           real == channel[org.streaming_channel_id]
<1>1. cur.streaming_channel_id = org.streaming_channel_id
  BY LiveStatusType
<1>2. real \in StreamerInfo
  BY DEF ChannelTypeOK, StreamerInfo
<1>3. CASE "status" \in fields
  <2>1. cur.streaming_status = real.streaming_status /\ cur.broadcast = real.broadcast
    BY <1>3 DEF LiveStatus, StreamerInfo
  <2>2. real.broadcast \in Int
    BY <1>2 DEF StreamerInfo, Broadcast
  <2> HIDE DEF cur
  <2>3. QED
    BY <1>1, <2>1, <2>2 DEF WasReal, cur
<1>4. CASE "status" \notin fields
  <2>1. cur.streaming_status = org.streaming_status /\ cur.broadcast = org.broadcast
    BY <1>4 DEF LiveStatus, StreamerInfo
  <2> HIDE DEF cur
  <2>2. QED
    BY <1>1, <2>1 DEF WasReal, cur
<1>5. QED
  BY <1>3, <1>4

(* A new row, closed with no open time, is true of any channel.                *)
LEMMA NewStreamerReal ==
    ASSUME ChannelTypeOK, NEW s \in Streamer,
           channel[s].streaming_status = "O" => channel[s].broadcast > 0
    PROVE  WasReal(NewStreamerInfo(s))
<1>1. channel[s].broadcast \in Nat /\ channel[s].streaming_status \in {"O", "C"}
  BY DbQueryAssumption DEF ChannelTypeOK, StreamerInfo, Broadcast
<1>2. QED
  BY <1>1 DEF WasReal, NewStreamerInfo

(* What a process step leaves in memory or in the table was there before, or   *)
(* is a copy that was there with the platform's answer laid over it.           *)
Fresh(info) ==
    \/ info \in Copies
    \/ \E org \in Copies, fields \in AnswerFields : info = LiveStatus(org, fields)

(* Records the daemon's step leaves anywhere are old ones or fresh answers.    *)
LEMMA DaemonCopies ==
    ASSUME TypeOK, DaemonNext, UNCHANGED batchVars, NEW info \in Copies'
    PROVE  Fresh(info)
<1> USE DEF TypeOK, batchVars, dbVars, SelectStreamerInfoAll
<1>1. CASE DaemonSelect \/ DaemonPollSame \/ DaemonPollFails
  BY <1>1 DEF DaemonSelect, DaemonPollSame, DaemonPollFails, DaemonContinue, Copies, Fresh
<1>2. CASE DaemonPollChanged
  <2>1. PICK org \in dList, fields \in AnswerFields :
           dCur' = LiveStatus(org, fields) /\ dList' = dList \ {org}
    BY <1>2 DEF DaemonPollChanged
  <2>2. org \in Copies
    BY DEF Copies
  <2>3. info \in Copies \/ info = LiveStatus(org, fields)
    BY <1>2, <2>1 DEF DaemonPollChanged, Copies
  <2>4. QED
    BY <2>2, <2>3 DEF Fresh
<1>3. CASE DaemonUpdate
  <2>1. dCur \in StreamerInfo /\ dCur \in Copies
    BY <1>3 DEF DaemonUpdate, DaemonTypeOK, Copies
  <2>2. /\ DOMAIN streamer_info' = DOMAIN streamer_info
        /\ \A s \in DOMAIN streamer_info' :
              streamer_info'[s] = dCur \/ streamer_info'[s] = streamer_info[s]
    BY <1>3 DEF DaemonUpdate, UpdateStreamerInfoLiveStatus
  <2>3. QED
    BY <1>3, <2>1, <2>2 DEF DaemonUpdate, DaemonContinue, Copies, Fresh
<1>4. CASE DaemonUpdateFails \/ DaemonRearm \/ DaemonRearmFails
  BY <1>4 DEF DaemonUpdateFails, DaemonRearm, DaemonRearmFails, DaemonContinue, Copies, Fresh
<1>5. CASE DaemonSelectFails \/ DaemonWait \/ DaemonSignal \/ DaemonCrash \/ DaemonRestart
  BY <1>5
  DEF DaemonSelectFails, DaemonWait, DaemonSignal, DaemonCrash, DaemonRestart, DaemonExit,
      Copies, Fresh
<1>6. QED
  BY <1>1, <1>2, <1>3, <1>4, <1>5 DEF DaemonNext, DaemonStep

(* So are those a sync's step leaves.                                          *)
LEMMA BatchCopies ==
    ASSUME TypeOK, BatchNext, UNCHANGED daemonVars, NEW info \in Copies'
    PROVE  Fresh(info)
<1> USE DEF TypeOK, daemonVars, dbVars, SelectStreamerInfoAll, BatchTypeOK
<1>1. PICK p \in Sync :
         \/ SyncSelect(p) \/ SyncPoll(p) \/ SyncPollFails(p)
         \/ SyncUpdate(p) \/ SyncUpdateFails(p) \/ SyncCrash(p)
  BY DEF BatchNext
<1>2. CASE SyncSelect(p)
  BY <1>2 DEF SyncSelect, SyncContinue, Copies, Fresh
<1>3. CASE SyncPoll(p)
  <2>1. PICK org \in tList[p], fields \in AnswerFields :
           tCur' = [tCur EXCEPT ![p] = LiveStatus(org, fields)]
    BY <1>3 DEF SyncPoll
  <2>2. org \in Copies
    BY DEF Copies
  <2>3. info \in Copies \/ info = LiveStatus(org, fields)
    BY <1>3, <2>1 DEF SyncPoll, Copies
  <2>4. QED
    BY <2>2, <2>3 DEF Fresh
<1>4. CASE SyncUpdate(p)
  <2>1. tCur[p] \in StreamerInfo /\ tCur[p] \in Copies
    BY <1>4 DEF SyncUpdate, Copies
  <2>2. /\ DOMAIN streamer_info' = DOMAIN streamer_info
        /\ \A s \in DOMAIN streamer_info' :
              streamer_info'[s] = tCur[p] \/ streamer_info'[s] = streamer_info[s]
    BY <1>4 DEF SyncUpdate, UpdateStreamerInfoLiveStatus
  <2>3. \A q \in Sync : tList'[q] \subseteq tList[q]
    BY <1>4 DEF SyncUpdate, SyncContinue
  <2>4. \A q \in Sync : tPc'[q] = "update" => tPc[q] = "update" /\ tCur'[q] = tCur[q]
    BY <1>4 DEF SyncUpdate, SyncContinue
  <2>5. QED
    BY <1>4, <2>1, <2>2, <2>3, <2>4 DEF Copies, Fresh
<1>5. CASE SyncPollFails(p) \/ SyncUpdateFails(p) \/ SyncCrash(p)
  BY <1>5 DEF SyncPollFails, SyncUpdateFails, SyncCrash, SyncStop, Copies, Fresh
<1>6. QED
  BY <1>1, <1>2, <1>3, <1>4, <1>5

(* Every record in flight is a row.                                            *)
LEMMA CopiesType == ASSUME TypeOK PROVE Copies \subseteq StreamerInfo
  BY SelectAllType DEF TypeOK, DaemonTypeOK, Copies

(* Old records and fresh answers are real if the old records are.              *)
LEMMA FreshReal ==
    ASSUME TypeOK, RealInv, NEW info, Fresh(info) PROVE WasReal(info)
  BY CopiesType, LiveStatusReal DEF TypeOK, RealInv, Fresh

(* Only the streamer row RegisterInsertStreamer writes is new.                 *)
LEMMA BotCopies ==
    ASSUME TypeOK, BotNext, UNCHANGED <<daemonVars, batchVars>>, NEW info \in Copies'
    PROVE  info \in Copies \/ \E s \in Streamer : info = NewStreamerInfo(s)
<1> USE DEF TypeOK, daemonVars, batchVars, dbVars, SelectStreamerInfoAll
<1>1. CASE UNCHANGED streamer_info
  BY <1>1 DEF Copies
<1>2. ASSUME NEW n \in newStreamer, RegisterInsertStreamer(n)
      PROVE  info \in Copies \/ \E s \in Streamer : info = NewStreamerInfo(s)
  <2> DEFINE t == n.streaming_channel_id
  <2>1. t \in Streamer
    BY DEF BotTypeOK, Row
  <2>2. /\ DOMAIN streamer_info' = DOMAIN streamer_info \cup {t}
        /\ \A s \in DOMAIN streamer_info' :
              streamer_info'[s] = (IF s = t THEN NewStreamerInfo(s) ELSE streamer_info[s])
    BY <1>2 DEF RegisterInsertStreamer, InsertStreamerInfo
  <2> HIDE DEF t
  <2>3. QED
    BY <2>1, <2>2 DEF Copies
<1>3. UNCHANGED streamer_info \/ \E n \in newStreamer : RegisterInsertStreamer(n)
  BY DEF BotNext, BotStep, CommandNext, BotSelect, BotPost, BotMark, BotWait, BotSelectFails,
         BotReadFails, BotMarkFails, BotSignal, BotCrash, BotRestart, RegisterSelect, Release,
         RegisterStreamerFails, RegisterInsertNotice, RegisterNoticeFails
<1>4. QED
  BY <1>1, <1>2, <1>3

(* The platform only moves on: a broadcast ends, or a later one starts, and a  *)
(* new title leaves both alone.                                                *)
LEMMA ChannelReal ==
    ASSUME TypeOK, RealInv, ChannelNext, UNCHANGED <<dbVars, daemonVars, batchVars>>
    PROVE  RealInv'
<1>1. PICK s \in Streamer : GoLive(s) \/ GoOffline(s) \/ Retitle(s)
  BY DEF ChannelNext
<1>2. \A t \in Streamer : /\ channel[t].broadcast \in Nat
                          /\ channel'[t].broadcast \in Nat
                          /\ channel[t].streaming_status \in {"O", "C"}
  BY ChannelTypes, DbQueryAssumption DEF TypeOK, ChannelTypeOK, StreamerInfo, Broadcast
<1>3. \A t \in Streamer :
         \/ /\ channel'[t].broadcast = channel[t].broadcast
            /\ channel'[t].streaming_status = channel[t].streaming_status
         \/ /\ channel'[t].broadcast = channel[t].broadcast + 1
            /\ channel'[t].streaming_status = "O"
         \/ /\ channel'[t].broadcast = channel[t].broadcast
            /\ channel'[t].streaming_status = "C"
  BY <1>1 DEF GoLive, GoOffline, Retitle, TypeOK, ChannelTypeOK, StreamerInfo
<1>4. \A t \in Streamer : channel'[t].streaming_status = "O" => channel'[t].broadcast > 0
  BY <1>2, <1>3 DEF RealInv
<1>5. Copies' = Copies
  BY DEF Copies, SelectStreamerInfoAll, dbVars, daemonVars, batchVars
<1>6. ASSUME NEW info \in Copies PROVE WasReal(info)'
  <2>1. info \in StreamerInfo /\ WasReal(info)
    BY CopiesType DEF RealInv
  <2>2. info.broadcast \in Int /\ info.streaming_channel_id \in Streamer
    BY <2>1 DEF StreamerInfo, Broadcast
  <2>3. QED
    BY <1>2, <1>3, <2>1, <2>2 DEF WasReal
<1>7. QED
  BY <1>4, <1>5, <1>6 DEF RealInv

(* At the start every record is real.                                          *)
LEMMA InitReal == Init => RealInv
<1> SUFFICES ASSUME Init PROVE RealInv
  OBVIOUS
<1>1. \A s \in Streamer : channel[s].streaming_status = "C"
  BY DEF Init, ChannelInit
<1>2. \A s \in Streamer : WasReal(NewStreamerInfo(s))
  BY <1>1, InitTypes, NewStreamerReal DEF TypeOK
<1>3. ASSUME NEW info \in Copies PROVE \E s \in Streamer : info = NewStreamerInfo(s)
  <2>1. info \in SelectStreamerInfoAll
    BY DEF Copies, Init, DaemonInit, BatchInit
  <2>2. QED
    BY <2>1, SubscribedAssumption DEF Init, SelectStreamerInfoAll, Row
<1>4. QED
  BY <1>1, <1>2, <1>3 DEF RealInv

(* Every step keeps all records real.                                          *)
LEMMA NextReal == TypeOK /\ RealInv /\ [Next]_vars => RealInv'
<1> SUFFICES ASSUME TypeOK, RealInv, [Next]_vars PROVE RealInv'
  OBVIOUS
<1> USE DEF botVars, vars
<1>1. ASSUME UNCHANGED channel, \A info \in Copies' : WasReal(info) PROVE RealInv'
  BY <1>1 DEF RealInv, WasReal
<1>2. CASE DaemonNext /\ UNCHANGED <<channel, botVars, batchVars>>
  BY <1>1, <1>2, DaemonCopies, FreshReal
<1>3. CASE BotNext /\ UNCHANGED <<channel, daemonVars, batchVars>>
  BY <1>1, <1>3, BotCopies, NewStreamerReal DEF RealInv, TypeOK
<1>4. CASE BatchNext /\ UNCHANGED <<channel, daemonVars, botVars>>
  BY <1>1, <1>4, BatchCopies, FreshReal
<1>5. CASE ChannelNext /\ UNCHANGED <<dbVars, faults, daemonVars, botVars, batchVars>>
  BY <1>5, ChannelReal
<1>6. CASE UNCHANGED vars
  <2>1. Copies' = Copies
    BY <1>6 DEF Copies, SelectStreamerInfoAll, daemonVars, batchVars
  <2>2. QED
    BY <1>1, <1>6, <2>1 DEF RealInv
<1>7. QED
  BY <1>2, <1>3, <1>4, <1>5, <1>6 DEF Next

(* Late writes by the daemon and by any number of syncs never record a          *)
(* broadcast the platform has not started, nor close one that is on air.       *)
THEOREM StatusWasReal == Spec => []RecordedStatusWasReal
<1>1. TypeOK /\ RealInv => RecordedStatusWasReal
  <2> SUFFICES ASSUME TypeOK, RealInv, NEW s \in DOMAIN streamer_info
               PROVE  /\ streamer_info[s].broadcast <= channel[s].broadcast
                      /\ streamer_info[s].streaming_status = "C" =>
                            \/ channel[s].streaming_status = "C"
                            \/ channel[s].broadcast > streamer_info[s].broadcast
    BY DEF RecordedStatusWasReal
  <2>1. streamer_info[s] \in Copies /\ streamer_info[s].streaming_channel_id = s
    BY DEF Copies, SelectStreamerInfoAll, TypeOK, DbTypeOK
  <2>2. QED
    BY <2>1 DEF RealInv, WasReal
<1>2. QED
  BY <1>1, TypeCorrect, InitReal, NextReal, PTL DEF Spec

----------------------------------------------------------------------------
(* NoticeHasStreamer. It is inductive: no statement deletes a streamer.        *)

(* Every step keeps a streamer for each notice.                                *)
LEMMA NextHasStreamer == TypeOK /\ NoticeHasStreamer /\ [Next]_vars => NoticeHasStreamer'
<1> SUFFICES ASSUME TypeOK, NoticeHasStreamer, [Next]_vars PROVE NoticeHasStreamer'
  OBVIOUS
<1> USE DEF NoticeHasStreamer, vars, dbVars, botVars, sendVars, commandVars
<1> DEFINE Same == /\ DOMAIN streamer_info' = DOMAIN streamer_info
                   /\ DOMAIN notice_info' \subseteq DOMAIN notice_info
<1>1. CASE DaemonNext /\ UNCHANGED <<channel, botVars, batchVars>>
  <2>1. Same
    BY <1>1
    DEF DaemonNext, DaemonStep, DaemonSelect, DaemonPollSame, DaemonPollChanged, DaemonUpdate,
        DaemonUpdateFails, DaemonRearm, DaemonWait, DaemonSelectFails, DaemonPollFails,
        DaemonRearmFails, DaemonSignal, DaemonCrash, DaemonRestart,
        UpdateStreamerInfoLiveStatus, UpdateNoticeInfoNoticeState
  <2>2. QED
    BY <1>1, <2>1
<1>2. CASE BatchNext /\ UNCHANGED <<channel, daemonVars, botVars>>
  <2>1. Same
    BY <1>2
    DEF BatchNext, SyncSelect, SyncPoll, SyncPollFails, SyncUpdate, SyncUpdateFails, SyncCrash,
        UpdateStreamerInfoLiveStatus
  <2>2. QED
    BY <1>2, <2>1
<1>3. CASE BotNext /\ UNCHANGED <<channel, daemonVars, batchVars>>
  <2>1. CASE BotSelect
    BY <2>1 DEF BotSelect, BotContinue, SelectNoticeInfoForSend
  <2>2. CASE BotPost \/ BotReadFails \/ BotMarkFails
    BY <2>2 DEF BotPost, BotReadFails, BotMarkFails, BotContinue
  <2>3. CASE BotMark
    BY <2>3 DEF BotMark, BotContinue, UpdateNoticeInfoNoticeState
  <2>4. CASE BotSelectFails \/ BotWait \/ BotSignal \/ BotCrash \/ BotRestart
    BY <2>4 DEF BotSelectFails, BotWait, BotSignal, BotCrash, BotRestart, BotExit
  <2>5. ASSUME NEW s \in Streamer, NEW u \in User, RegisterSelect(s, u)
        PROVE  NoticeHasStreamer'
    BY <2>5 DEF RegisterSelect
  <2>6. ASSUME NEW s \in Streamer, NEW u \in User, Release(s, u)
        PROVE  NoticeHasStreamer'
    BY <2>6 DEF Release, DeleteNoticeInfoUnitByMentionId, Restrict
  <2>7. ASSUME NEW n \in newStreamer, RegisterInsertStreamer(n)
        PROVE  NoticeHasStreamer'
    BY <2>7 DEF RegisterInsertStreamer, InsertStreamerInfo
  <2>8. ASSUME NEW n \in newStreamer, RegisterStreamerFails(n)
        PROVE  NoticeHasStreamer'
    BY <2>8 DEF RegisterStreamerFails
  <2>9. ASSUME NEW n \in newNotice, RegisterInsertNotice(n) \/ RegisterNoticeFails(n)
        PROVE  NoticeHasStreamer'
    BY <2>9 DEF RegisterInsertNotice, RegisterNoticeFails, InsertNoticeInfo
  <2>10. QED
    BY <1>3, <2>1, <2>2, <2>3, <2>4, <2>5, <2>6, <2>7, <2>8, <2>9
    DEF BotNext, BotStep, CommandNext
<1>4. CASE ChannelNext /\ UNCHANGED <<dbVars, faults, daemonVars, botVars, batchVars>>
  BY <1>4
<1>5. CASE UNCHANGED vars
  BY <1>5
<1>6. QED
  BY <1>1, <1>2, <1>3, <1>4, <1>5 DEF Next

(* However register handlers interleave and fail, no notice is stored for a     *)
(* channel that has no row in streamer_info.                                   *)
THEOREM NoticesHaveStreamers == Spec => []NoticeHasStreamer
<1>1. Init => NoticeHasStreamer
  BY DEF Init, BotInit, NoticeHasStreamer
<1>2. QED
  BY <1>1, TypeCorrect, NextHasStreamer, PTL DEF Spec

----------------------------------------------------------------------------
(* AtMostOneLateNotice. What makes it hold is that a row is stored once, under *)
(* a serial number of its own: a notice that is gone never comes back.         *)

(* Its register command was not issued yet, or has not stored it yet.          *)
Unborn(n) == n.regist_no > issued \/ n \in newStreamer \cup newNotice

RowInv ==
    /\ newStreamer \cap newNotice = {}
    /\ \A n \in newStreamer \cup newNotice : n.regist_no <= issued
    /\ \A n \in Row : Unborn(n) =>
          /\ n \notin DOMAIN notice_info \cup bList
          /\ late[n] = 0
          /\ \A b \in Broadcast : posted[n][b] = 0
    /\ \A n \in Row : late[n] > 0 => n \notin DOMAIN notice_info \cup bList
    /\ AtMostOneLateNotice

(* A step that only takes things away.                                         *)
LEMMA ShrinkRowInv ==
    ASSUME RowInv, issued' = issued, UNCHANGED historyVars \/ UNCHANGED <<posted, late>>,
           newStreamer' \subseteq newStreamer, newNotice' \subseteq newNotice,
           DOMAIN notice_info' \subseteq DOMAIN notice_info,
           bList' \subseteq bList \cup DOMAIN notice_info'
    PROVE  RowInv'
  BY DEF RowInv, Unborn, AtMostOneLateNotice, historyVars

(* The bot's steps keep RowInv; only they touch what it is about, but for arming. *)
LEMMA BotRowInv ==
    ASSUME TypeOK, RowInv, BotNext PROVE RowInv'
<1> USE DEF dbVars, sendVars, commandVars, historyVars
<1>1. CASE BotSelect
  BY <1>1, ShrinkRowInv DEF BotSelect, BotContinue, SelectNoticeInfoForSend
<1>2. CASE BotPost
  <2>1. PICK n \in bList :
           /\ bList' = bList \ {n}
           /\ \/ /\ posted' = [posted EXCEPT
                      ![n][streamer_info[n.streaming_channel_id].broadcast] = @ + 1]
                 /\ late' = IF n \in DOMAIN notice_info
                            THEN late ELSE [late EXCEPT ![n] = @ + 1]
              \/ UNCHANGED <<posted, late>>
    BY <1>2 DEF BotPost
  <2>2. n \in Row /\ late[n] = 0 /\ ~Unborn(n)
    <3>1. n \in Row /\ late[n] \in Nat
      BY DEF TypeOK, BotTypeOK, HistoryTypeOK
    <3>2. QED
      BY <3>1 DEF RowInv
  <2>3. \A m \in Row : m # n => late'[m] = late[m] /\ posted'[m] = posted[m]
    BY <2>1, <2>2 DEF TypeOK, HistoryTypeOK
  <2>4. late'[n] = 0 \/ (late'[n] = 1 /\ n \notin DOMAIN notice_info)
    BY <2>1, <2>2 DEF TypeOK, HistoryTypeOK
  <2>5. UNCHANGED <<notice_info, issued, newStreamer, newNotice>>
    BY <1>2 DEF BotPost
  <2>6. QED
    BY <2>1, <2>2, <2>3, <2>4, <2>5 DEF RowInv, Unborn, AtMostOneLateNotice
<1>3. CASE BotReadFails \/ BotMarkFails
  BY <1>3, ShrinkRowInv DEF BotReadFails, BotMarkFails, BotContinue
<1>4. CASE BotMark
  BY <1>4, ShrinkRowInv DEF BotMark, BotContinue, UpdateNoticeInfoNoticeState
<1>5. CASE BotSelectFails \/ BotWait \/ BotSignal \/ BotCrash \/ BotRestart
  BY <1>5, ShrinkRowInv DEF BotSelectFails, BotWait, BotSignal, BotCrash, BotRestart, BotExit
<1>6. ASSUME NEW s \in Streamer, NEW u \in User, RegisterSelect(s, u) PROVE RowInv'
  <2> DEFINE n == [streaming_channel_id |-> s, mention_id |-> u, regist_no |-> issued + 1]
  <2>1. /\ issued' = issued + 1
        /\ \/ newNotice' = newNotice \cup {n} /\ newStreamer' = newStreamer
           \/ newStreamer' = newStreamer \cup {n} /\ newNotice' = newNotice
        /\ UNCHANGED <<notice_info, bList, late, posted>>
    BY <1>6 DEF RegisterSelect
  <2>2. issued \in Int /\ n.regist_no = issued + 1
    BY DEF TypeOK, BotTypeOK
  <2>3. \A m \in Row : Unborn(m)' => Unborn(m) \/ m = n
    BY <2>1, <2>2, DbQueryAssumption DEF Unborn, Row
  <2>4. n \in Row => Unborn(n)
    BY <2>2 DEF Unborn
  <2>5. n \notin newStreamer \cup newNotice
    BY <2>2 DEF RowInv
  <2>6. \A m \in newStreamer \cup newNotice : m \in Row /\ m.regist_no \in Int
    BY DEF TypeOK, BotTypeOK, Row
  <2> HIDE DEF n
  <2>7. newStreamer' \cap newNotice' = {}
    BY <2>1, <2>5 DEF RowInv
  <2>8. \A m \in newStreamer' \cup newNotice' : m.regist_no <= issued'
    BY <2>1, <2>2, <2>6 DEF RowInv
  <2>9. \A m \in Row : Unborn(m)' => Unborn(m)
    BY <2>3, <2>4
  <2>10. QED
    BY <2>1, <2>7, <2>8, <2>9 DEF RowInv, AtMostOneLateNotice
<1>7. ASSUME NEW s \in Streamer, NEW u \in User, Release(s, u) PROVE RowInv'
  BY <1>7, ShrinkRowInv DEF Release, DeleteNoticeInfoUnitByMentionId, Restrict
<1>8. ASSUME NEW n \in newStreamer, RegisterInsertStreamer(n) PROVE RowInv'
  BY <1>8 DEF RegisterInsertStreamer, RowInv, Unborn, AtMostOneLateNotice
<1>9. ASSUME NEW n \in newStreamer, RegisterStreamerFails(n) PROVE RowInv'
  BY <1>9, ShrinkRowInv DEF RegisterStreamerFails
<1>10. ASSUME NEW n \in newNotice, RegisterInsertNotice(n) PROVE RowInv'
  <2>1. n \in Row /\ late[n] = 0 /\ n \notin newStreamer /\ n.regist_no <= issued
    BY DEF RowInv, Unborn, TypeOK, BotTypeOK
  <2>2. n.regist_no \in Int /\ issued \in Int
    BY <2>1 DEF Row, TypeOK, BotTypeOK
  <2>3. /\ DOMAIN notice_info' = DOMAIN notice_info \cup {n}
        /\ newNotice' = newNotice \ {n}
        /\ UNCHANGED <<bList, issued, newStreamer, late, posted>>
    BY <1>10 DEF RegisterInsertNotice, InsertNoticeInfo
  <2>4. QED
    BY <2>1, <2>2, <2>3 DEF RowInv, Unborn, AtMostOneLateNotice
<1>11. ASSUME NEW n \in newNotice, RegisterNoticeFails(n) PROVE RowInv'
  BY <1>11, ShrinkRowInv DEF RegisterNoticeFails
<1>12. QED
  BY <1>1, <1>2, <1>3, <1>4, <1>5, <1>6, <1>7, <1>8, <1>9, <1>10, <1>11
  DEF BotNext, BotStep, CommandNext

(* Every step keeps RowInv.                                                    *)
LEMMA NextRowInv == TypeOK /\ RowInv /\ [Next]_vars => RowInv'
<1> SUFFICES ASSUME TypeOK, RowInv, [Next]_vars PROVE RowInv'
  OBVIOUS
<1> USE DEF vars, dbVars, botVars, sendVars, commandVars, historyVars
<1>1. CASE DaemonNext /\ UNCHANGED <<channel, botVars, batchVars>>
  <2>1. DOMAIN notice_info' = DOMAIN notice_info
    BY <1>1
    DEF DaemonNext, DaemonStep, DaemonSelect, DaemonPollSame, DaemonPollChanged, DaemonUpdate,
        DaemonUpdateFails, DaemonRearm, DaemonWait, DaemonSelectFails, DaemonPollFails,
        DaemonRearmFails, DaemonSignal, DaemonCrash, DaemonRestart, UpdateNoticeInfoNoticeState
  <2>2. QED
    BY <1>1, <2>1, ShrinkRowInv
<1>2. CASE BotNext /\ UNCHANGED <<channel, daemonVars, batchVars>>
  BY <1>2, BotRowInv
<1>3. CASE BatchNext /\ UNCHANGED <<channel, daemonVars, botVars>>
  <2>1. UNCHANGED notice_info
    BY <1>3
    DEF BatchNext, SyncSelect, SyncPoll, SyncPollFails, SyncUpdate, SyncUpdateFails, SyncCrash
  <2>2. QED
    BY <1>3, <2>1, ShrinkRowInv
<1>4. CASE ChannelNext /\ UNCHANGED <<dbVars, faults, daemonVars, botVars, batchVars>>
  BY <1>4, ShrinkRowInv
<1>5. CASE UNCHANGED vars
  BY <1>5, ShrinkRowInv
<1>6. QED
  BY <1>1, <1>2, <1>3, <1>4, <1>5 DEF Next

(* RowInv holds at the start.                                                  *)
LEMMA InitRowInv == Init => RowInv
<1> SUFFICES ASSUME Init PROVE RowInv
  OBVIOUS
<1>1. \A n \in Subscribed : ~(n.regist_no > issued)
  BY SubscribedAssumption DEF Init, BotInit
<1>2. QED
  BY <1>1 DEF Init, BotInit, RowInv, Unborn, AtMostOneLateNotice

(* After a release the user hears of the channel once more at the most,         *)
(* whatever the sender still had in its list.                                  *)
THEOREM OneLateNotice == Spec => []AtMostOneLateNotice
<1>1. RowInv => AtMostOneLateNotice
  BY DEF RowInv
<1>2. QED
  BY <1>1, TypeCorrect, InitRowInv, NextRowInv, PTL DEF Spec

=============================================================================
