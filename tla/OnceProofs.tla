------------------------------- MODULE OnceProofs -------------------------------
(* Without a sync, the daemon alone writes statuses. Then nobody is told of a  *)
(* broadcast twice, and notices are armed only while their channel is closed.  *)
EXTENDS NoticeProofs

Recorded(n) == streamer_info[n.streaming_channel_id]

(* Not told of the recorded broadcast, or told without the table knowing.      *)
Unsent(n) == posted[n][Recorded(n).broadcast] <= lostMarks[n]

(* What the daemon holds is what the table has, or is about to move it on.     *)
DaemonInv ==
    /\ \A info \in dList :
          /\ info.streaming_channel_id \in DOMAIN streamer_info
          /\ info = streamer_info[info.streaming_channel_id]
    /\ dPc \in {"update", "rearm"} => dCur.streaming_channel_id \in DOMAIN streamer_info
    /\ dPc \in {"update", "rearm"} =>
          \A info \in dList : info.streaming_channel_id # dCur.streaming_channel_id
    /\ dPc = "update" =>
          LET old == streamer_info[dCur.streaming_channel_id] IN
          /\ old.broadcast <= dCur.broadcast
          /\ old.streaming_status = "C" /\ dCur.streaming_status = "O"
                => old.broadcast < dCur.broadcast
    /\ dPc = "rearm" => streamer_info[dCur.streaming_channel_id].streaming_status = "C"

(* No message tells of a broadcast the table has not reached; what the sender  *)
(* is going to send, now or after its next SELECT, was not sent yet.           *)
HistInv ==
    /\ \A n \in Row, b \in Broadcast :
          (n.streaming_channel_id \in DOMAIN streamer_info => b > Recorded(n).broadcast)
             => posted[n][b] = 0
    /\ AtMostOncePerBroadcast
    /\ \A n \in bList : Unsent(n)
    /\ \A n \in DOMAIN notice_info :
          notice_info[n] = "WAIT" /\ Recorded(n).streaming_status = "O"
             => Unsent(n) \/ (bPc = "mark" /\ bCur = n)

----------------------------------------------------------------------------
(* The daemon *)

(* What a step may do to the statuses: a row moves on to a later broadcast or  *)
(* ends the one it has; only a later one makes it open again.                  *)
Onward ==
    /\ DOMAIN streamer_info \subseteq DOMAIN streamer_info'
    /\ \A s \in DOMAIN streamer_info :
          /\ streamer_info[s].broadcast <= streamer_info'[s].broadcast
          /\ streamer_info[s].streaming_status = "C" /\ streamer_info'[s].streaming_status = "O"
                => streamer_info[s].broadcast < streamer_info'[s].broadcast

(* Recorded rows are rows, and their open times can be compared.               *)
LEMMA OpenTimes ==
    ASSUME TypeOK
    PROVE  \A s \in DOMAIN streamer_info :
              streamer_info[s] \in StreamerInfo /\ streamer_info[s].broadcast \in Int
  BY DEF TypeOK, DbTypeOK, StreamerInfo, Broadcast

(* A step that leaves the streamers alone moves no row back.                   *)
LEMMA SameOnward ==
    ASSUME TypeOK, UNCHANGED streamer_info PROVE Onward
  BY OpenTimes DEF Onward

(* The daemon's step moves no row back to an earlier broadcast.                *)
LEMMA DaemonOnward ==
    ASSUME TypeOK, DaemonInv, DaemonNext PROVE Onward
<1> USE DEF dbVars
<1>1. CASE UNCHANGED streamer_info
  BY <1>1, SameOnward
<1>2. CASE DaemonUpdate
  <2> DEFINE s == dCur.streaming_channel_id
  <2>1. streamer_info' = [streamer_info EXCEPT ![s] = dCur] /\ dPc = "update"
    BY <1>2 DEF DaemonUpdate, UpdateStreamerInfoLiveStatus
  <2>2. s \in DOMAIN streamer_info
        /\ streamer_info[s].broadcast <= dCur.broadcast
        /\ (streamer_info[s].streaming_status = "C" /\ dCur.streaming_status = "O"
              => streamer_info[s].broadcast < dCur.broadcast)
    BY <2>1 DEF DaemonInv
  <2> HIDE DEF s
  <2>3. QED
    BY <2>1, <2>2, OpenTimes DEF Onward
<1>3. UNCHANGED streamer_info \/ DaemonUpdate
  BY DEF DaemonNext, DaemonStep, DaemonSelect, DaemonPollSame, DaemonPollChanged,
         DaemonUpdateFails, DaemonRearm, DaemonWait, DaemonSelectFails, DaemonPollFails,
         DaemonRearmFails, DaemonSignal, DaemonCrash, DaemonRestart
<1>4. QED
  BY <1>1, <1>2, <1>3

(* Laid over the row the table has, the platform's answer moves that row on.   *)
LEMMA AnswerOnward ==
    ASSUME TypeOK, RecordedStatusWasReal, NEW s \in DOMAIN streamer_info, NEW fields
    PROVE  LET cur == LiveStatus(streamer_info[s], fields) IN
           /\ streamer_info[s].broadcast <= cur.broadcast
           /\ streamer_info[s].streaming_status = "C" /\ cur.streaming_status = "O"
                 => streamer_info[s].broadcast < cur.broadcast
<1> DEFINE org == streamer_info[s]
           cur == LiveStatus(org, fields)
<1>1. org \in StreamerInfo /\ org.broadcast \in Int /\ org.streaming_channel_id = s
  BY OpenTimes DEF TypeOK, DbTypeOK
<1>2. /\ org.broadcast <= channel[s].broadcast
      /\ org.streaming_status = "C" =>
            channel[s].streaming_status = "C" \/ channel[s].broadcast > org.broadcast
  BY DEF RecordedStatusWasReal
<1>3. \/ cur.broadcast = org.broadcast /\ cur.streaming_status = org.streaming_status
      \/ cur.broadcast = channel[s].broadcast
         /\ cur.streaming_status = channel[s].streaming_status
  BY <1>1 DEF LiveStatus, StreamerInfo
<1> HIDE DEF org, cur
<1>4. /\ org.broadcast <= cur.broadcast
      /\ org.streaming_status = "C" /\ cur.streaming_status = "O" => org.broadcast < cur.broadcast
  <2>1. channel[s].broadcast \in Int
    BY DEF TypeOK, DbTypeOK, ChannelTypeOK, StreamerInfo, Broadcast
  <2>2. QED
    BY <1>1, <1>2, <1>3, <2>1
<1>5. QED
  BY <1>4 DEF org, cur

(* The daemon's step keeps its copies in agreement with the table.             *)
LEMMA DaemonKeepsDaemonInv ==
    ASSUME TypeOK, RecordedStatusWasReal, DaemonInv, DaemonNext PROVE DaemonInv'
<1> USE DEF DaemonInv, dbVars
<1>1. CASE DaemonSelect
  BY <1>1 DEF DaemonSelect, DaemonContinue, SelectStreamerInfoAll, TypeOK, DbTypeOK
<1>2. CASE DaemonPollSame \/ DaemonPollFails
  BY <1>2 DEF DaemonPollSame, DaemonPollFails, DaemonContinue
<1>3. CASE DaemonPollChanged
  <2>1. PICK org \in dList, fields \in AnswerFields :
           dCur' = LiveStatus(org, fields) /\ dList' = dList \ {org}
    BY <1>3 DEF DaemonPollChanged
  <2> DEFINE s == org.streaming_channel_id
  <2>2. s \in DOMAIN streamer_info /\ org = streamer_info[s] /\ org \in StreamerInfo
    BY DEF TypeOK, DaemonTypeOK
  <2>3. dCur'.streaming_channel_id = s
    BY <2>1, <2>2, LiveStatusType DEF TypeOK
  <2>4. \A info \in dList' : info.streaming_channel_id # s
    BY <2>1, <2>2
  <2>5. /\ streamer_info[s].broadcast <= dCur'.broadcast
        /\ streamer_info[s].streaming_status = "C" /\ dCur'.streaming_status = "O"
              => streamer_info[s].broadcast < dCur'.broadcast
    BY <2>1, <2>2, AnswerOnward
  <2>6. dPc' = "update" /\ UNCHANGED streamer_info
    BY <1>3 DEF DaemonPollChanged
  <2> HIDE DEF s
  <2>7. QED
    BY <2>1, <2>2, <2>3, <2>4, <2>5, <2>6
<1>4. CASE DaemonUpdate
  <2>1. dPc = "update" /\ streamer_info' = [streamer_info EXCEPT ![dCur.streaming_channel_id] = dCur]
    BY <1>4 DEF DaemonUpdate, UpdateStreamerInfoLiveStatus
  <2>2. \/ /\ dPc' = "rearm" /\ dList' = dList /\ dCur' = dCur
           /\ dCur.streaming_status = "C"
        \/ dList' = dList /\ dPc' \notin {"update", "rearm"}
    BY <1>4 DEF DaemonUpdate, DaemonContinue
  <2>3. QED
    BY <2>1, <2>2
<1>5. CASE DaemonUpdateFails \/ DaemonRearm \/ DaemonRearmFails
  BY <1>5 DEF DaemonUpdateFails, DaemonRearm, DaemonRearmFails, DaemonContinue
<1>6. CASE DaemonSelectFails \/ DaemonCrash
  BY <1>6 DEF DaemonSelectFails, DaemonCrash, DaemonExit
<1>7. CASE DaemonWait \/ DaemonSignal \/ DaemonRestart
  BY <1>7 DEF DaemonWait, DaemonSignal, DaemonRestart
<1>8. QED
  BY <1>1, <1>2, <1>3, <1>4, <1>5, <1>6, <1>7 DEF DaemonNext, DaemonStep

(* The bot only adds rows, which the daemon has no copy of.                    *)
LEMMA BotStatuses ==
    ASSUME TypeOK, BotNext
    PROVE  /\ DOMAIN streamer_info \subseteq DOMAIN streamer_info'
           /\ \A s \in DOMAIN streamer_info : streamer_info'[s] = streamer_info[s]
<1> USE DEF dbVars
<1>1. ASSUME NEW n \in newStreamer, RegisterInsertStreamer(n)
      PROVE  /\ DOMAIN streamer_info \subseteq DOMAIN streamer_info'
             /\ \A s \in DOMAIN streamer_info : streamer_info'[s] = streamer_info[s]
  BY <1>1 DEF RegisterInsertStreamer, InsertStreamerInfo
<1>2. UNCHANGED streamer_info \/ \E n \in newStreamer : RegisterInsertStreamer(n)
  BY DEF BotNext, BotStep, CommandNext, BotSelect, BotPost, BotMark, BotWait, BotSelectFails,
         BotReadFails, BotMarkFails, BotSignal, BotCrash, BotRestart, RegisterSelect, Release,
         RegisterStreamerFails, RegisterInsertNotice, RegisterNoticeFails
<1>3. QED
  BY <1>1, <1>2

(* So does the bot's, which only inserts streamers.                            *)
LEMMA BotKeepsDaemonInv ==
    ASSUME TypeOK, DaemonInv, BotNext, UNCHANGED daemonVars PROVE DaemonInv'
  BY BotStatuses DEF DaemonInv, daemonVars

----------------------------------------------------------------------------
(* Messages *)

(* Counts of messages and of lost marks are naturals.                          *)
LEMMA Counts ==
    ASSUME TypeOK
    PROVE  \A n \in Row : /\ lostMarks[n] \in Nat
                          /\ \A b \in Broadcast : posted[n][b] \in Nat
  BY DEF TypeOK, HistoryTypeOK

(* While the sender sends and marks nothing, statuses may move on and notices be armed    *)
(* where the table says closed.                                                *)
LEMMA OnwardKeepsHistInv ==
    ASSUME TypeOK, TypeOK', NoticeHasStreamer, NoticeHasStreamer', HistInv, Onward,
           bPc = "mark" => bPc' = "mark" /\ bCur' = bCur,
           UNCHANGED <<posted, lostMarks>>,
           bList' \subseteq bList,
           \A n \in DOMAIN notice_info' :
              /\ n \in DOMAIN notice_info
              /\ notice_info'[n] = "WAIT"
                    => notice_info[n] = "WAIT" \/ Recorded(n)'.streaming_status = "C"
    PROVE  HistInv'
<1>1. \A n \in Row, b \in Broadcast :
         (n.streaming_channel_id \in DOMAIN streamer_info' => b > Recorded(n)'.broadcast)
            => posted[n][b] = 0
  <2> SUFFICES ASSUME NEW n \in Row, NEW b \in Broadcast,
                      n.streaming_channel_id \in DOMAIN streamer_info'
                         => b > Recorded(n)'.broadcast
               PROVE  posted[n][b] = 0
    OBVIOUS
  <2>1. CASE n.streaming_channel_id \notin DOMAIN streamer_info
    BY <2>1 DEF HistInv
  <2>2. CASE n.streaming_channel_id \in DOMAIN streamer_info
    <3>1. /\ Recorded(n).broadcast <= Recorded(n)'.broadcast
          /\ Recorded(n).broadcast \in Int /\ Recorded(n)'.broadcast \in Int /\ b \in Int
          /\ b > Recorded(n)'.broadcast
      BY <2>2 DEF Onward, Recorded, TypeOK, DbTypeOK, StreamerInfo, Broadcast
    <3>2. b > Recorded(n).broadcast
      BY <3>1
    <3>3. QED
      BY <3>2 DEF HistInv
  <2>3. QED
    BY <2>1, <2>2
<1>2. AtMostOncePerBroadcast'
  BY DEF HistInv, AtMostOncePerBroadcast
<1>3. ASSUME NEW n \in Row, n.streaming_channel_id \in DOMAIN streamer_info,
             \/ Unsent(n)
             \/ Recorded(n).broadcast < Recorded(n)'.broadcast
      PROVE  Unsent(n)'
  <2>1. /\ Recorded(n).broadcast <= Recorded(n)'.broadcast
        /\ n.streaming_channel_id \in DOMAIN streamer_info'
        /\ Recorded(n).broadcast \in Broadcast /\ Recorded(n)'.broadcast \in Broadcast
    BY <1>3 DEF Onward, Recorded, TypeOK, DbTypeOK, StreamerInfo
  <2>2. CASE Recorded(n).broadcast < Recorded(n)'.broadcast
    <3>1. posted[n][Recorded(n)'.broadcast] = 0
      BY <2>1, <2>2 DEF HistInv, Broadcast
    <3>2. QED
      BY <3>1, Counts DEF Unsent
  <2>3. CASE Recorded(n).broadcast = Recorded(n)'.broadcast
    <3>1. Unsent(n)
      BY <1>3, <2>1, <2>3 DEF Broadcast
    <3>2. QED
      BY <3>1, <2>3 DEF Unsent
  <2>4. QED
    BY <2>1, <2>2, <2>3 DEF Broadcast
<1>4. \A n \in bList' : Unsent(n)'
  BY <1>3 DEF HistInv, NoticeHasStreamer, TypeOK, BotTypeOK
<1>5. ASSUME NEW n \in DOMAIN notice_info', notice_info'[n] = "WAIT",
             Recorded(n)'.streaming_status = "O"
      PROVE  Unsent(n)' \/ (bPc' = "mark" /\ bCur' = n)
  <2>1. /\ n \in Row /\ n \in DOMAIN notice_info /\ notice_info[n] = "WAIT"
        /\ n.streaming_channel_id \in DOMAIN streamer_info
    BY <1>5 DEF TypeOK, DbTypeOK, NoticeHasStreamer
  <2>2. CASE Recorded(n).streaming_status = "O"
    BY <1>3, <2>1, <2>2 DEF HistInv
  <2>3. CASE Recorded(n).streaming_status = "C"
    BY <1>3, <1>5, <2>1, <2>3 DEF Onward, Recorded
  <2>4. QED
    BY <2>1, <2>2, <2>3 DEF Recorded, TypeOK, DbTypeOK, StreamerInfo
<1>6. QED
  BY <1>1, <1>2, <1>4, <1>5 DEF HistInv

(* The daemon's step keeps HistInv: it arms only what is recorded closed.      *)
LEMMA DaemonKeepsHistInv ==
    ASSUME TypeOK, TypeOK', NoticeHasStreamer, NoticeHasStreamer', DaemonInv, HistInv,
           DaemonNext, UNCHANGED botVars
    PROVE  HistInv'
<1> USE DEF dbVars, botVars, sendVars, historyVars
<1>1. \A n \in DOMAIN notice_info' :
         /\ n \in DOMAIN notice_info
         /\ notice_info'[n] = "WAIT"
               => notice_info[n] = "WAIT" \/ Recorded(n)'.streaming_status = "C"
  <2>1. CASE DaemonRearm
    <3>1. /\ notice_info' = [n \in DOMAIN notice_info |->
                               IF n.streaming_channel_id = dCur.streaming_channel_id
                               THEN "WAIT" ELSE notice_info[n]]
          /\ UNCHANGED streamer_info
          /\ streamer_info[dCur.streaming_channel_id].streaming_status = "C"
      BY <2>1 DEF DaemonRearm, UpdateNoticeInfoNoticeState, DaemonInv
    <3>2. QED
      BY <3>1 DEF Recorded
  <2>2. CASE UNCHANGED notice_info
    BY <2>2
  <2>3. DaemonRearm \/ UNCHANGED notice_info
    BY DEF DaemonNext, DaemonStep, DaemonSelect, DaemonPollSame, DaemonPollChanged, DaemonUpdate,
           DaemonUpdateFails, DaemonWait, DaemonSelectFails, DaemonPollFails,
           DaemonRearmFails, DaemonSignal, DaemonCrash, DaemonRestart
  <2>4. QED
    BY <2>1, <2>2, <2>3
<1>2. QED
  BY <1>1, DaemonOnward, OnwardKeepsHistInv

(* The bot's step keeps HistInv: what it posts was due, and is due no more.    *)
LEMMA BotKeepsHistInv ==
    ASSUME TypeOK, TypeOK', NoticeHasStreamer, NoticeHasStreamer', RowInv, HistInv, BotNext
    PROVE  HistInv'
<1> USE DEF dbVars, sendVars, commandVars, historyVars
<1>1. Onward
  BY BotStatuses, OpenTimes DEF Onward
<1>2. CASE BotSelect
  <2>1. /\ UNCHANGED <<streamer_info, notice_info, posted, lostMarks>>
        /\ bList' = SelectNoticeInfoForSend /\ bPc = "select" /\ bPc' # "mark"
    BY <1>2 DEF BotSelect, BotContinue
  <2>2. \A n \in bList' : Unsent(n)
    BY <2>1 DEF HistInv, SelectNoticeInfoForSend, Recorded
  <2>3. QED
    BY <2>1, <2>2 DEF HistInv, Unsent, Recorded, AtMostOncePerBroadcast
<1>3. CASE BotPost
  <2>1. PICK n \in bList :
           /\ bList' = bList \ {n}
           /\ bCur' = n
           /\ \/ posted' = [posted EXCEPT ![n][Recorded(n).broadcast] = @ + 1]
              \/ UNCHANGED posted
    BY <1>3 DEF BotPost, Recorded
  <2>2. n \in Row /\ Unsent(n) /\ n.streaming_channel_id \in DOMAIN streamer_info
    BY DEF HistInv, TypeOK, BotTypeOK, NoticeHasStreamer
  <2> DEFINE o == Recorded(n).broadcast
  <2>3. o \in Broadcast
    BY <2>2 DEF Recorded, TypeOK, DbTypeOK, StreamerInfo
  <2>4. UNCHANGED <<streamer_info, notice_info, lostMarks>> /\ bPc' = "mark"
        /\ bPc # "mark"
    BY <1>3 DEF BotPost
  <2>5. \A m \in Row, b \in Broadcast :
           posted'[m][b] = posted[m][b]
           \/ (m = n /\ b = o /\ posted'[m][b] = posted[m][b] + 1)
    BY <2>1, <2>2, <2>3 DEF TypeOK, HistoryTypeOK
  <2>6. \A m \in Row, b \in Broadcast :
           (m.streaming_channel_id \in DOMAIN streamer_info' => b > Recorded(m)'.broadcast)
              => posted'[m][b] = 0
    <3>1. ~(o > o)
      BY <2>3 DEF Broadcast
    <3> HIDE DEF o
    <3>2. QED
      BY <2>2, <2>4, <2>5, <3>1 DEF HistInv, Recorded, o
  <2>7. AtMostOncePerBroadcast'
    <3> SUFFICES ASSUME NEW m \in Row, NEW b \in Broadcast
                 PROVE  posted'[m][b] <= 1 + lostMarks[m]
      BY <2>4 DEF AtMostOncePerBroadcast
    <3>1. posted[m][b] <= 1 + lostMarks[m]
      BY DEF HistInv, AtMostOncePerBroadcast
    <3>2. CASE posted'[m][b] = posted[m][b]
      BY <3>1, <3>2
    <3>3. CASE m = n /\ b = o /\ posted'[m][b] = posted[m][b] + 1
      <4>1. posted[m][b] <= lostMarks[m]
        BY <2>2, <3>3 DEF Unsent
      <4>2. QED
        BY <3>3, <4>1, Counts
    <3>4. QED
      BY <2>5, <3>2, <3>3
  <2>8. ASSUME NEW m \in Row, m # n, m.streaming_channel_id \in DOMAIN streamer_info, Unsent(m)
        PROVE  Unsent(m)'
    <3>1. Recorded(m).broadcast \in Broadcast
      BY <2>8 DEF Recorded, TypeOK, DbTypeOK, StreamerInfo
    <3>2. posted'[m][Recorded(m).broadcast] = posted[m][Recorded(m).broadcast]
      BY <2>5, <2>8, <3>1
    <3>3. QED
      BY <2>4, <2>8, <3>2 DEF Unsent, Recorded
  <2>9. \A m \in bList' : Unsent(m)'
    BY <2>1, <2>8 DEF HistInv, TypeOK, BotTypeOK, NoticeHasStreamer
  <2>10. \A m \in DOMAIN notice_info' :
            notice_info'[m] = "WAIT" /\ Recorded(m)'.streaming_status = "O"
               => Unsent(m)' \/ (bPc' = "mark" /\ bCur' = m)
    BY <2>1, <2>4, <2>8 DEF HistInv, Recorded, TypeOK, DbTypeOK, NoticeHasStreamer
  <2>11. QED
    BY <2>6, <2>7, <2>9, <2>10 DEF HistInv
<1>4. CASE BotMark
  <2>1. /\ UNCHANGED <<streamer_info, posted, lostMarks, bList>>
        /\ notice_info' = [m \in DOMAIN notice_info |->
                             IF m.streaming_channel_id = bCur.streaming_channel_id
                             THEN "SEND" ELSE notice_info[m]]
    BY <1>4 DEF BotMark, BotContinue, UpdateNoticeInfoNoticeState
  <2>2. \A m \in DOMAIN notice_info' :
           notice_info'[m] = "WAIT" => notice_info[m] = "WAIT" /\ m # bCur
    BY <2>1
  <2>3. DOMAIN notice_info' = DOMAIN notice_info
    BY <2>1
  <2>4. \A m \in DOMAIN notice_info' :
           notice_info'[m] = "WAIT" /\ Recorded(m)'.streaming_status = "O" => Unsent(m)'
    BY <2>1, <2>2, <2>3 DEF HistInv, Recorded, Unsent
  <2>5. QED
    BY <2>1, <2>4 DEF HistInv, Unsent, Recorded, AtMostOncePerBroadcast
<1>5. CASE BotMarkFails \/ (BotCrash /\ bPc = "mark")
  <2>1. /\ UNCHANGED <<streamer_info, notice_info, posted>>
        /\ lostMarks' = [lostMarks EXCEPT ![bCur] = @ + 1]
        /\ bList' \subseteq bList /\ bPc' # "mark" /\ bPc = "mark"
    BY <1>5 DEF BotMarkFails, BotCrash, BotContinue, BotExit
  <2>2. bCur \in Row
    BY <2>1 DEF TypeOK, BotTypeOK
  <2>3. \A m \in Row : lostMarks[m] \in Nat /\ lostMarks'[m] \in Nat /\ lostMarks[m] <= lostMarks'[m]
    BY <2>1, <2>2 DEF TypeOK, HistoryTypeOK
  <2>4. lostMarks'[bCur] = lostMarks[bCur] + 1
    BY <2>1, <2>2 DEF TypeOK, HistoryTypeOK
  <2>5. AtMostOncePerBroadcast'
    BY <2>1, <2>3, Counts DEF HistInv, AtMostOncePerBroadcast
  <2>6. ASSUME NEW m \in Row, m.streaming_channel_id \in DOMAIN streamer_info,
               Unsent(m) \/ m = bCur
        PROVE  Unsent(m)'
    <3>1. Recorded(m).broadcast \in Broadcast
      BY <2>6 DEF Recorded, TypeOK, DbTypeOK, StreamerInfo
    <3> DEFINE c == posted[m][Recorded(m).broadcast]
    <3>2. c \in Nat /\ c <= 1 + lostMarks[m]
      BY <3>1, Counts DEF HistInv, AtMostOncePerBroadcast
    <3>3. c <= lostMarks[m] \/ m = bCur
      BY <2>6 DEF Unsent
    <3> HIDE DEF c
    <3>4. c <= lostMarks'[m]
      BY <2>3, <2>4, <3>2, <3>3
    <3>5. QED
      BY <2>1, <3>4 DEF Unsent, Recorded, c
  <2>7. \A m \in bList' : Unsent(m)'
    BY <2>1, <2>6 DEF HistInv, TypeOK, BotTypeOK, NoticeHasStreamer
  <2>8. \A m \in DOMAIN notice_info' :
           notice_info'[m] = "WAIT" /\ Recorded(m)'.streaming_status = "O" => Unsent(m)'
    BY <2>1, <2>6 DEF HistInv, Recorded, TypeOK, DbTypeOK, NoticeHasStreamer
  <2>9. QED
    BY <2>1, <2>5, <2>7, <2>8 DEF HistInv, Recorded
<1>6. ASSUME NEW n \in newNotice, RegisterInsertNotice(n) PROVE HistInv'
  <2>1. n \in Row /\ \A b \in Broadcast : posted[n][b] = 0
    BY DEF RowInv, Unborn, TypeOK, BotTypeOK
  <2>2. /\ UNCHANGED <<streamer_info, posted, lostMarks, bList, bPc, bCur>>
        /\ notice_info' = [m \in DOMAIN notice_info \cup {n} |->
                             IF m = n THEN "WAIT" ELSE notice_info[m]]
    BY <1>6 DEF RegisterInsertNotice, InsertNoticeInfo
  <2>3. Recorded(n).broadcast \in Broadcast
    BY DEF NoticeHasStreamer, Recorded, TypeOK, DbTypeOK, StreamerInfo
  <2>4. Unsent(n)
    BY <2>1, <2>3, Counts DEF Unsent
  <2>5. QED
    BY <2>2, <2>4 DEF HistInv, Unsent, Recorded, AtMostOncePerBroadcast
<1>7. ASSUME NEW n \in newStreamer, RegisterInsertStreamer(n) PROVE HistInv'
  BY <1>1, <1>7, OnwardKeepsHistInv DEF RegisterInsertStreamer
<1>8. CASE BotReadFails
  BY <1>1, <1>8, OnwardKeepsHistInv DEF BotReadFails, BotContinue
<1>9. CASE BotSelectFails \/ BotWait \/ BotSignal \/ BotRestart \/ (BotCrash /\ bPc # "mark")
  BY <1>1, <1>9, OnwardKeepsHistInv
  DEF BotSelectFails, BotWait, BotSignal, BotRestart, BotCrash, BotExit
<1>10. ASSUME NEW s \in Streamer, NEW u \in User, RegisterSelect(s, u) PROVE HistInv'
  BY <1>1, <1>10, OnwardKeepsHistInv DEF RegisterSelect
<1>11. ASSUME NEW s \in Streamer, NEW u \in User, Release(s, u) PROVE HistInv'
  BY <1>1, <1>11, OnwardKeepsHistInv DEF Release, DeleteNoticeInfoUnitByMentionId, Restrict
<1>12. ASSUME NEW n \in newStreamer, RegisterStreamerFails(n) PROVE HistInv'
  BY <1>1, <1>12, OnwardKeepsHistInv DEF RegisterStreamerFails
<1>13. ASSUME NEW n \in newNotice, RegisterNoticeFails(n) PROVE HistInv'
  BY <1>1, <1>13, OnwardKeepsHistInv DEF RegisterNoticeFails
<1>14. QED
  BY <1>2, <1>3, <1>4, <1>5, <1>6, <1>7, <1>8, <1>9, <1>10, <1>11, <1>12, <1>13
  DEF BotNext, BotStep, CommandNext

----------------------------------------------------------------------------
(* The theorems *)

(* Nothing is selected and nobody was told of anything at the start.           *)
LEMMA InitOnce == Init => DaemonInv /\ HistInv
<1> SUFFICES ASSUME Init PROVE DaemonInv /\ HistInv
  OBVIOUS
<1>1. DaemonInv
  BY DEF Init, DaemonInit, DaemonInv
<1>2. \A n \in Row, b \in Broadcast : posted[n][b] = 0 /\ lostMarks[n] = 0
  BY DEF Init, BotInit
<1>3. \A n \in DOMAIN notice_info :
         n.streaming_channel_id \in DOMAIN streamer_info
         /\ Recorded(n).streaming_status = "C"
  BY DEF Init, Recorded, NewStreamerInfo
<1>4. HistInv
  BY <1>2, <1>3 DEF Init, BotInit, HistInv, AtMostOncePerBroadcast
<1>5. QED
  BY <1>1, <1>4

(* With no sync, every step keeps the invariant.                               *)
LEMMA NextOnce ==
    ASSUME Sync = {}, TypeOK, TypeOK', NoticeHasStreamer, NoticeHasStreamer',
           RecordedStatusWasReal, RowInv, DaemonInv, HistInv, [Next]_vars
    PROVE  DaemonInv' /\ HistInv'
<1> USE DEF vars, dbVars, daemonVars, botVars, sendVars, commandVars, historyVars
<1>1. CASE DaemonNext /\ UNCHANGED <<channel, botVars, batchVars>>
  BY <1>1, DaemonKeepsDaemonInv, DaemonKeepsHistInv
<1>2. CASE BotNext /\ UNCHANGED <<channel, daemonVars, batchVars>>
  BY <1>2, BotKeepsDaemonInv, BotKeepsHistInv
<1>3. CASE BatchNext /\ UNCHANGED <<channel, daemonVars, botVars>>
  BY <1>3 DEF BatchNext
<1>4. CASE UNCHANGED <<dbVars, daemonVars, botVars>>
  BY <1>4, SameOnward, OnwardKeepsHistInv DEF DaemonInv
<1>5. QED
  BY <1>1, <1>2, <1>3, <1>4 DEF Next

(* With no sync, the invariant holds of every behaviour.                       *)
LEMMA OnceInvariant ==
    ASSUME Sync = {}
    PROVE  Spec => [](TypeOK /\ NoticeHasStreamer /\ RecordedStatusWasReal /\ RowInv
                      /\ DaemonInv /\ HistInv)
<1>1. TypeOK /\ TypeOK' /\ NoticeHasStreamer /\ NoticeHasStreamer' /\ RecordedStatusWasReal
      /\ RowInv /\ DaemonInv /\ HistInv /\ [Next]_vars => DaemonInv' /\ HistInv'
  BY NextOnce
<1>2. QED
  BY <1>1, TypeCorrect, NoticesHaveStreamers, StatusWasReal, InitRowInv, NextRowInv,
     InitOnce, PTL DEF Spec

(* With no sync running, sendStreamingNotice tells nobody of a broadcast twice, *)
(* but for messages whose UPDATE to SEND failed or was cut off by a crash.     *)
THEOREM OncePerBroadcast == ASSUME Sync = {} PROVE Spec => []AtMostOncePerBroadcast
<1>1. HistInv => AtMostOncePerBroadcast
  BY DEF HistInv
<1>2. QED
  BY <1>1, OnceInvariant, PTL

(* With no sync running, pollLiveStatus arms a notice only while streamer_info  *)
(* says that the channel is closed.                                            *)
THEOREM ArmsWhenClosed == ASSUME Sync = {} PROVE Spec => ArmedOnlyWhenClosed
<1> DEFINE A == \A n \in DOMAIN notice_info \cap DOMAIN notice_info' :
                   notice_info[n] = "SEND" /\ notice_info'[n] = "WAIT"
                      => Recorded(n).streaming_status = "C"
<1>1. ASSUME TypeOK, RowInv, DaemonInv, [Next]_vars PROVE [A]_vars
  <2> SUFFICES ASSUME NEW n \in DOMAIN notice_info \cap DOMAIN notice_info',
                      notice_info[n] = "SEND", notice_info'[n] = "WAIT"
               PROVE  Recorded(n).streaming_status = "C"
    OBVIOUS
  <2>1. CASE DaemonRearm
    BY <1>1, <2>1 DEF DaemonRearm, UpdateNoticeInfoNoticeState, DaemonInv, Recorded
  <2>2. ASSUME NEW m \in newNotice, RegisterInsertNotice(m)
        PROVE  Recorded(n).streaming_status = "C"
    <3>1. m \notin DOMAIN notice_info
      BY <1>1, <2>2 DEF RowInv, Unborn, TypeOK, BotTypeOK
    <3>2. QED
      BY <2>2, <3>1 DEF RegisterInsertNotice, InsertNoticeInfo
  <2>3. CASE BotMark
    BY <2>3 DEF BotMark, UpdateNoticeInfoNoticeState
  <2>4. ASSUME NEW s \in Streamer, NEW u \in User, Release(s, u)
        PROVE  Recorded(n).streaming_status = "C"
    BY <2>4 DEF Release, DeleteNoticeInfoUnitByMentionId, Restrict
  <2>5. CASE UNCHANGED notice_info
    BY <2>5
  <2>6. \/ UNCHANGED notice_info \/ DaemonRearm \/ BotMark
        \/ \E m \in newNotice : RegisterInsertNotice(m)
        \/ \E s \in Streamer, u \in User : Release(s, u)
    <3> USE DEF vars, dbVars
    <3>1. CASE DaemonNext
      BY <3>1
      DEF DaemonNext, DaemonStep, DaemonSelect, DaemonPollSame, DaemonPollChanged,
          DaemonUpdate, DaemonUpdateFails, DaemonWait, DaemonSelectFails, DaemonPollFails,
          DaemonRearmFails, DaemonSignal, DaemonCrash, DaemonRestart
    <3>2. CASE BotNext
      BY <3>2
      DEF BotNext, BotStep, CommandNext, BotSelect, BotPost, BotWait, BotSelectFails,
          BotReadFails, BotMarkFails, BotSignal, BotCrash, BotRestart, RegisterSelect,
          RegisterInsertStreamer, RegisterStreamerFails, RegisterNoticeFails
    <3>3. CASE BatchNext
      BY <3>3
      DEF BatchNext, SyncSelect, SyncPoll, SyncPollFails, SyncUpdate, SyncUpdateFails, SyncCrash
    <3>4. CASE UNCHANGED dbVars
      BY <3>4
    <3>5. QED
      BY <1>1, <3>1, <3>2, <3>3, <3>4 DEF Next
  <2>7. QED
    BY <2>1, <2>2, <2>3, <2>4, <2>5, <2>6
<1>2. TypeOK /\ RowInv /\ DaemonInv /\ [Next]_vars => [A]_vars
  BY <1>1
<1>3. ArmedOnlyWhenClosed <=> [][A]_vars
  BY DEF ArmedOnlyWhenClosed, Recorded
<1>4. QED
  BY <1>2, <1>3, OnceInvariant, PTL DEF Spec

=============================================================================
