------------------------------- MODULE DbQuery -------------------------------
(* The two MySQL tables the processes share, and the statements of dbquery.cpp *)
(* that read and write them. A statement is one atomic step: every query goes  *)
(* through dbmysqlQueryExecute in autocommit mode, and no code opens a         *)
(* transaction around two of them.                                             *)
EXTENDS Integers, FiniteSets, Functions

CONSTANTS
    Streamer,      \* streaming_channel_id values
    User,          \* Discord users (mention_id)
    MaxRegist,     \* bound: registrations a run may issue
    MaxBroadcast,  \* bound: broadcasts a channel may start
    LiveTitles,    \* titles the platform may report; "" is the empty one
    MaxFaults,     \* bound: failed calls, crashes and signals of a run
    FaultKinds,    \* those of "http", "db", "discord", "crash", "signal"
                   \* that may happen
    None           \* no record

ASSUME DbQueryAssumption ==
    /\ MaxRegist \in Nat
    /\ MaxBroadcast \in Nat
    /\ MaxFaults \in Nat

VARIABLES
    streamer_info,  \* table: registered streamers -> StreamerInfo
    notice_info,    \* table: registered notices -> notice_state
    faults          \* calls that failed, crashes and signals so far

dbVars == <<streamer_info, notice_info>>

Title     == LiveTitles \cup {""}
Broadcast == 0 .. MaxBroadcast   \* serial numbers of a channel's broadcasts; 0 is none

(* STREAMER_INFO. The title stands for title and category, which are compared  *)
(* and written together. broadcast is no column: it names the broadcast the    *)
(* status was read for. The columns open_time and close_time are only shown.   *)
StreamerInfo == [streaming_channel_id : Streamer,
                 streaming_title      : Title,
                 streaming_status     : {"O", "C"},
                 broadcast            : Broadcast]

(* NOTICE_INFO. Each registration inserts a row of its own, so the serial      *)
(* number of the command identifies the row; 0 is a row that exists at start.  *)
Row == [streaming_channel_id : Streamer, mention_id : User, regist_no : 0 .. MaxRegist]

NoticeState == {"WAIT", "SEND"}

Fault(kind) ==
    /\ kind \in FaultKinds
    /\ faults < MaxFaults
    /\ faults' = faults + 1

----------------------------------------------------------------------------
(* streamer_info *)

SelectStreamerInfoAll == {streamer_info[s] : s \in DOMAIN streamer_info}

(* The row queryInsertStreamerInfo writes: no title yet, closed, no broadcast. *)
NewStreamerInfo(s) ==
    [streaming_channel_id |-> s, streaming_title |-> "",
     streaming_status |-> "C", broadcast |-> 0]

InsertStreamerInfo(s) ==
    streamer_info' = [t \in DOMAIN streamer_info \cup {s} |->
                        IF t = s THEN NewStreamerInfo(s) ELSE streamer_info[t]]

(* _queryEscapeString answers -1 for an empty string, and the update returns   *)
(* that before any SQL is sent.                                                *)
UpdateAccepts(info) == info.streaming_title # ""

UpdateStreamerInfoLiveStatus(info) ==
    streamer_info' = [streamer_info EXCEPT ![info.streaming_channel_id] = info]

----------------------------------------------------------------------------
(* notice_info *)

(* Mutant: the condition on notice_state is forgotten.                         *)
SelectNoticeInfoForSendAnyState ==
    {n \in DOMAIN notice_info :
        /\ n.streaming_channel_id \in DOMAIN streamer_info
        /\ streamer_info[n.streaming_channel_id].streaming_status = "O"}

SelectNoticeInfoForSend ==
    {n \in DOMAIN notice_info :
        /\ n.streaming_channel_id \in DOMAIN streamer_info
        /\ streamer_info[n.streaming_channel_id].streaming_status = "O"
        /\ notice_info[n] = "WAIT"}

InsertNoticeInfo(n) ==
    notice_info' = [m \in DOMAIN notice_info \cup {n} |->
                      IF m = n THEN "WAIT" ELSE notice_info[m]]

(* Mutant: the WHERE on the channel is forgotten.                              *)
UpdateNoticeInfoNoticeStateOfAll(state, s) ==
    notice_info' = [n \in DOMAIN notice_info |-> state]

(* Every row of the channel moves, whichever row the caller had in mind.       *)
UpdateNoticeInfoNoticeState(state, s) ==
    notice_info' = [n \in DOMAIN notice_info |->
                      IF n.streaming_channel_id = s THEN state ELSE notice_info[n]]

(* One user's rows for one channel, however often the user registered.         *)
DeleteNoticeInfoUnitByMentionId(s, u) ==
    notice_info' = Restrict(notice_info,
        {n \in DOMAIN notice_info :
            ~(n.streaming_channel_id = s /\ n.mention_id = u)})

----------------------------------------------------------------------------
(* The rows a table can hold, and where each is found.                         *)
DbTypeOK ==
    /\ DOMAIN streamer_info \subseteq Streamer
    /\ streamer_info \in [DOMAIN streamer_info -> StreamerInfo]
    /\ \A s \in DOMAIN streamer_info : streamer_info[s].streaming_channel_id = s
    /\ DOMAIN notice_info \subseteq Row
    /\ notice_info \in [DOMAIN notice_info -> NoticeState]
    /\ faults \in 0 .. MaxFaults

=============================================================================
