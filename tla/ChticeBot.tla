------------------------------ MODULE ChticeBot ------------------------------
(* chtice_bot: its main thread sends the notices that are due, every 30         *)
(* seconds; meanwhile the Discord library runs one handler per slash command.  *)
(* Both read and write the same two tables.                                    *)
EXTENDS DbQuery

VARIABLES
    bPc,          \* where mainProcess / sendStreamingNotice is
    bList,        \* the selected notices the loop has not come to yet
    bCur,         \* ninfo, between message_create and the UPDATE after it
    bRunning,     \* _global.is_running
    issued,       \* serial number of the last register command
    newStreamer,  \* register commands about to INSERT INTO streamer_info
    newNotice,    \* register commands about to INSERT INTO notice_info
    posted,       \* history: messages per notice and broadcast
    late,         \* history: messages for a notice that was no longer there
    lostMarks     \* history: messages whose UPDATE to SEND did not happen

sendVars    == <<bPc, bList, bCur, bRunning>>
commandVars == <<issued, newStreamer, newNotice>>
historyVars == <<posted, late, lostMarks>>
botVars     == <<sendVars, commandVars, historyVars>>

BotPc == {"select", "post", "mark", "wait", "stopped"}

BotInit ==
    /\ bPc = "select" /\ bList = {} /\ bCur = None /\ bRunning = TRUE
    /\ issued = 0 /\ newStreamer = {} /\ newNotice = {}
    /\ posted = [n \in Row |-> [b \in Broadcast |-> 0]]
    /\ late = [n \in Row |-> 0]
    /\ lostMarks = [n \in Row |-> 0]

----------------------------------------------------------------------------
(* The main thread *)

BotContinue(list) ==
    /\ bList' = list
    /\ bCur' = None
    /\ bPc' = IF list = {} THEN "wait" ELSE "post"

(* The process ends, and its handlers with it.                                 *)
BotExit ==
    /\ bPc' = "stopped" /\ bList' = {} /\ bCur' = None
    /\ newStreamer' = {} /\ newNotice' = {}
    /\ UNCHANGED <<bRunning, issued>>

BotSelect ==
    /\ bPc = "select"
    /\ BotContinue(SelectNoticeInfoForSend)
    /\ UNCHANGED <<dbVars, bRunning, commandVars, historyVars, faults>>

BotSelectFails ==
    /\ bPc = "select"
    /\ Fault("db")
    /\ BotExit
    /\ UNCHANGED <<dbVars, historyVars>>

(* The streamer is read again, so the message tells of the broadcast the table *)
(* has now. The notice is not read again. message_create takes no callback: it *)
(* is not known whether Discord accepted the message.                          *)
BotPost ==
    /\ bPc = "post"
    /\ \E n \in bList :
          /\ bList' = bList \ {n}
          /\ bCur' = n
          /\ \/ /\ UNCHANGED faults
                /\ posted' = [posted EXCEPT
                     ![n][streamer_info[n.streaming_channel_id].broadcast] = @ + 1]
                /\ late' = IF n \in DOMAIN notice_info
                           THEN late ELSE [late EXCEPT ![n] = @ + 1]
             \/ Fault("discord") /\ UNCHANGED <<posted, late>>
    /\ bPc' = "mark"
    /\ UNCHANGED <<dbVars, bRunning, commandVars, lostMarks>>

BotReadFails ==
    /\ bPc = "post"
    /\ Fault("db")
    /\ \E n \in bList : BotContinue(bList \ {n})
    /\ UNCHANGED <<dbVars, bRunning, commandVars, historyVars>>

BotMark ==
    /\ bPc = "mark"
    /\ UpdateNoticeInfoNoticeState("SEND", bCur.streaming_channel_id)
    /\ BotContinue(bList)
    /\ UNCHANGED <<streamer_info, bRunning, commandVars, historyVars, faults>>

(* Mutant: a notice that could not be marked is tried again at once.           *)
BotMarkFailsRetries ==
    /\ bPc = "mark"
    /\ Fault("db")
    /\ lostMarks' = [lostMarks EXCEPT ![bCur] = @ + 1]
    /\ BotContinue(bList \cup {bCur})
    /\ UNCHANGED <<dbVars, bRunning, commandVars, posted, late>>

BotMarkFails ==
    /\ bPc = "mark"
    /\ Fault("db")
    /\ lostMarks' = [lostMarks EXCEPT ![bCur] = @ + 1]
    /\ BotContinue(bList)
    /\ UNCHANGED <<dbVars, bRunning, commandVars, posted, late>>

BotWait ==
    /\ bPc = "wait"
    /\ IF bRunning
       THEN bPc' = "select" /\ UNCHANGED <<bList, bCur, bRunning, commandVars>>
       ELSE BotExit
    /\ UNCHANGED <<dbVars, historyVars, faults>>

BotSignal ==
    /\ bPc # "stopped" /\ bRunning
    /\ Fault("signal")
    /\ bRunning' = FALSE
    /\ UNCHANGED <<dbVars, bPc, bList, bCur, commandVars, historyVars>>

BotCrash ==
    /\ bPc # "stopped"
    /\ Fault("crash")
    /\ lostMarks' = IF bPc = "mark" THEN [lostMarks EXCEPT ![bCur] = @ + 1] ELSE lostMarks
    /\ BotExit
    /\ UNCHANGED <<dbVars, posted, late>>

BotRestart ==
    /\ bPc = "stopped"
    /\ bPc' = "select" /\ bRunning' = TRUE
    /\ UNCHANGED <<dbVars, bList, bCur, commandVars, historyVars, faults>>

----------------------------------------------------------------------------
(* The slash command handlers *)

(* The streamer is looked up; zero rows mean it has to be inserted first, with *)
(* the name an HTTPS call to the platform returns.                             *)
RegisterSelect(s, u) ==
    /\ bPc # "stopped"
    /\ issued < MaxRegist
    /\ issued' = issued + 1
    /\ LET n == [streaming_channel_id |-> s, mention_id |-> u, regist_no |-> issued + 1]
       IN IF s \in DOMAIN streamer_info
          THEN newNotice' = newNotice \cup {n} /\ UNCHANGED newStreamer
          ELSE newStreamer' = newStreamer \cup {n} /\ UNCHANGED newNotice
    /\ UNCHANGED <<dbVars, sendVars, historyVars, faults>>

RegisterInsertStreamer(n) ==
    /\ n \in newStreamer
    /\ n.streaming_channel_id \notin DOMAIN streamer_info
    /\ InsertStreamerInfo(n.streaming_channel_id)
    /\ newStreamer' = newStreamer \ {n}
    /\ newNotice' = newNotice \cup {n}
    /\ UNCHANGED <<notice_info, sendVars, issued, historyVars, faults>>

(* Mutant: the notice is inserted although the streamer was not.               *)
RegisterStreamerFailsGoesOn(n) ==
    /\ n \in newStreamer
    /\ \/ n.streaming_channel_id \in DOMAIN streamer_info /\ UNCHANGED faults
       \/ Fault("http")
       \/ Fault("db")
    /\ newStreamer' = newStreamer \ {n}
    /\ newNotice' = newNotice \cup {n}
    /\ UNCHANGED <<dbVars, sendVars, issued, historyVars>>

(* The key is taken by another handler's INSERT, or a call fails: no notice.   *)
RegisterStreamerFails(n) ==
    /\ n \in newStreamer
    /\ \/ n.streaming_channel_id \in DOMAIN streamer_info /\ UNCHANGED faults
       \/ Fault("http")
       \/ Fault("db")
    /\ newStreamer' = newStreamer \ {n}
    /\ UNCHANGED <<dbVars, sendVars, issued, newNotice, historyVars>>

RegisterInsertNotice(n) ==
    /\ n \in newNotice
    /\ InsertNoticeInfo(n)
    /\ newNotice' = newNotice \ {n}
    /\ UNCHANGED <<streamer_info, sendVars, issued, newStreamer, historyVars, faults>>

RegisterNoticeFails(n) ==
    /\ n \in newNotice
    /\ Fault("db")
    /\ newNotice' = newNotice \ {n}
    /\ UNCHANGED <<dbVars, sendVars, issued, newStreamer, historyVars>>

(* The streamer is whichever one the LIKE on the name returned. Its row is     *)
(* never deleted, so the DELETE after the SELECT still means the same channel. *)
Release(s, u) ==
    /\ bPc # "stopped"
    /\ s \in DOMAIN streamer_info
    /\ DeleteNoticeInfoUnitByMentionId(s, u)
    /\ UNCHANGED <<streamer_info, sendVars, commandVars, historyVars, faults>>

BotStep == BotSelect \/ BotPost \/ BotMark \/ BotWait

CommandNext ==
    \/ \E s \in Streamer, u \in User : RegisterSelect(s, u) \/ Release(s, u)
    \/ \E n \in newStreamer : RegisterInsertStreamer(n) \/ RegisterStreamerFails(n)
    \/ \E n \in newNotice : RegisterInsertNotice(n) \/ RegisterNoticeFails(n)

BotNext ==
    \/ BotStep
    \/ BotSelectFails \/ BotReadFails \/ BotMarkFails
    \/ BotSignal \/ BotCrash \/ BotRestart
    \/ CommandNext

(* ninfo is set exactly between a message and its UPDATE.                      *)
BotTypeOK ==
    /\ bPc \in BotPc
    /\ bRunning \in BOOLEAN
    /\ bList \subseteq Row
    /\ bPc = "post" => bList # {}
    /\ bPc = "mark" => bCur \in Row
    /\ bPc # "mark" => bCur = None
    /\ issued \in 0 .. MaxRegist
    /\ newStreamer \subseteq Row
    /\ newNotice \subseteq Row

HistoryTypeOK ==
    /\ posted \in [Row -> [Broadcast -> Nat]]
    /\ late \in [Row -> Nat]
    /\ lostMarks \in [Row -> Nat]

=============================================================================
