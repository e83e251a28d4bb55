----------------------------- MODULE ChticeDaemon -----------------------------
(* chtice_daemon: every 30 seconds it selects all the streamers, asks the       *)
(* platform about each, writes the row when something changed, and arms the    *)
(* channel's notices again when what it wrote is "closed".                     *)
EXTENDS ChzzkApi

VARIABLES
    dPc,       \* where mainProcess / pollLiveStatus is
    dList,     \* the selected rows pollLiveStatus has not come to yet
    dCur,      \* cur_info between the poll and the last statement it is used in
    dRunning   \* _global.is_running

daemonVars == <<dPc, dList, dCur, dRunning>>

DaemonPc == {"select", "poll", "update", "rearm", "wait", "stopped"}

DaemonInit == dPc = "select" /\ dList = {} /\ dCur = None /\ dRunning = TRUE

(* Mutant: the end of the list is not noticed.                                 *)
DaemonContinueForEver(list) ==
    /\ dList' = list
    /\ dCur' = None
    /\ dPc' = "poll"

(* On to the next row of the loop, or out of it and into the wait.             *)
DaemonContinue(list) ==
    /\ dList' = list
    /\ dCur' = None
    /\ dPc' = IF list = {} THEN "wait" ELSE "poll"

DaemonSelect ==
    /\ dPc = "select"
    /\ DaemonContinue(SelectStreamerInfoAll)
    /\ UNCHANGED <<dbVars, dRunning, faults>>

DaemonExit == dPc' = "stopped" /\ dList' = {} /\ dCur' = None /\ UNCHANGED dRunning

DaemonSelectFails ==
    /\ dPc = "select"
    /\ Fault("db")
    /\ DaemonExit
    /\ UNCHANGED dbVars

(* Mutant: only the title is compared.                                         *)
SameTitle(org, cur) == org.streaming_title = cur.streaming_title

(* open_time and close_time are not compared.                                  *)
SameStatus(org, cur) ==
    /\ org.streaming_title = cur.streaming_title
    /\ org.streaming_status = cur.streaming_status

DaemonPollSame ==
    /\ dPc = "poll"
    /\ \E org \in dList, fields \in AnswerFields :
          /\ SameStatus(org, LiveStatus(org, fields))
          /\ DaemonContinue(dList \ {org})
    /\ UNCHANGED <<dbVars, dRunning, faults>>

DaemonPollChanged ==
    /\ dPc = "poll"
    /\ \E org \in dList, fields \in AnswerFields :
          /\ ~SameStatus(org, LiveStatus(org, fields))
          /\ dCur' = LiveStatus(org, fields)
          /\ dList' = dList \ {org}
    /\ dPc' = "update"
    /\ UNCHANGED <<dbVars, dRunning, faults>>

(* No connection, a status other than 200, or a body that does not parse.      *)
DaemonPollFails ==
    /\ dPc = "poll"
    /\ Fault("http")
    /\ \E org \in dList : DaemonContinue(dList \ {org})
    /\ UNCHANGED <<dbVars, dRunning>>

(* Mutant: notices are armed whatever status was written.                      *)
DaemonUpdateArmsAlways ==
    /\ dPc = "update"
    /\ UpdateAccepts(dCur)
    /\ UpdateStreamerInfoLiveStatus(dCur)
    /\ dPc' = "rearm"
    /\ UNCHANGED <<notice_info, dList, dCur, dRunning, faults>>

DaemonUpdate ==
    /\ dPc = "update"
    /\ UpdateAccepts(dCur)
    /\ UpdateStreamerInfoLiveStatus(dCur)
    /\ IF dCur.streaming_status = "C"
       THEN dPc' = "rearm" /\ UNCHANGED <<dList, dCur>>
       ELSE DaemonContinue(dList)
    /\ UNCHANGED <<notice_info, dRunning, faults>>

(* Mutant: the break is missing, and a close that was not written arms.        *)
DaemonUpdateFailsGoesOn ==
    /\ dPc = "update"
    /\ \/ ~UpdateAccepts(dCur) /\ UNCHANGED faults
       \/ UpdateAccepts(dCur) /\ Fault("db")
    /\ IF dCur.streaming_status = "C"
       THEN dPc' = "rearm" /\ UNCHANGED <<dList, dCur>>
       ELSE DaemonContinue(dList)
    /\ UNCHANGED <<dbVars, dRunning>>

(* The loop breaks: the streamers after this one are not polled in this round. *)
DaemonUpdateFails ==
    /\ dPc = "update"
    /\ \/ ~UpdateAccepts(dCur) /\ UNCHANGED faults
       \/ UpdateAccepts(dCur) /\ Fault("db")
    /\ DaemonContinue({})
    /\ UNCHANGED <<dbVars, dRunning>>

DaemonRearm ==
    /\ dPc = "rearm"
    /\ UpdateNoticeInfoNoticeState("WAIT", dCur.streaming_channel_id)
    /\ DaemonContinue(dList)
    /\ UNCHANGED <<streamer_info, dRunning, faults>>

DaemonRearmFails ==
    /\ dPc = "rearm"
    /\ Fault("db")
    /\ DaemonContinue({})
    /\ UNCHANGED <<dbVars, dRunning>>

DaemonWait ==
    /\ dPc = "wait"
    /\ dPc' = IF dRunning THEN "select" ELSE "stopped"
    /\ UNCHANGED <<dbVars, dList, dCur, dRunning, faults>>

(* The signal handler only clears is_running; the loop notices at its top.     *)
DaemonSignal ==
    /\ dPc # "stopped" /\ dRunning
    /\ Fault("signal")
    /\ dRunning' = FALSE
    /\ UNCHANGED <<dbVars, dPc, dList, dCur>>

DaemonCrash ==
    /\ dPc # "stopped"
    /\ Fault("crash")
    /\ DaemonExit
    /\ UNCHANGED dbVars

(* A new process: nothing of the old one's memory survives.                    *)
DaemonRestart ==
    /\ dPc = "stopped"
    /\ dPc' = "select" /\ dRunning' = TRUE
    /\ UNCHANGED <<dbVars, dList, dCur, faults>>

DaemonStep ==
    \/ DaemonSelect \/ DaemonPollSame \/ DaemonPollChanged \/ DaemonUpdate
    \/ DaemonUpdateFails \/ DaemonRearm \/ DaemonWait

DaemonNext ==
    \/ DaemonStep
    \/ DaemonSelectFails \/ DaemonPollFails \/ DaemonRearmFails
    \/ DaemonSignal \/ DaemonCrash \/ DaemonRestart

(* cur_info holds a record exactly while a later statement needs it.           *)
DaemonTypeOK ==
    /\ dPc \in DaemonPc
    /\ dRunning \in BOOLEAN
    /\ dList \subseteq StreamerInfo
    /\ dPc = "poll" => dList # {}
    /\ dPc \in {"update", "rearm"} => dCur \in StreamerInfo
    /\ dPc \notin {"update", "rearm"} => dCur = None

=============================================================================
