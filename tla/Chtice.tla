-------------------------------- MODULE Chtice --------------------------------
(* The whole system: daemon, bot (sender and command handlers) and sync         *)
(* processes over the two shared tables, with the platform beside them. Each   *)
(* process has its own MySQL connection, so the statements interleave freely.  *)
EXTENDS ChticeDaemon, ChticeBot, ChticeBatch

CONSTANT Subscribed  \* notices registered before the run starts

ASSUME SubscribedAssumption ==
    /\ Subscribed \subseteq Row
    /\ \A n \in Subscribed : n.regist_no = 0

vars == <<streamer_info, notice_info, faults, channel, daemonVars, botVars, batchVars>>

Init ==
    /\ streamer_info = [s \in {n.streaming_channel_id : n \in Subscribed} |-> NewStreamerInfo(s)]
    /\ notice_info = [n \in Subscribed |-> "WAIT"]
    /\ faults = 0
    /\ ChannelInit
    /\ DaemonInit
    /\ BotInit
    /\ BatchInit

Next ==
    \/ DaemonNext  /\ UNCHANGED <<channel, botVars, batchVars>>
    \/ BotNext     /\ UNCHANGED <<channel, daemonVars, batchVars>>
    \/ BatchNext   /\ UNCHANGED <<channel, daemonVars, botVars>>
    \/ ChannelNext /\ UNCHANGED <<dbVars, faults, daemonVars, botVars, batchVars>>

Spec == Init /\ [][Next]_vars

(* The scheduler runs a process that can run, and its 30 second wait ends.     *)
(* Nothing obliges the platform, the users, a sync or a restart to happen.     *)
Fairness ==
    /\ WF_vars(DaemonStep /\ UNCHANGED <<channel, botVars, batchVars>>)
    /\ WF_vars(BotStep /\ UNCHANGED <<channel, daemonVars, batchVars>>)

FairSpec == Spec /\ Fairness

----------------------------------------------------------------------------
(* Invariants *)

(* The values of every variable, and what a control point says of the others.  *)
TypeOK ==
    /\ DbTypeOK /\ ChannelTypeOK
    /\ DaemonTypeOK
    /\ BotTypeOK /\ HistoryTypeOK
    /\ BatchTypeOK

(* A notice always belongs to a registered streamer, whichever handlers ran    *)
(* together and whichever of their calls failed: the JOIN of the send query    *)
(* loses no notice and BotPost finds the row it reads again.                   *)
NoticeHasStreamer ==
    \A n \in DOMAIN notice_info \cup newNotice \cup bList :
        n.streaming_channel_id \in DOMAIN streamer_info

(* However late the daemon and the syncs write their copies of a row, and in   *)
(* whatever order, the table never runs ahead of the platform, and "closed" is *)
(* never recorded for a broadcast that is still on air.                        *)
RecordedStatusWasReal ==
    \A s \in DOMAIN streamer_info :
        /\ streamer_info[s].broadcast <= channel[s].broadcast
        /\ streamer_info[s].streaming_status = "C" =>
              \/ channel[s].streaming_status = "C"
              \/ channel[s].broadcast > streamer_info[s].broadcast

(* Without a sync, nobody is told of one broadcast twice, except after a       *)
(* message whose UPDATE to SEND was lost: the daemon arms a notice only after  *)
(* the broadcast it was sent for has ended, and never brings that one back.    *)
AtMostOncePerBroadcast ==
    \A n \in Row, b \in Broadcast : posted[n][b] <= 1 + lostMarks[n]

(* After a release the notice may still be in the sender's list; it is posted  *)
(* once more at the most, whatever fails or restarts.                          *)
AtMostOneLateNotice == \A n \in Row : late[n] <= 1

----------------------------------------------------------------------------
(* Action properties *)

(* Without a sync, a sent notice becomes due again only while the table calls  *)
(* its channel closed: arming never happens between two messages on air.       *)
ArmedOnlyWhenClosed ==
    [][\A n \in DOMAIN notice_info \cap DOMAIN notice_info' :
          notice_info[n] = "SEND" /\ notice_info'[n] = "WAIT"
             => streamer_info[n.streaming_channel_id].streaming_status = "C"]_vars

----------------------------------------------------------------------------
(* Refinement *)

(* A notice is owed while the sender has it in its list, or while its row says *)
(* WAIT and it is not the one just sent and not yet marked.                    *)
Owed ==
    bList \cup {n \in DOMAIN notice_info :
                  notice_info[n] = "WAIT" /\ ~(bPc = "mark" /\ bCur = n)}

(* A channel counts as closed while its row says so, and from the daemon's     *)
(* UPDATE until it has armed the notices, whatever a sync writes in between.   *)
Closed ==
    {s \in DOMAIN streamer_info : streamer_info[s].streaming_status = "C"}
        \cup {s \in Streamer : /\ dPc = "rearm" /\ dCur.streaming_channel_id = s
                               /\ dCur.streaming_status = "C"}

Promise == INSTANCE NoticePromise WITH owed <- Owed, closed <- Closed

(* All the processes together keep the promise of NoticePromise: every message *)
(* uses up one arming, and armings come only from a registration, a close the  *)
(* daemon recorded, or a fault; a sync, however it interleaves, adds none.     *)
KeepsPromise == Promise!PromiseSpec

----------------------------------------------------------------------------
(* Liveness *)

(* Once the platform, the syncs and the faults have had their say, the table   *)
(* agrees with the platform for good, unless the daemon is down for good.      *)
StatusConverges ==
    <>[](\/ dPc = "stopped"
         \/ \A s \in DOMAIN streamer_info :
               streamer_info[s].streaming_status = channel[s].streaming_status)

(* A channel that stays on air is announced to everyone who was subscribed and *)
(* does not release the notice.                                                *)
SubscribersNotified ==
    \A n \in Subscribed :
        (/\ <>[](channel[n.streaming_channel_id].streaming_status = "O")
         /\ [](n \in DOMAIN notice_info))
            => <>(\E b \in Broadcast \ {0} : posted[n][b] > 0)

----------------------------------------------------------------------------
(* Once the platform rests, every streamer whose own title is in order is      *)
(* monitored, whatever the others are called.                                  *)
EveryStreamerMonitored ==
    <>[][FALSE]_channel =>
        <>[](\/ dPc = "stopped"
             \/ \A s \in DOMAIN streamer_info :
                   channel[s].streaming_title # ""
                      => streamer_info[s].streaming_status = channel[s].streaming_status)

----------------------------------------------------------------------------
(* What the texts of the program say and the code does not keep *)

(* A notice that counts as sent was sent, or is about to be.                   *)
SentMeansPosted ==
    \A n \in DOMAIN notice_info :
        notice_info[n] = "SEND" => n \in bList \/ (\E b \in Broadcast : posted[n][b] > 0)

(* When a channel is off air, the table says so and nobody is at work, its     *)
(* notices are due: what is not due now stays so through the next broadcast,   *)
(* since the daemon sees no change until that one is over, but for a title.    *)
Quiet == /\ dPc = "wait" /\ bPc = "wait"
         /\ \A p \in Sync : tPc[p] \in {"idle", "done"}

ClosedChannelIsArmed ==
    Quiet => \A n \in DOMAIN notice_info :
        LET s == n.streaming_channel_id IN
        channel[s].streaming_status = "C" /\ streamer_info[s].streaming_status = "C"
            => notice_info[n] = "WAIT"

=============================================================================
