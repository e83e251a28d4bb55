----------------------------- MODULE ChticeBatch -----------------------------
(* chtice_batch sync: one pass over all the streamers that writes what the      *)
(* platform answers, whether it changed or not, and never touches notice_info. *)
(* The slash command sync_all and whoever runs the program start a process     *)
(* each, so that several may overlap.                                          *)
EXTENDS ChzzkApi

CONSTANT Sync  \* the sync processes of a run; {} for none

VARIABLES
    tPc,    \* Sync -> where batchSyncStreamerInfoALL is
    tList,  \* Sync -> selected rows that are not written yet
    tCur    \* Sync -> cur_info between the poll and the update

batchVars == <<tPc, tList, tCur>>

SyncPc == {"idle", "poll", "update", "done"}

BatchInit ==
    /\ tPc = [p \in Sync |-> "idle"]
    /\ tList = [p \in Sync |-> {}]
    /\ tCur = [p \in Sync |-> None]

SyncContinue(p, list) ==
    /\ tList' = [tList EXCEPT ![p] = list]
    /\ tCur' = [tCur EXCEPT ![p] = None]
    /\ tPc' = [tPc EXCEPT ![p] = IF list = {} THEN "done" ELSE "poll"]

(* The loop breaks, or the process dies: what is left of the list stays as it  *)
(* is, and the caller learns nothing of it.                                    *)
SyncStop(p) ==
    /\ tPc' = [tPc EXCEPT ![p] = "done"]
    /\ tCur' = [tCur EXCEPT ![p] = None]
    /\ UNCHANGED tList

SyncSelect(p) ==
    /\ tPc[p] = "idle"
    /\ SyncContinue(p, SelectStreamerInfoAll)
    /\ UNCHANGED <<dbVars, faults>>

SyncPoll(p) ==
    /\ tPc[p] = "poll"
    /\ \E org \in tList[p], fields \in AnswerFields :
          tCur' = [tCur EXCEPT ![p] = LiveStatus(org, fields)]
    /\ tPc' = [tPc EXCEPT ![p] = "update"]
    /\ UNCHANGED <<dbVars, tList, faults>>

(* Mutant: a poll that failed is taken for a channel off air.                  *)
SyncPollFailsCloses(p) ==
    /\ tPc[p] = "poll"
    /\ Fault("http")
    /\ \E org \in tList[p] : tCur' = [tCur EXCEPT ![p] = [org EXCEPT !.streaming_status = "C"]]
    /\ tPc' = [tPc EXCEPT ![p] = "update"]
    /\ UNCHANGED <<dbVars, tList>>

SyncPollFails(p) ==
    /\ tPc[p] = "poll"
    /\ Fault("http")
    /\ SyncStop(p)
    /\ UNCHANGED dbVars

SyncUpdate(p) ==
    /\ tPc[p] = "update"
    /\ UpdateAccepts(tCur[p])
    /\ UpdateStreamerInfoLiveStatus(tCur[p])
    /\ SyncContinue(p, {org \in tList[p] :
                          org.streaming_channel_id # tCur[p].streaming_channel_id})
    /\ UNCHANGED <<notice_info, faults>>

SyncUpdateFails(p) ==
    /\ tPc[p] = "update"
    /\ \/ ~UpdateAccepts(tCur[p]) /\ UNCHANGED faults
       \/ UpdateAccepts(tCur[p]) /\ Fault("db")
    /\ SyncStop(p)
    /\ UNCHANGED dbVars

SyncCrash(p) ==
    /\ tPc[p] \in {"poll", "update"}
    /\ Fault("crash")
    /\ SyncStop(p)
    /\ UNCHANGED dbVars

BatchNext ==
    \E p \in Sync :
        \/ SyncSelect(p) \/ SyncPoll(p) \/ SyncPollFails(p)
        \/ SyncUpdate(p) \/ SyncUpdateFails(p) \/ SyncCrash(p)

BatchTypeOK ==
    /\ tPc \in [Sync -> SyncPc]
    /\ tList \in [Sync -> SUBSET StreamerInfo]
    /\ tCur \in [Sync -> StreamerInfo \cup {None}]
    /\ \A p \in Sync : tPc[p] = "update" => tCur[p] \in StreamerInfo

=============================================================================
