------------------------------- MODULE ChzzkApi -------------------------------
(* The streaming platform behind /polling/v3.1/channels/<id>/live-status, as    *)
(* the processes see it: the real state of every channel, and the answer a     *)
(* poll builds out of it. External: only its use is in the repository.         *)
EXTENDS DbQuery

CONSTANT AnswerFields  \* which fields an answer may carry: a set of subsets of
                       \* {"liveTitle", "status"}; {} is "content": null

ASSUME AnswerAssumption == AnswerFields \subseteq SUBSET {"liveTitle", "status"}

VARIABLE channel  \* Streamer -> StreamerInfo, what is really on air

ChannelInit ==
    channel \in {c \in [Streamer -> StreamerInfo] :
                    \A s \in Streamer :
                        /\ c[s].streaming_channel_id = s
                        /\ c[s].streaming_title \in LiveTitles
                        /\ c[s].streaming_status = "C"
                        /\ c[s].broadcast = 0}

GoLive(s) ==
    /\ channel[s].streaming_status = "C"
    /\ channel[s].broadcast < MaxBroadcast
    /\ \E title \in LiveTitles :
          channel' = [channel EXCEPT ![s] =
              [streaming_channel_id |-> s, streaming_title |-> title,
               streaming_status |-> "O", broadcast |-> channel[s].broadcast + 1]]

GoOffline(s) ==
    /\ channel[s].streaming_status = "O"
    /\ channel' = [channel EXCEPT ![s].streaming_status = "C"]

(* A title or a category is changed, on air or off.                            *)
Retitle(s) ==
    \E title \in LiveTitles \ {channel[s].streaming_title} :
        channel' = [channel EXCEPT ![s].streaming_title = title]

ChannelNext == \E s \in Streamer : GoLive(s) \/ GoOffline(s) \/ Retitle(s)

(* The record chticeGetLiveStatus and _getLiveStatus build: a copy of the row  *)
(* that was selected, overwritten by the fields the answer carries. broadcast  *)
(* says whose the status is: it is copied with it.                             *)
LiveStatus(org, fields) ==
    LET real == channel[org.streaming_channel_id] IN
    [org EXCEPT
        !.streaming_title  = IF "liveTitle" \in fields THEN real.streaming_title ELSE @,
        !.streaming_status = IF "status" \in fields THEN real.streaming_status ELSE @,
        !.broadcast        = IF "status" \in fields THEN real.broadcast ELSE @]

ChannelTypeOK == channel \in [Streamer -> StreamerInfo]

=============================================================================
