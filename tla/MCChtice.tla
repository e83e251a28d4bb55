------------------------------- MODULE MCChtice -------------------------------
(* Constants for the runs of Chtice: model values for streamers, users and     *)
(* syncs, the sets of notices a run starts with, and the platform's titles.    *)
EXTENDS Chtice, TLC

CONSTANTS s1, s2, u1, u2, y1

Notice0(s, u) == [streaming_channel_id |-> s, mention_id |-> u, regist_no |-> 0]

OneStreamer  == {s1}
TwoStreamers == {s1, s2}
OneUser      == {u1}
TwoUsers     == {u1, u2}
NoSync       == {}
OneSync      == {y1}

NobodySubscribed == {}
OneSubscribed    == {Notice0(s1, u1)}
BothStreamers    == {Notice0(s1, u1), Notice0(s2, u1)}
CrossSubscribed  == {Notice0(s1, u1), Notice0(s1, u2), Notice0(s2, u1)}

OneTitle   == {"t"}
TwoTitles  == {"t", "u"}
EmptyTitle == {"", "t"}

FullAnswer    == {{"liveTitle", "status"}}
PartialAnswer == {{}, {"status"}, {"liveTitle"}, {"liveTitle", "status"}}

NoFaults  == {}
AllFaults == {"http", "db", "discord", "crash", "signal"}
NoSignal  == AllFaults \ {"signal"}
HttpOnly  == {"http"}

Users == Permutations(User)

=============================================================================
