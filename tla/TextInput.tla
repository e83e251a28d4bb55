------------------------------ MODULE TextInput ------------------------------
(* The two texts the processes depend on: the answer of a server, which        *)
(* arrives in pieces and may stop anywhere, and the settings file, which is    *)
(* read line by line. A text is a sequence of tokens, one for each kind of     *)
(* character the code tells apart.                                             *)
EXTENDS Integers, SequencesExt

CONSTANTS
    Heads,    \* status lines and headers a server sends
    Bodies,   \* what may follow them
    Numbers,  \* the tokens that are numbers
    Lines,    \* lines a settings file may have
    MaxLine,  \* bound: lines of a file
    Section,  \* the section and the key that are asked for
    Key

VARIABLES
    raw,              \* the whole answer; <<>> when a file is read
    raw_response,     \* what SSL_read has returned of it
    reply,            \* what the caller makes of it; None before
    file,             \* the settings file; <<>> when an answer is read
    line,             \* lines read
    current_section,  \* utilGetIniVar's
    var               \* what it returns; Unread before

None   == [status |-> "none", content |-> <<>>]
Unread == <<"unread">>

answerVars == <<raw, raw_response, reply>>
iniVars    == <<file, line, current_section, var>>
textVars   == <<answerVars, iniVars>>

Space       == " "
Open        == "{"
Close       == "}"
EndOfHeader == "end"   \* the blank line

First(s, c) == SelectInSeq(s, LAMBDA x : x = c)
LastOf(s, c) == SelectLastInSeq(s, LAMBDA x : x = c)

----------------------------------------------------------------------------
(* The answer *)

(* The number after the first blank, if another blank follows it somewhere and *)
(* the headers are complete; what std::stoi refuses is -1.                     *)
StatusCode(s) ==
    LET space1 == First(s, Space)
        rest   == SubSeq(s, space1 + 1, Len(s))
    IN IF First(s, EndOfHeader) # 0 /\ space1 # 0 /\ First(rest, Space) > 1 /\ rest[1] \in Numbers
       THEN rest[1] ELSE "-1"

Body(s) == SubSeq(s, First(s, EndOfHeader) + 1, Len(s))

(* The parser, external: one object with nothing before or after it. Braces    *)
(* between quotes do not count; a is any other token.                          *)
Start == [depth |-> 0, quoted |-> FALSE, ok |-> TRUE, begun |-> FALSE]

Scan(st, c) ==
    IF st.quoted THEN [depth |-> st.depth, quoted |-> c # "q", ok |-> st.ok, begun |-> TRUE]
    ELSE [depth  |-> st.depth + (IF c = Open THEN 1 ELSE IF c = Close THEN -1 ELSE 0),
          quoted |-> c = "q",
          ok     |-> st.ok /\ (st.depth > 0 \/ (~st.begun /\ c = Open)),
          begun  |-> TRUE]

(* Its state after each token.                                                 *)
Scanned(s) ==
    LET state[i \in 0 .. Len(s)] == IF i = 0 THEN Start ELSE Scan(state[i - 1], s[i])
    IN state

IsObject(s) ==
    LET end == Scanned(s)[Len(s)]
    IN end.ok /\ end.begun /\ end.depth = 0 /\ ~end.quoted

(* Mutant: what the parser refuses is handed on.                               *)
GetParseJsonUnchecked(body) ==
    LET pure == SubSeq(body, First(body, Open), LastOf(body, Close))
    IN IF First(body, Open) # 0 THEN pure ELSE <<>>

(* From the first opening brace to the last closing one; <<>> is an error.     *)
GetParseJson(body) ==
    LET pure == SubSeq(body, First(body, Open), LastOf(body, Close))
    IN IF First(body, Open) # 0 /\ IsObject(pure) THEN pure ELSE <<>>

(* Status and content, as the callers take them from a call.                   *)
Reply(s) == [status |-> StatusCode(s), content |-> GetParseJson(Body(s))]

(* What a server sends holds one object, after the headers, or no brace.       *)
Answers == {h \o b : h \in Heads, b \in Bodies}

ASSUME AnswerAssumption ==
    \A s \in Answers :
        /\ s \in Seq(STRING)
        /\ \/ First(s, Open) = 0
           \/ First(s, EndOfHeader) < First(s, Open) /\ GetParseJson(Body(s)) # <<>>

(* Mutant: a piece replaces what was read before it.                           *)
ReceiveLast ==
    /\ reply = None /\ raw_response # raw
    /\ raw_response' = SubSeq(raw, Len(raw_response) + 1, Len(raw_response) + 1)
    /\ UNCHANGED <<raw, reply, iniVars>>

(* SSL_read returns a piece; any cut is a cut between two tokens.              *)
Receive ==
    /\ reply = None /\ raw_response # raw
    /\ raw_response' = SubSeq(raw, 1, Len(raw_response) + 1)
    /\ UNCHANGED <<raw, reply, iniVars>>

(* The server closed, or nothing came for five seconds: the loop cannot tell.  *)
ReadEnds ==
    /\ reply = None /\ raw # <<>>
    /\ reply' = Reply(raw_response)
    /\ UNCHANGED <<raw, raw_response, iniVars>>

----------------------------------------------------------------------------
(* The settings file *)

Blank == {Space, "r"}   \* blanks and tabs; carriage returns

Trim(s) ==
    LET first_pos == SelectInSeq(s, LAMBDA c : c \notin Blank)
    IN IF first_pos = 0 THEN <<>>
       ELSE SubSeq(s, first_pos, SelectLastInSeq(s, LAMBDA c : c \notin Blank))

IsHeading(s) == s # <<>> /\ Head(s) = "[" /\ Last(s) = "]"
IsComment(s) == s # <<>> /\ Head(s) \in {";", "#"}
HeadingOf(s) == Trim(SubSeq(s, 2, Len(s) - 1))
KeyOf(s)     == Trim(SubSeq(s, 1, First(s, "=") - 1))
ValueOf(s)   == Trim(SubSeq(s, First(s, "=") + 1, Len(s)))

(* Every caller names a section; Unread is no value.                           *)
ASSUME TextAssumption ==
    /\ MaxLine \in Nat
    /\ Section # <<>>
    /\ \A l \in Lines : ValueOf(Trim(l)) # Unread

(* Mutant: the line is used as it was read.                                    *)
ReadLineUntrimmed ==
    /\ var = Unread /\ line < Len(file)
    /\ line' = line + 1
    /\ LET s == file[line + 1] IN
       IF s = <<>> \/ IsComment(s) THEN UNCHANGED <<current_section, var>>
       ELSE IF IsHeading(s) THEN current_section' = HeadingOf(s) /\ UNCHANGED var
       ELSE /\ UNCHANGED current_section
            /\ IF current_section = Section /\ First(s, "=") # 0 /\ KeyOf(s) = Key
               THEN var' = ValueOf(s) ELSE UNCHANGED var
    /\ UNCHANGED <<file, answerVars>>

(* One turn of the loop of utilGetIniVar.                                      *)
ReadLine ==
    /\ var = Unread /\ line < Len(file)
    /\ line' = line + 1
    /\ LET s == Trim(file[line + 1]) IN
       IF s = <<>> \/ IsComment(s) THEN UNCHANGED <<current_section, var>>
       ELSE IF IsHeading(s) THEN current_section' = HeadingOf(s) /\ UNCHANGED var
       ELSE /\ UNCHANGED current_section
            /\ IF current_section = Section /\ First(s, "=") # 0 /\ KeyOf(s) = Key
               THEN var' = ValueOf(s) ELSE UNCHANGED var
    /\ UNCHANGED <<file, answerVars>>

EndOfFile ==
    /\ var = Unread /\ file # <<>> /\ line = Len(file)
    /\ var' = <<>>
    /\ UNCHANGED <<file, line, current_section, answerVars>>

----------------------------------------------------------------------------

TextInit ==
    /\ raw_response = <<>> /\ reply = None
    /\ line = 0 /\ current_section = <<>> /\ var = Unread
    /\ \/ file = <<>> /\ raw \in Answers
       \/ raw = <<>> /\ \E n \in 1 .. MaxLine : file \in [1 .. n -> Lines]

TextNext == Receive \/ ReadEnds \/ ReadLine \/ EndOfFile

TextSpec == TextInit /\ [][TextNext]_textVars

(* How far a reader is never exceeds what there is to read.                    *)
TextTypeOK ==
    /\ IsPrefix(raw_response, raw)
    /\ line \in 0 .. Len(file)
    /\ raw = <<>> => raw_response = <<>> /\ reply = None
    /\ file = <<>> => line = 0 /\ var = Unread

(* An answer that was cut off is refused or has lost nothing that matters: a   *)
(* timeout in the middle of a read gives the caller the status and the object  *)
(* the server sent, or an error, never another object or another status.       *)
CutAnswerIsRefused ==
    reply # None =>
        /\ reply.status \in {"-1", Reply(raw).status}
        /\ reply.content \in {<<>>, Reply(raw).content}

(* Line i sets the key, and its nearest heading above is the section.          *)
HeadingAt(i) == IsHeading(Trim(file[i]))

InSection(i) ==
    \E h \in 1 .. i : /\ HeadingAt(h) /\ HeadingOf(Trim(file[h])) = Section
                      /\ \A k \in h + 1 .. i : ~HeadingAt(k)

Sets(i) ==
    LET s == Trim(file[i]) IN
    /\ ~HeadingAt(i) /\ ~IsComment(s)
    /\ First(s, "=") # 0 /\ KeyOf(s) = Key
    /\ InSection(i)

Setting ==
    LET found == {i \in DOMAIN file : Sets(i)}
    IN IF found = {} THEN <<>>
       ELSE ValueOf(Trim(file[CHOOSE i \in found : \A k \in found : i <= k]))

(* The value found is that of the first line with the key whose nearest        *)
(* heading above is the section, whatever blanks, comments, carriage returns   *)
(* and other sections surround it.                                             *)
SettingIsTheSections == var # Unread => var = Setting

=============================================================================
