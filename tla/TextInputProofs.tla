--------------------------- MODULE TextInputProofs ---------------------------
(* Proofs about TextInput: what utilGetIniVar returns, for any file of any   *)
(* lines (trimming, headings, keys and values stay opaque: the argument is   *)
(* about the loop, not about characters), and what a cut answer gives its    *)
(* caller, for any answer of any length. The second rests on what the parser *)
(* does with a text token by token, which is proved by induction over its    *)
(* length: AllNaturals states induction for a set, not for a predicate.      *)
EXTENDS TextInput, WellFoundedInduction, TLAPS

(* The section the loop thinks it is in is the one of the lines it has read, *)
(* and none of them sets the key while the loop goes on.                     *)
IniInv ==
    /\ file \in Seq(Lines) /\ line \in 0 .. Len(file)
    /\ var = Unread =>
          /\ current_section = Section <=> InSection(line)
          /\ \A i \in 1 .. line : ~Sets(i)
    /\ SettingIsTheSections
    /\ file = <<>> => var = Unread

(* An empty line sets nothing.                                               *)
LEMMA NothingInEmpty == First(<<>>, "=") = 0 /\ ~IsHeading(<<>>) /\ ~IsComment(<<>>)
<1>1. First(<<>>, "=") = 0
  BY DEF First, SelectInSeq
<1>2. QED
  BY <1>1 DEF IsHeading, IsComment

(* What the next line makes of the section.                                  *)
LEMMA NextSection ==
    ASSUME file \in Seq(Lines), NEW n \in Nat, n < Len(file)
    PROVE  InSection(n + 1) <=>
             IF HeadingAt(n + 1) THEN HeadingOf(Trim(file[n + 1])) = Section ELSE InSection(n)
<1>1. CASE HeadingAt(n + 1)
  <2>1. ASSUME NEW h \in 1 .. n + 1, \A k \in h + 1 .. n + 1 : ~HeadingAt(k) PROVE h = n + 1
    BY <1>1, <2>1
  <2>2. n + 1 \in 1 .. n + 1 /\ \A k \in (n + 1) + 1 .. n + 1 : FALSE
    OBVIOUS
  <2>3. QED
    BY <1>1, <2>1, <2>2 DEF InSection
<1>2. CASE ~HeadingAt(n + 1)
  <2>1. ASSUME NEW h \in 1 .. n
        PROVE  (\A k \in h + 1 .. n + 1 : ~HeadingAt(k)) <=> (\A k \in h + 1 .. n : ~HeadingAt(k))
    BY <1>2
  <2>2. \A h \in 1 .. n + 1 : HeadingAt(h) => h \in 1 .. n
    BY <1>2
  <2>3. 1 .. n \subseteq 1 .. n + 1
    OBVIOUS
  <2>4. QED
    BY <1>2, <2>1, <2>2, <2>3 DEF InSection
<1>3. QED
  BY <1>1, <1>2

(* The line that sets the key first gives the setting.                       *)
LEMMA FirstSets ==
    ASSUME file \in Seq(Lines), NEW i \in DOMAIN file, Sets(i),
           \A k \in DOMAIN file : k < i => ~Sets(k)
    PROVE  Setting = ValueOf(Trim(file[i]))
<1> DEFINE found == {k \in DOMAIN file : Sets(k)}
           least == CHOOSE k \in found : \A m \in found : k <= m
<1>0. DOMAIN file \subseteq Nat
  OBVIOUS
<1>1. i \in found /\ \A k \in found : i <= k
  OBVIOUS
<1>2. least \in found /\ \A m \in found : least <= m
  BY <1>1
<1>3. least = i
  BY <1>0, <1>1, <1>2
<1>4. QED
  BY <1>1, <1>3 DEF Setting

(* A file without such a line gives the empty value.                         *)
LEMMA NothingSets == (\A i \in DOMAIN file : ~Sets(i)) => Setting = <<>>
BY DEF Setting

(* Before the first line there is no section.                                *)
LEMMA IniInit == TextInit => IniInv
<1> SUFFICES ASSUME TextInit PROVE IniInv
  OBVIOUS
<1>1. line = 0 /\ current_section = <<>> /\ var = Unread
  BY DEF TextInit
<1>2. file \in Seq(Lines)
  <2>1. CASE file = <<>>
    BY <2>1
  <2>2. ASSUME NEW n \in 1 .. MaxLine, file \in [1 .. n -> Lines] PROVE file \in Seq(Lines)
    <3>1. n \in Nat
      BY TextAssumption
    <3>2. QED
      BY <2>2, <3>1
  <2>3. QED
    BY <2>1, <2>2 DEF TextInit
<1>3. ~InSection(0)
  BY DEF InSection
<1>4. QED
  BY <1>1, <1>2, <1>3, TextAssumption DEF IniInv, SettingIsTheSections

(* Every line read keeps the loop's account of the section.                  *)
LEMMA IniNext == IniInv /\ [TextNext]_textVars => IniInv'
<1> SUFFICES ASSUME IniInv, [TextNext]_textVars PROVE IniInv'
  OBVIOUS
<1>1. CASE UNCHANGED iniVars
  BY <1>1 DEF IniInv, iniVars, SettingIsTheSections, Setting, Sets, InSection, HeadingAt
<1>2. CASE ReadLine
  <2> DEFINE i == line + 1
             s == Trim(file[i])
  <2>1. /\ var = Unread /\ file' = file /\ line' = i
        /\ line \in Nat /\ i \in DOMAIN file /\ line < Len(file)
        /\ file \in Seq(Lines) /\ file[i] \in Lines
    BY <1>2 DEF ReadLine, IniInv
  <2>2. \A k \in Nat : Sets(k)' = Sets(k) /\ InSection(k)' = InSection(k)
    BY <2>1 DEF Sets, InSection, HeadingAt
  <2>3. InSection(i) <=> IF HeadingAt(i) THEN HeadingOf(s) = Section ELSE InSection(line)
    BY <2>1, NextSection
  <2>4. current_section = Section <=> InSection(line)
    BY <2>1 DEF IniInv
  <2>5. Setting' = Setting
    BY <2>1 DEF Setting, Sets, InSection, HeadingAt
  <2>6. current_section' = Section <=> InSection(i)
    <3>1. CASE s = <<>> \/ IsComment(s)
      <4>1. ~HeadingAt(i)
        BY <3>1, NothingInEmpty DEF HeadingAt, IsComment, IsHeading
      <4>2. current_section' = current_section
        BY <1>2, <3>1 DEF ReadLine
      <4>3. QED
        BY <2>3, <2>4, <4>1, <4>2
    <3>2. CASE ~(s = <<>> \/ IsComment(s)) /\ IsHeading(s)
      <4>1. current_section' = HeadingOf(s)
        BY <1>2, <3>2 DEF ReadLine
      <4>2. QED
        BY <2>3, <3>2, <4>1 DEF HeadingAt
    <3>3. CASE ~(s = <<>> \/ IsComment(s)) /\ ~IsHeading(s)
      <4>1. current_section' = current_section
        BY <1>2, <3>3 DEF ReadLine
      <4>2. QED
        BY <2>3, <2>4, <3>3, <4>1 DEF HeadingAt
    <3>4. QED
      BY <3>1, <3>2, <3>3
  <2>7. IF Sets(i) THEN var' = ValueOf(s) ELSE var' = var
    <3>1. CASE s = <<>> \/ IsComment(s) \/ IsHeading(s)
      <4>1. ~Sets(i)
        BY <3>1, NothingInEmpty DEF Sets, HeadingAt
      <4>2. var' = var
        BY <1>2, <3>1 DEF ReadLine
      <4>3. QED
        BY <4>1, <4>2
    <3>2. CASE ~(s = <<>> \/ IsComment(s) \/ IsHeading(s))
      <4>1. Sets(i) <=> /\ First(s, "=") # 0 /\ KeyOf(s) = Key /\ InSection(line)
        BY <2>3, <3>2 DEF Sets, HeadingAt
      <4>2. IF current_section = Section /\ First(s, "=") # 0 /\ KeyOf(s) = Key
            THEN var' = ValueOf(s) ELSE var' = var
        BY <1>2, <3>2 DEF ReadLine
      <4>3. QED
        BY <2>4, <4>1, <4>2
    <3>3. QED
      BY <3>1, <3>2
  <2>8. \A k \in 1 .. line : ~Sets(k)
    BY <2>1 DEF IniInv
  <2>9. SettingIsTheSections'
    <3>1. CASE Sets(i)
      <4>1. \A k \in DOMAIN file : k < i => ~Sets(k)
        BY <2>1, <2>8
      <4>2. QED
        BY <2>1, <2>5, <2>7, <3>1, <4>1, FirstSets DEF SettingIsTheSections
    <3>2. CASE ~Sets(i)
      BY <2>1, <2>7, <3>2 DEF SettingIsTheSections
    <3>3. QED
      BY <3>1, <3>2
  <2>10. var' = Unread => \A k \in 1 .. i : ~Sets(k)
    <3>1. ~Sets(i) \/ var' # Unread
      BY <2>1, <2>7, TextAssumption
    <3>2. QED
      BY <2>1, <2>8, <3>1
  <2>11. line' \in 0 .. Len(file') /\ file' \in Seq(Lines)
    BY <2>1
  <2>12. InSection(line)' = InSection(i)
    BY <2>1 DEF InSection, HeadingAt
  <2>13. (\A k \in 1 .. line : ~Sets(k))' = (\A k \in 1 .. i : ~Sets(k))
    BY <2>1 DEF Sets, InSection, HeadingAt
  <2>14. file' # <<>>
    BY <2>1
  <2>15. QED
    BY <2>6, <2>9, <2>10, <2>11, <2>12, <2>13, <2>14 DEF IniInv
<1>3. CASE EndOfFile
  <2>1. /\ var = Unread /\ var' = <<>> /\ UNCHANGED <<file, line, current_section>>
        /\ line = Len(file) /\ file \in Seq(Lines) /\ file # <<>>
    BY <1>3 DEF EndOfFile, IniInv
  <2>2. \A k \in DOMAIN file : ~Sets(k)
    BY <2>1 DEF IniInv
  <2>3. Setting = <<>> /\ Setting' = Setting
    BY <2>1, <2>2, NothingSets DEF Setting, Sets, InSection, HeadingAt
  <2>4. QED
    BY <2>1, <2>3 DEF IniInv, SettingIsTheSections, Unread
<1>4. QED
  BY <1>1, <1>2, <1>3 DEF TextNext, Receive, ReadEnds, textVars

(* utilGetIniVar returns the value of the first line of the section that sets*)
(* the key (SettingIsTheSections), for any file.                             *)
THEOREM SettingFound == TextSpec => []SettingIsTheSections
<1>1. IniInv => SettingIsTheSections
  BY DEF IniInv
<1>2. QED
  BY <1>1, IniInit, IniNext, PTL DEF TextSpec

----------------------------------------------------------------------------
(* Induction over the naturals, for a set in the place of a predicate.       *)

(* The order of the library's theorems, as a set of pairs.                   *)
Less == {ss \in Nat \X Nat : ss[1] < ss[2]}

(* Every set of naturals that is not empty has a least member.               *)
LEMMA LeastOne ==
    ASSUME NEW T, T \subseteq Nat, T # {}
    PROVE  \E n \in T : \A m \in T : n <= m
<1>1. IsWellFoundedOn(Less, Nat)
  BY NatLessThanWellFounded, Zenon DEF OpToRel, Less
<1>2. PICK n \in T : \A m \in T : <<m, n>> \notin Less
  BY <1>1, WFMin, Zenon
<1>3. \A m \in T : ~(m < n)
  BY <1>2 DEF Less
<1>4. QED
  BY <1>3

(* A set that has 0 and, with a natural, the next one, has them all.         *)
LEMMA AllNaturals ==
    ASSUME NEW T, 0 \in T, \A n \in Nat : n \in T => n + 1 \in T
    PROVE  \A n \in Nat : n \in T
<1> SUFFICES ASSUME Nat \ T # {} PROVE FALSE
  OBVIOUS
<1>1. PICK n \in Nat \ T : \A m \in Nat \ T : n <= m
  BY LeastOne
<1>2. n # 0 /\ n - 1 \in Nat
  OBVIOUS
<1>3. n - 1 \in T
  BY <1>1, <1>2
<1>4. QED
  BY <1>2, <1>3

----------------------------------------------------------------------------
(* Searching: std::string::find and rfind, find_first_not_of and its like.   *)

(* The least member of a set is in it and below the others.                  *)
LEMMA MinIsLeast ==
    ASSUME NEW I, I \subseteq Nat, I # {}
    PROVE  Min(I) \in I /\ \A j \in I : Min(I) <= j
BY LeastOne DEF Min

(* The greatest member of a bounded set is in it and above the others.       *)
LEMMA MaxIsGreatest ==
    ASSUME NEW n \in Nat, NEW I, I \subseteq 1 .. n, I # {}
    PROVE  Max(I) \in I /\ \A j \in I : j <= Max(I)
<1> DEFINE T == {n - i : i \in I}
<1>1. T \subseteq Nat /\ T # {}
  <2>1. \A i \in I : n - i \in Nat
    OBVIOUS
  <2>2. QED
    BY <2>1, Zenon
<1>2. PICK k \in T : \A m \in T : k <= m
  BY <1>1, LeastOne
<1>3. PICK i \in I : k = n - i
  OBVIOUS
<1>4. \A j \in I : n - j \in T
  OBVIOUS
<1>5. \A j \in I : j <= i
  BY <1>2, <1>3, <1>4
<1>6. QED
  BY <1>3, <1>5 DEF Max

(* find answers the first place, and npos only when there is none.           *)
LEMMA FirstPlace ==
    ASSUME NEW s, Len(s) \in Nat, NEW c
    PROVE  /\ First(s, c) \in 0 .. Len(s)
           /\ First(s, c) # 0 => s[First(s, c)] = c
           /\ \A i \in 1 .. Len(s) : s[i] = c => First(s, c) # 0 /\ First(s, c) <= i
<1> DEFINE I == {i \in 1 .. Len(s) : s[i] = c}
<1>1. First(s, c) = IF I # {} THEN Min(I) ELSE 0
  BY DEF First, SelectInSeq
<1>2. I # {} => Min(I) \in I /\ \A j \in I : Min(I) <= j
  BY MinIsLeast
<1>3. CASE I = {}
  BY <1>1, <1>3
<1>4. CASE I # {}
  <2> DEFINE m == Min(I)
  <2>1. First(s, c) = m /\ m \in I /\ \A j \in I : m <= j
    BY <1>1, <1>2, <1>4
  <2> HIDE DEF m
  <2>2. QED
    BY <2>1
<1>5. QED
  BY <1>3, <1>4

(* rfind likewise from the end.                                              *)
LEMMA LastPlace ==
    ASSUME NEW s, Len(s) \in Nat, NEW c
    PROVE  /\ LastOf(s, c) \in 0 .. Len(s)
           /\ LastOf(s, c) # 0 => s[LastOf(s, c)] = c
           /\ \A i \in 1 .. Len(s) : s[i] = c => i <= LastOf(s, c)
<1> DEFINE I == {i \in 1 .. Len(s) : s[i] = c}
<1>1. LastOf(s, c) = IF I # {} THEN Max(I) ELSE 0
  BY DEF LastOf, SelectLastInSeq
<1>2. I # {} => Max(I) \in I /\ \A j \in I : j <= Max(I)
  BY MaxIsGreatest
<1>3. QED
  BY <1>1, <1>2

(* What is found in the part that was read is what the whole text has there. *)
LEMMA FirstInPrefix ==
    ASSUME NEW s, Len(s) \in Nat, NEW t, Len(t) \in 0 .. Len(s),
           \A i \in 1 .. Len(t) : t[i] = s[i], NEW c
    PROVE  /\ First(t, c) # 0 => First(s, c) = First(t, c)
           /\ First(t, c) = 0 => First(s, c) = 0 \/ First(s, c) > Len(t)
<1>1. First(t, c) \in Nat /\ First(s, c) \in Nat
  BY FirstPlace
<1>2. CASE First(t, c) # 0
  <2>1. First(t, c) \in 1 .. Len(t) /\ s[First(t, c)] = c
    BY <1>2, FirstPlace
  <2>2. First(s, c) # 0 /\ First(s, c) <= First(t, c)
    BY <2>1, FirstPlace
  <2>3. First(s, c) \in 1 .. Len(t) /\ t[First(s, c)] = c
    BY <1>1, <2>1, <2>2, FirstPlace
  <2>4. First(t, c) <= First(s, c)
    BY <2>3, FirstPlace
  <2>5. QED
    BY <1>1, <1>2, <2>2, <2>4
<1>3. CASE First(t, c) = 0
  <2>1. ~(First(s, c) \in 1 .. Len(t))
    BY <1>3, FirstPlace
  <2>2. QED
    BY <1>1, <1>3, <2>1
<1>4. QED
  BY <1>2, <1>3

----------------------------------------------------------------------------
(* Trimming *)

(* utilTrim removes blanks and nothing else, at both ends, and all of them: a  *)
(* value of the settings neither keeps a blank or a carriage return at an end  *)
(* nor loses a character of its own.                                           *)
THEOREM TrimIsTight ==
    ASSUME NEW S, NEW s \in Seq(S)
    PROVE  \E f \in 1 .. Len(s) + 1, l \in 0 .. Len(s) :
              /\ Trim(s) = SubSeq(s, f, l)
              /\ \A i \in 1 .. Len(s) : i < f \/ i > l => s[i] \in Blank
              /\ Trim(s) # <<>> => Head(Trim(s)) \notin Blank /\ Last(Trim(s)) \notin Blank
<1> DEFINE I == {i \in 1 .. Len(s) : s[i] \notin Blank}
           f == Min(I)
           l == Max(I)
<1>0. I \subseteq 1 .. Len(s) /\ I \subseteq Nat /\ 0 \notin I /\ Len(s) \in Nat
  OBVIOUS
<1>1. Trim(s) = IF I = {} THEN <<>> ELSE SubSeq(s, f, l)
  <2>1. SelectInSeq(s, LAMBDA c : c \notin Blank) = IF I # {} THEN Min(I) ELSE 0
    BY DEF SelectInSeq
  <2>2. SelectLastInSeq(s, LAMBDA c : c \notin Blank) = IF I # {} THEN Max(I) ELSE 0
    BY DEF SelectLastInSeq
  <2>3. I # {} => Min(I) # 0
    <3> HIDE DEF I
    <3>1. QED
      BY <1>0, MinIsLeast
  <2>4. QED
    BY <2>1, <2>2, <2>3 DEF Trim
<1>2. CASE I = {}
  <2>1. Trim(s) = SubSeq(s, Len(s) + 1, Len(s)) /\ Trim(s) = <<>>
    BY <1>1, <1>2
  <2>2. \A i \in 1 .. Len(s) : s[i] \in Blank
    BY <1>2
  <2>3. QED
    BY <2>1, <2>2
<1>3. CASE I # {}
  <2>1. f \in I /\ \A j \in I : f <= j
    <3> HIDE DEF I
    <3>1. QED
      BY <1>0, <1>3, MinIsLeast
  <2>2. l \in I /\ \A j \in I : j <= l
    <3> HIDE DEF I
    <3>1. QED
      BY <1>0, <1>3, MaxIsGreatest
  <2> HIDE DEF f, l
  <2>3. f \in 1 .. Len(s) /\ l \in 1 .. Len(s) /\ f <= l /\ s[f] \notin Blank /\ s[l] \notin Blank
    BY <2>1, <2>2
  <2>4. \A i \in 1 .. Len(s) : i < f \/ i > l => s[i] \in Blank
    BY <2>1, <2>2, <2>3
  <2>5. /\ Trim(s) = SubSeq(s, f, l)
        /\ Len(Trim(s)) = l - f + 1 /\ Head(Trim(s)) = s[f] /\ Trim(s)[l - f + 1] = s[l]
    BY <1>1, <1>3, <2>3
  <2>6. Last(Trim(s)) = s[l]
    BY <2>5 DEF Last
  <2>7. QED
    BY <2>3, <2>4, <2>5, <2>6
<1>4. QED
  BY <1>2, <1>3

----------------------------------------------------------------------------
(* The parser's state after each token                                       *)

(* f is the parser's state after each of the first n tokens.                 *)
ScansTo(s, n, f) == f = [i \in 0 .. n |-> IF i = 0 THEN Start ELSE Scan(f[i - 1], s[i])]

(* The recursion of Scanned has a solution for texts of any length.          *)
LEMMA ScanExists == ASSUME NEW s PROVE \A n \in Nat : \E f : ScansTo(s, n, f)
<1> DEFINE T == {n \in Nat : \E f : ScansTo(s, n, f)}
<1>1. 0 \in T
  <2>1. ScansTo(s, 0, [i \in 0 .. 0 |-> Start])
    BY DEF ScansTo
  <2>2. QED
    BY <2>1
<1>2. ASSUME NEW n \in T PROVE n + 1 \in T
  <2>1. PICK f : ScansTo(s, n, f)
    OBVIOUS
  <2> DEFINE g == [i \in 0 .. n + 1 |-> IF i = n + 1 THEN Scan(f[n], s[n + 1]) ELSE f[i]]
  <2>2. ASSUME NEW i \in 0 .. n + 1 PROVE g[i] = IF i = 0 THEN Start ELSE Scan(g[i - 1], s[i])
    BY <2>1 DEF ScansTo
  <2>3. ScansTo(s, n + 1, g)
    BY <2>2 DEF ScansTo
  <2>4. QED
    BY <2>3
<1>3. \A n \in Nat : n \in T
  <2> HIDE DEF T
  <2>1. QED
    BY <1>1, <1>2, AllNaturals
<1>4. QED
  BY <1>3

(* Scanned is that solution.                                                 *)
LEMMA ScannedDef ==
    ASSUME NEW s, Len(s) \in Nat
    PROVE  \A i \in 0 .. Len(s) :
               Scanned(s)[i] = IF i = 0 THEN Start ELSE Scan(Scanned(s)[i - 1], s[i])
<1>1. Scanned(s) = CHOOSE f : ScansTo(s, Len(s), f)
  BY DEF Scanned, ScansTo
<1>2. ScansTo(s, Len(s), Scanned(s))
  BY <1>1, ScanExists
<1>3. QED
  BY <1>2 DEF ScansTo

(* A token neither mends what was refused nor may follow a whole object.     *)
LEMMA ScanStep ==
    ASSUME NEW st, NEW c
    PROVE  /\ ~st.ok => ~Scan(st, c).ok
           /\ st.begun /\ st.depth = 0 /\ ~st.quoted => ~Scan(st, c).ok
<1>1. CASE st.quoted
  <2>1. Scan(st, c).ok = st.ok
    BY <1>1 DEF Scan
  <2>2. QED
    BY <1>1, <2>1
<1>2. CASE ~st.quoted
  <2>1. Scan(st, c).ok = (st.ok /\ (st.depth > 0 \/ (~st.begun /\ c = Open)))
    BY <1>2, Zenon DEF Scan
  <2>2. st.depth = 0 => ~(st.depth > 0)
    OBVIOUS
  <2>3. QED
    BY <1>2, <2>1, <2>2, Zenon
<1>3. QED
  BY <1>1, <1>2

(* The parser does not look ahead.                                           *)
LEMMA ScannedPrefix ==
    ASSUME NEW s, Len(s) \in Nat, NEW t, Len(t) \in 0 .. Len(s),
           \A i \in 1 .. Len(t) : t[i] = s[i]
    PROVE  \A i \in 0 .. Len(t) : Scanned(t)[i] = Scanned(s)[i]
<1> DEFINE T == {n \in Nat : n <= Len(t) => Scanned(t)[n] = Scanned(s)[n]}
<1>1. 0 \in T
  BY ScannedDef
<1>2. ASSUME NEW n \in T PROVE n + 1 \in T
  <2>1. CASE n + 1 <= Len(t)
    <3>1. Scanned(t)[n + 1] = Scan(Scanned(t)[n], t[n + 1])
      BY <2>1, ScannedDef
    <3>2. Scanned(s)[n + 1] = Scan(Scanned(s)[n], s[n + 1])
      BY <2>1, ScannedDef
    <3>3. QED
      BY <2>1, <3>1, <3>2
  <2>2. QED
    BY <2>1
<1>3. \A n \in Nat : n \in T
  <2> HIDE DEF T
  <2>1. QED
    BY <1>1, <1>2, AllNaturals
<1>4. QED
  BY <1>3

(* What it has refused once it refuses for good.                             *)
LEMMA RefusedForGood ==
    ASSUME NEW s, Len(s) \in Nat, NEW m \in 0 .. Len(s), ~Scanned(s)[m].ok
    PROVE  ~Scanned(s)[Len(s)].ok
<1> DEFINE T == {n \in Nat : m + n <= Len(s) => ~Scanned(s)[m + n].ok}
<1>1. 0 \in T
  OBVIOUS
<1>2. ASSUME NEW n \in T PROVE n + 1 \in T
  <2>1. CASE m + n + 1 <= Len(s)
    <3>1. Scanned(s)[m + n + 1] = Scan(Scanned(s)[m + n], s[m + n + 1])
      BY <2>1, ScannedDef
    <3>2. ~Scanned(s)[m + n].ok
      BY <2>1
    <3>3. QED
      BY <2>1, <3>1, <3>2, ScanStep
  <2>2. QED
    BY <2>1
<1>3. \A n \in Nat : n \in T
  <2> HIDE DEF T
  <2>1. QED
    BY <1>1, <1>2, AllNaturals
<1>4. Len(s) - m \in T
  BY <1>3
<1>5. QED
  BY <1>4

(* No object is the beginning of another one.                                *)
LEMMA ObjectsArePrefixFree ==
    ASSUME NEW s, Len(s) \in Nat, NEW t, Len(t) \in 0 .. Len(s),
           \A i \in 1 .. Len(t) : t[i] = s[i], IsObject(s), IsObject(t)
    PROVE  Len(t) = Len(s)
<1> DEFINE m == Len(t)
           end == Scanned(s)[m]
<1> SUFFICES ASSUME m < Len(s) PROVE FALSE
  OBVIOUS
<1>1. end = Scanned(t)[m]
  BY ScannedPrefix
<1>2. end.begun /\ end.depth = 0 /\ ~end.quoted
  BY <1>1 DEF IsObject
<1>3. Scanned(s)[m + 1] = Scan(end, s[m + 1])
  BY ScannedDef
<1>4. ~Scanned(s)[m + 1].ok
  BY <1>2, <1>3, ScanStep
<1>5. QED
  BY <1>4, RefusedForGood DEF IsObject

----------------------------------------------------------------------------
(* A cut answer                                                              *)

(* No text is no object.                                                     *)
LEMMA NothingIsNoObject == ~IsObject(<<>>)
BY ScannedDef DEF IsObject, Start

(* A part of a body that parses is the whole object.                         *)
LEMMA CutBody ==
    ASSUME NEW S, NEW x \in Seq(S), NEW n \in 0 .. Len(x),
           First(x, Open) = 0 \/ GetParseJson(x) # <<>>
    PROVE  GetParseJson(SubSeq(x, 1, n)) \in {<<>>, GetParseJson(x)}
<1> DEFINE y == SubSeq(x, 1, n)
           f == First(y, Open)
           l == LastOf(y, Close)
           k == LastOf(x, Close)
<1>1. y \in Seq(S) /\ Len(y) = n /\ \A i \in 1 .. n : y[i] = x[i]
  OBVIOUS
<1> HIDE DEF y
<1> SUFFICES ASSUME GetParseJson(y) # <<>> PROVE GetParseJson(y) = GetParseJson(x)
  BY DEF y
<1>2. /\ f # 0 /\ IsObject(SubSeq(y, f, l))
      /\ GetParseJson(y) = SubSeq(y, f, l)
  BY DEF GetParseJson
<1>3. f \in 1 .. n /\ l \in 0 .. n /\ k \in 0 .. Len(x)
  <2>1. Len(y) \in Nat /\ Len(x) \in Nat
    BY <1>1
  <2>2. f \in 0 .. Len(y)
    BY <2>1, FirstPlace
  <2>3. l \in 0 .. Len(y) /\ k \in 0 .. Len(x)
    BY <2>1, LastPlace
  <2>4. QED
    BY <1>1, <1>2, <2>2, <2>3
<1>4. First(x, Open) = f
  BY <1>1, <1>2, FirstInPrefix
<1>5. IsObject(SubSeq(x, f, k)) /\ GetParseJson(x) = SubSeq(x, f, k)
  BY <1>2, <1>4 DEF GetParseJson
<1>6. f <= l
  <2>1. SubSeq(y, f, l) # <<>>
    BY <1>2, NothingIsNoObject
  <2>2. QED
    BY <1>1, <1>3, <2>1
<1>7. l <= k
  <2>1. x[l] = Close /\ l \in 1 .. Len(x)
    BY <1>1, <1>3, <1>6, LastPlace
  <2>2. QED
    BY <2>1, LastPlace
<1> DEFINE part == SubSeq(y, f, l)
           whole == SubSeq(x, f, k)
<1>8. /\ part \in Seq(S) /\ Len(part) = l - f + 1
      /\ \A i \in 1 .. l - f + 1 : part[i] = y[f + i - 1]
  BY <1>1, <1>3, <1>6
<1>9. /\ whole \in Seq(S) /\ Len(whole) = k - f + 1
      /\ \A i \in 1 .. k - f + 1 : whole[i] = x[f + i - 1]
  BY <1>3, <1>6, <1>7
<1>10. \A i \in 1 .. Len(part) : part[i] = whole[i]
  <2> TAKE i \in 1 .. Len(part)
  <2>1. f + i - 1 \in 1 .. n /\ i \in 1 .. k - f + 1
    BY <1>3, <1>7, <1>8
  <2>2. QED
    BY <1>1, <1>8, <1>9, <2>1
<1>11. IsObject(part) /\ IsObject(whole)
  BY <1>2, <1>5
<1> HIDE DEF part, whole, f, l, k
<1>12. Len(part) = Len(whole)
  <2>1. Len(part) \in 0 .. Len(whole) /\ Len(whole) \in Nat
    BY <1>3, <1>6, <1>7, <1>8, <1>9
  <2>2. QED
    BY <1>10, <1>11, <2>1, ObjectsArePrefixFree
<1>13. part = whole
  BY <1>8, <1>9, <1>10, <1>12
<1>14. QED
  BY <1>2, <1>5, <1>13 DEF part, whole

(* The status line says what it says, or is not complete.                    *)
LEMMA CutStatus ==
    ASSUME NEW S, NEW s \in Seq(S), NEW n \in 0 .. Len(s)
    PROVE  StatusCode(SubSeq(s, 1, n)) \in {"-1", StatusCode(s)}
<1> DEFINE p == SubSeq(s, 1, n)
           space == First(p, Space)
           rest(t) == SubSeq(t, space + 1, Len(t))
<1>1. p \in Seq(S) /\ Len(p) = n /\ \A i \in 1 .. n : p[i] = s[i]
  OBVIOUS
<1> HIDE DEF p
<1> SUFFICES ASSUME StatusCode(p) # "-1" PROVE StatusCode(p) = StatusCode(s)
  BY DEF p
<1>2. /\ First(p, EndOfHeader) # 0 /\ space # 0
      /\ First(rest(p), Space) > 1 /\ rest(p)[1] \in Numbers
      /\ StatusCode(p) = rest(p)[1]
  BY DEF StatusCode
<1>3. First(s, EndOfHeader) # 0 /\ First(s, Space) = space /\ space \in 1 .. n
  <2>1. Len(p) \in 0 .. Len(s) /\ Len(s) \in Nat /\ Len(p) \in Nat
    BY <1>1
  <2>2. First(s, EndOfHeader) = First(p, EndOfHeader) /\ First(s, Space) = space
    BY <1>1, <1>2, <2>1, FirstInPrefix
  <2>3. space \in 0 .. Len(p)
    BY <2>1, FirstPlace
  <2>4. QED
    BY <1>1, <1>2, <2>2, <2>3
<1> HIDE DEF space
<1>4. /\ rest(p) \in Seq(S) /\ Len(rest(p)) = n - space
      /\ \A i \in 1 .. n - space : rest(p)[i] = p[space + i]
  BY <1>1, <1>3
<1>5. /\ rest(s) \in Seq(S) /\ Len(rest(s)) = Len(s) - space
      /\ \A i \in 1 .. Len(s) - space : rest(s)[i] = s[space + i]
  BY <1>3
<1>6. \A i \in 1 .. Len(rest(p)) : rest(p)[i] = rest(s)[i]
  <2> TAKE i \in 1 .. Len(rest(p))
  <2>1. space + i \in 1 .. n /\ i \in 1 .. Len(s) - space
    BY <1>3, <1>4
  <2>2. QED
    BY <1>1, <1>4, <1>5, <2>1
<1>7. Len(rest(p)) \in 0 .. Len(rest(s)) /\ Len(rest(s)) \in Nat
  BY <1>3, <1>4, <1>5
<1> DEFINE a == rest(p)
           b == rest(s)
<1>8. /\ Len(a) \in 0 .. Len(b) /\ Len(b) \in Nat /\ First(a, Space) > 1
      /\ \A i \in 1 .. Len(a) : a[i] = b[i]
  BY <1>2, <1>6, <1>7
<1> HIDE DEF rest, a, b
<1>9. First(b, Space) = First(a, Space) /\ a[1] = b[1]
  BY <1>8, FirstInPrefix, FirstPlace
<1>10. QED
  BY <1>2, <1>3, <1>8, <1>9 DEF StatusCode, rest, a, b, space

(* The body that was read is the beginning of the body, or has no brace.     *)
LEMMA CutContent ==
    ASSUME NEW S, NEW s \in Seq(S), NEW n \in 0 .. Len(s),
           \/ First(s, Open) = 0
           \/ First(s, EndOfHeader) < First(s, Open) /\ GetParseJson(Body(s)) # <<>>
    PROVE  GetParseJson(Body(SubSeq(s, 1, n))) \in {<<>>, GetParseJson(Body(s))}
<1> DEFINE p == SubSeq(s, 1, n)
           e == First(p, EndOfHeader)
           x == Body(s)
           y == Body(p)
<1>1. /\ p \in Seq(S) /\ Len(p) = n /\ \A i \in 1 .. n : p[i] = s[i]
      /\ Len(p) \in 0 .. Len(s) /\ Len(p) \in Nat /\ Len(s) \in Nat
  OBVIOUS
<1> HIDE DEF p
<1>2. e \in 0 .. n /\ First(s, EndOfHeader) \in 0 .. Len(s) /\ First(s, Open) \in 0 .. Len(s)
  BY <1>1, FirstPlace
<1>3. y = SubSeq(p, e + 1, n)
  BY <1>1 DEF Body
<1> HIDE DEF e, x, y
<1>4. /\ y \in Seq(S) /\ Len(y) = n - e /\ Len(y) \in Nat
      /\ \A i \in 1 .. n - e : y[i] = p[e + i]
  BY <1>1, <1>2, <1>3
<1>5. CASE \A i \in e + 1 .. n : p[i] # Open
  <2>1. ASSUME NEW i \in 1 .. Len(y) PROVE y[i] # Open
    <3>1. e + i \in e + 1 .. n /\ y[i] = p[e + i]
      BY <1>2, <1>4
    <3>2. QED
      BY <1>5, <3>1
  <2>2. First(y, Open) = 0
    <3>1. First(y, Open) \in 0 .. Len(y) /\ (First(y, Open) # 0 => y[First(y, Open)] = Open)
      BY <1>4, FirstPlace
    <3>2. QED
      BY <2>1, <3>1
  <2>3. GetParseJson(y) = <<>>
    BY <2>2 DEF GetParseJson
  <2>4. QED
    BY <2>3 DEF y, p
<1>6. ASSUME NEW i \in e + 1 .. n, p[i] = Open
      PROVE  GetParseJson(y) \in {<<>>, GetParseJson(x)}
  <2>1. i \in 1 .. Len(s) /\ s[i] = Open
    BY <1>1, <1>2, <1>6
  <2>2. First(s, Open) # 0 /\ First(s, Open) <= i
    BY <1>1, <2>1, FirstPlace
  <2>3. First(s, EndOfHeader) <= n /\ GetParseJson(x) # <<>>
    BY <1>2, <2>2 DEF x
  <2>4. First(s, EndOfHeader) = e
    <3>1. /\ e # 0 => First(s, EndOfHeader) = e
          /\ e = 0 => First(s, EndOfHeader) = 0 \/ First(s, EndOfHeader) > Len(p)
      BY <1>1, FirstInPrefix DEF e
    <3>2. QED
      BY <1>1, <1>2, <2>3, <3>1
  <2>5. x = SubSeq(s, e + 1, Len(s))
    BY <2>4 DEF x, Body
  <2>6. /\ x \in Seq(S) /\ Len(x) = Len(s) - e /\ n - e \in 0 .. Len(x)
        /\ \A j \in 1 .. Len(s) - e : x[j] = s[e + j]
    BY <1>1, <1>2, <2>5
  <2>7. y = SubSeq(x, 1, n - e)
    <3>1. ASSUME NEW j \in 1 .. n - e PROVE y[j] = x[j]
      <4>1. e + j \in 1 .. n /\ j \in 1 .. Len(s) - e
        BY <1>1, <1>2
      <4>2. QED
        BY <1>1, <1>4, <2>6, <4>1
    <3>2. QED
      BY <1>4, <2>6, <3>1
  <2>8. QED
    BY <2>3, <2>6, <2>7, CutBody
<1>7. QED
  BY <1>5, <1>6 DEF x, y, p

(* Wherever an answer is cut off, the caller is given its status and object, *)
(* or an error.                                                              *)
LEMMA CutReply ==
    ASSUME NEW s \in Answers, NEW n \in 0 .. Len(s)
    PROVE  /\ Reply(SubSeq(s, 1, n)).status \in {"-1", Reply(s).status}
           /\ Reply(SubSeq(s, 1, n)).content \in {<<>>, Reply(s).content}
<1>1. s \in Seq(STRING)
  BY AnswerAssumption
<1>2. StatusCode(SubSeq(s, 1, n)) \in {"-1", StatusCode(s)}
  BY <1>1, CutStatus, Zenon
<1>3. GetParseJson(Body(SubSeq(s, 1, n))) \in {<<>>, GetParseJson(Body(s))}
  BY <1>1, AnswerAssumption, CutContent, Zenon
<1>4. QED
  BY <1>2, <1>3 DEF Reply

(* What was read is the beginning of the answer, and the reply is made of it.*)
AnswerInv ==
    /\ raw \in Answers \cup {<<>>}
    /\ Len(raw_response) \in 0 .. Len(raw)
    /\ raw_response = SubSeq(raw, 1, Len(raw_response))
    /\ raw = <<>> => reply = None
    /\ reply # None => reply = Reply(raw_response)

(* An answer is a text.                                                      *)
LEMMA AnswersAreTexts == \A s \in Answers \cup {<<>>} : s \in Seq(STRING)
<1>1. <<>> \in Seq(STRING)
  OBVIOUS
<1>2. QED
  BY <1>1, AnswerAssumption

(* Before the first piece nothing was read.                                  *)
LEMMA AnswerInit == TextInit => AnswerInv
<1> SUFFICES ASSUME TextInit PROVE AnswerInv
  OBVIOUS
<1>1. raw_response = <<>> /\ reply = None /\ raw \in Answers \cup {<<>>}
  BY DEF TextInit
<1>2. raw \in Seq(STRING)
  BY <1>1, AnswersAreTexts
<1>3. QED
  BY <1>1, <1>2 DEF AnswerInv

(* A piece makes the part longer; only the reply looks at it.                *)
LEMMA AnswerNext == AnswerInv /\ [TextNext]_textVars => AnswerInv'
<1> SUFFICES ASSUME AnswerInv, [TextNext]_textVars PROVE AnswerInv'
  OBVIOUS
<1>1. raw \in Seq(STRING)
  BY AnswersAreTexts DEF AnswerInv
<1>2. CASE Receive
  <2> DEFINE n == Len(raw_response) + 1
  <2>1. raw' = raw /\ reply = None /\ reply' = None /\ raw_response' = SubSeq(raw, 1, n)
    BY <1>2 DEF Receive
  <2>2. Len(raw_response) \in 0 .. Len(raw) /\ Len(raw_response) # Len(raw)
    <3>1. SubSeq(raw, 1, Len(raw)) = raw
      BY <1>1
    <3>2. QED
      BY <1>2, <3>1 DEF Receive, AnswerInv
  <2>3. n \in 0 .. Len(raw)
    BY <1>1, <2>2
  <2>4. Len(SubSeq(raw, 1, n)) = n
    BY <1>1, <2>3
  <2>5. QED
    BY <2>1, <2>3, <2>4 DEF AnswerInv
<1>3. CASE ReadEnds
  BY <1>3 DEF ReadEnds, AnswerInv
<1>4. CASE UNCHANGED answerVars
  BY <1>4 DEF answerVars, AnswerInv
<1>5. QED
  BY <1>2, <1>3, <1>4 DEF TextNext, ReadLine, EndOfFile, textVars

(* A timeout in the middle of an answer gives the caller of the HTTPS client *)
(* the status and the object the server sent, or an error, and never another *)
(* object (CutAnswerIsRefused), wherever the answer is cut off.              *)
THEOREM CutRefused == TextSpec => []CutAnswerIsRefused
<1>1. AnswerInv => CutAnswerIsRefused
  <2> SUFFICES ASSUME AnswerInv, reply # None PROVE CutAnswerIsRefused
    BY DEF CutAnswerIsRefused
  <2> DEFINE n == Len(raw_response)
  <2>1. raw \in Answers /\ n \in 0 .. Len(raw) /\ raw_response = SubSeq(raw, 1, n)
        /\ reply = Reply(raw_response)
    BY DEF AnswerInv
  <2> HIDE DEF n
  <2>2. QED
    BY <2>1, CutReply DEF CutAnswerIsRefused
<1>2. QED
  BY <1>1, AnswerInit, AnswerNext, PTL DEF TextSpec

(* Neither reader is ever beyond what there is to read (TextTypeOK).         *)
THEOREM TextTypes == TextSpec => []TextTypeOK
<1>1. AnswerInv /\ IniInv => TextTypeOK
  <2> SUFFICES ASSUME AnswerInv, IniInv PROVE TextTypeOK
    OBVIOUS
  <2>1. raw \in Seq(STRING)
    BY AnswersAreTexts DEF AnswerInv
  <2> DEFINE n == Len(raw_response)
  <2>2. n \in 0 .. Len(raw) /\ raw_response = SubSeq(raw, 1, n)
    BY DEF AnswerInv
  <2> HIDE DEF n
  <2>3. raw_response \in Seq(STRING) /\ Len(raw_response) = n
    BY <2>1, <2>2
  <2>4. IsPrefix(raw_response, raw)
    <3>1. SubSeq(raw_response, 1, Len(raw_response)) = raw_response
      BY <2>3
    <3>2. QED
      BY <2>1, <2>2, <2>3, <3>1 DEF IsPrefix
  <2>5. raw = <<>> => raw_response = <<>> /\ reply = None
    BY <2>1, <2>2, <2>3 DEF AnswerInv
  <2>6. line \in 0 .. Len(file) /\ (file = <<>> => line = 0 /\ var = Unread)
    BY DEF IniInv
  <2>7. QED
    BY <2>4, <2>5, <2>6 DEF TextTypeOK
<1>2. QED
  BY <1>1, AnswerInit, AnswerNext, IniInit, IniNext, PTL DEF TextSpec

=============================================================================
