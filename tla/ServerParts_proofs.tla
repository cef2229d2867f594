------------------------- MODULE ServerParts_proofs -------------------------
(***************************************************************************)
(* That each part of the server keeps its promises next to the others, for *)
(* every value of the constants: a behaviour of all is one of each, so the *)
(* theorems about UserAccounts and AttachmentFiles hold of it.  Those about *)
(* Presign and Migrator are proved here, under their names Links and       *)
(* Schema.  The lemmas on versions are about the order Greater and the     *)
(* CHOOSE in Newest, which needs the set it is of to be finite.            *)
(***************************************************************************)
EXTENDS ServerParts, SequenceTheorems, FiniteSetTheorems, TLAPS

---------------------------------------------------------------------------
(* Links: the list of attachments.                                         *)

\* Taking an element out of a list moves those behind it one up.
LEMMA RemoveAtIs ==
    ASSUME NEW s \in Seq(File), NEW i \in DOMAIN s
    PROVE  /\ Links!RemoveAt(s, i) \in Seq(File)
           /\ Len(Links!RemoveAt(s, i)) = Len(s) - 1
           /\ \A k \in 1 .. Len(s) - 1 :
                Links!RemoveAt(s, i)[k] = IF k < i THEN s[k] ELSE s[k + 1]
<1> DEFINE a == SubSeq(s, 1, i - 1)
           b == SubSeq(s, i + 1, Len(s))
<1>1. a \in Seq(File) /\ Len(a) = i - 1 /\ \A k \in 1 .. i - 1 : a[k] = s[k]
    BY SubSeqProperties
<1>2. b \in Seq(File) /\ Len(b) = Len(s) - i /\ \A k \in 1 .. Len(s) - i : b[k] = s[i + k]
    BY SubSeqProperties
<1> HIDE DEF a, b
<1>3. Links!RemoveAt(s, i) = a \o b
    BY DEF Links!RemoveAt, a, b
<1> QED BY <1>1, <1>2, <1>3, ConcatProperties

\* Putting an element before a list moves the others one down.
LEMMA PutFirstIs ==
    ASSUME NEW s \in Seq(File), NEW f \in File
    PROVE  /\ <<f>> \o s \in Seq(File)
           /\ Len(<<f>> \o s) = Len(s) + 1
           /\ (<<f>> \o s)[1] = f
           /\ \A k \in 2 .. Len(s) + 1 : (<<f>> \o s)[k] = s[k - 1]
BY ConcatProperties

\* An element that was not there before goes to the front.
LEMMA FrontStep ==
    ASSUME NEW s \in Seq(File), Links!IsInjective(s), NEW f \in File, f \notin Links!ToSet(s)
    PROVE  /\ Links!IsInjective(<<f>> \o s)
           /\ Links!ToSet(<<f>> \o s) = Links!ToSet(s) \cup {f}
<1> DEFINE t == <<f>> \o s
<1>1. /\ t \in Seq(File) /\ Len(t) = Len(s) + 1 /\ t[1] = f
      /\ \A k \in 2 .. Len(s) + 1 : t[k] = s[k - 1]
    BY PutFirstIs
<1> HIDE DEF t
<1>2. DOMAIN s = 1 .. Len(s) /\ DOMAIN t = 1 .. Len(s) + 1 /\ Len(s) \in Nat
    BY <1>1, LenProperties
<1>3. \A k \in 1 .. Len(s) : s[k] # f /\ s[k] = t[k + 1]
    BY <1>1, <1>2 DEF Links!ToSet
<1>4. ASSUME NEW k \in DOMAIN t, NEW l \in DOMAIN t, t[k] = t[l]
      PROVE  k = l
    <2>1. CASE k = 1 \/ l = 1
        BY <1>1, <1>2, <1>3, <1>4, <2>1
    <2>2. CASE k # 1 /\ l # 1
        <3>1. k - 1 \in DOMAIN s /\ l - 1 \in DOMAIN s /\ s[k - 1] = s[l - 1]
            BY <1>1, <1>2, <1>4, <2>2
        <3>2. k - 1 = l - 1
            BY <3>1 DEF Links!IsInjective
        <3> QED BY <1>2, <3>2
    <2> QED BY <2>1, <2>2
<1>5. Links!ToSet(t) = Links!ToSet(s) \cup {f}
    <2>1. ASSUME NEW k \in DOMAIN t PROVE t[k] \in Links!ToSet(s) \cup {f}
        BY <1>1, <1>2 DEF Links!ToSet
    <2>2. ASSUME NEW k \in DOMAIN s PROVE s[k] \in Links!ToSet(t)
        BY <1>2, <1>3 DEF Links!ToSet
    <2>3. f \in Links!ToSet(t)
        BY <1>1, <1>2 DEF Links!ToSet
    <2> QED BY <2>1, <2>2, <2>3 DEF Links!ToSet
<1>6. Links!IsInjective(t)
    BY <1>4 DEF Links!IsInjective
<1> QED BY <1>5, <1>6 DEF t

\* An element that is taken out is gone, as none is there twice.
LEMMA CutStep ==
    ASSUME NEW s \in Seq(File), Links!IsInjective(s), NEW i \in DOMAIN s
    PROVE  /\ Links!IsInjective(Links!RemoveAt(s, i))
           /\ Links!ToSet(Links!RemoveAt(s, i)) = Links!ToSet(s) \ {s[i]}
<1> DEFINE t == Links!RemoveAt(s, i)
           At(k) == IF k < i THEN k ELSE k + 1
<1>1. /\ t \in Seq(File) /\ Len(t) = Len(s) - 1
      /\ \A k \in 1 .. Len(s) - 1 : t[k] = s[At(k)]
    <2>1. \A k \in 1 .. Len(s) - 1 : t[k] = IF k < i THEN s[k] ELSE s[k + 1]
        BY RemoveAtIs
    <2> QED BY <2>1, RemoveAtIs
<1> HIDE DEF t
<1>2. DOMAIN s = 1 .. Len(s) /\ DOMAIN t = 1 .. Len(s) - 1 /\ Len(s) \in Nat
    BY <1>1, LenProperties
<1>3. \A k \in DOMAIN t : At(k) \in DOMAIN s /\ At(k) # i
    BY <1>2
<1>4. ASSUME NEW k \in DOMAIN t, NEW l \in DOMAIN t, t[k] = t[l]
      PROVE  k = l
    <2>1. At(k) = At(l)
        <3>1. s[At(k)] = s[At(l)]
            BY <1>1, <1>2, <1>4
        <3> HIDE DEF At
        <3> QED BY <1>3, <3>1 DEF Links!IsInjective
    <2> QED BY <1>2, <2>1
<1>5. ASSUME NEW k \in DOMAIN t PROVE t[k] \in Links!ToSet(s) \ {s[i]}
    <2>1. t[k] = s[At(k)]
        BY <1>1, <1>2
    <2> HIDE DEF At
    <2> QED BY <1>3, <2>1 DEF Links!ToSet, Links!IsInjective
<1>6. ASSUME NEW k \in DOMAIN s, s[k] # s[i] PROVE s[k] \in Links!ToSet(t)
    <2>1. CASE k < i
        <3>1. k \in DOMAIN t /\ t[k] = s[k]
            BY <1>1, <1>2, <2>1
        <3> QED BY <3>1 DEF Links!ToSet
    <2>2. CASE k > i
        <3>1. k - 1 \in DOMAIN t /\ t[k - 1] = s[k]
            BY <1>1, <1>2, <2>2
        <3> QED BY <3>1 DEF Links!ToSet
    <2> QED BY <1>2, <1>6, <2>1, <2>2
<1> HIDE DEF At
<1>7. Links!IsInjective(t)
    BY <1>4 DEF Links!IsInjective
<1>8. Links!ToSet(t) = Links!ToSet(s) \ {s[i]}
    BY <1>5, <1>6 DEF Links!ToSet
<1> QED BY <1>7, <1>8 DEF t

\* What is behind an offset.
After(s, o) == {s[k] : k \in o + 1 .. Len(s)}

\* Nothing that is put in front of a list takes from what is behind an offset.
LEMMA AfterFront ==
    ASSUME NEW s \in Seq(File), NEW f \in File, NEW o \in Nat
    PROVE  After(s, o) \subseteq After(<<f>> \o s, o)
<1> DEFINE t == <<f>> \o s
<1>1. Len(t) = Len(s) + 1 /\ \A k \in 2 .. Len(s) + 1 : t[k] = s[k - 1]
    BY PutFirstIs
<1> HIDE DEF t
<1>2. ASSUME NEW k \in o + 1 .. Len(s) PROVE s[k] \in After(t, o)
    <2>1. k + 1 \in o + 1 .. Len(t) /\ t[k + 1] = s[k]
        BY <1>1, LenProperties
    <2> QED BY <2>1 DEF After
<1> QED BY <1>2 DEF After, t

\* An element that moves to the front takes but itself from there.
LEMMA AfterMove ==
    ASSUME NEW s \in Seq(File), NEW i \in DOMAIN s, NEW o \in Nat
    PROVE  After(s, o) \ {s[i]} \subseteq After(<<s[i]>> \o Links!RemoveAt(s, i), o)
<1> DEFINE r == Links!RemoveAt(s, i)
           t == <<s[i]>> \o r
<1> HIDE DEF r, t
<1>0. s[i] \in File /\ Len(s) \in Nat /\ DOMAIN s = 1 .. Len(s)
    <2>1. Len(s) \in Nat /\ DOMAIN s = 1 .. Len(s)
        BY LenProperties
    <2> QED BY <2>1, ElementOfSeq
<1>1. /\ r \in Seq(File) /\ Len(r) = Len(s) - 1
      /\ \A k \in 1 .. Len(s) - 1 : r[k] = IF k < i THEN s[k] ELSE s[k + 1]
    BY RemoveAtIs, Zenon DEF r
<1>2. Len(t) = Len(r) + 1 /\ \A k \in 2 .. Len(r) + 1 : t[k] = r[k - 1]
    BY <1>0, <1>1, PutFirstIs, Zenon DEF t
<1>3. ASSUME NEW k \in o + 1 .. Len(s), s[k] # s[i] PROVE s[k] \in After(t, o)
    <2>1. CASE k < i
        <3>1. k + 1 \in o + 1 .. Len(t) /\ t[k + 1] = r[k] /\ r[k] = s[k]
            BY <1>0, <1>1, <1>2, <2>1
        <3> QED BY <3>1 DEF After
    <2>2. CASE k > i
        <3>1. k \in o + 1 .. Len(t) /\ t[k] = r[k - 1] /\ r[k - 1] = s[k]
            BY <1>0, <1>1, <1>2, <2>2
        <3> QED BY <3>1 DEF After
    <2> QED BY <1>0, <1>3, <2>1, <2>2
<1> QED BY <1>3 DEF After, t, r

---------------------------------------------------------------------------
(* Links: a pass among the requests.                                       *)

\* The part of Links!Inductive about the age of links.
Young ==
    \A f \in Links!Present \ missed :
        \/ age[f] <= KeepFor
        \/ running /\ f \in Links!Ahead /\ age[f] <= KeepFor + 1

LEMMA AheadIs == Links!Ahead = Links!ToSet(page) \cup After(listed, offset)
BY DEF Links!Ahead, After

\* A new link is young, and in front of all that the pass has to come to.
LEMMA UploadStep ==
    ASSUME Links!Periods, Links!Inductive, Links!Upload
    PROVE  Links!Inductive'
<1> USE DEF Links!Inductive, Links!TypeOK, Links!Present
<1>1. PICK f \in File \ used :
        /\ used' = used \cup {f}
        /\ listed' = <<f>> \o listed
        /\ age' = [age EXCEPT ![f] = 0]
    BY DEF Links!Upload
<1>2. UNCHANGED <<page, offset, running, missed>>
    BY DEF Links!Upload
<1>3. /\ listed' \in Seq(File) /\ Links!IsInjective(listed')
      /\ Links!ToSet(listed') = Links!ToSet(listed) \cup {f}
    BY <1>1, FrontStep, PutFirstIs
<1>4. age' \in [File -> 0 .. ValidFor] /\ age'[f] = 0
      /\ \A g \in File \ {f} : age'[g] = age[g]
    BY <1>1 DEF Links!Periods
<1>5. Links!Ahead \subseteq Links!Ahead'
    <2>1. After(listed, offset) \subseteq After(listed', offset')
        BY <1>1, <1>2, AfterFront
    <2>2. Links!Ahead' = Links!ToSet(page)' \cup After(listed', offset')
        BY AheadIs DEF Links!Ahead, After
    <2> QED BY <1>2, <2>1, <2>2, AheadIs DEF Links!ToSet
<1>6. ASSUME NEW g \in Links!Present' \ missed'
      PROVE  \/ age'[g] <= KeepFor
             \/ running' /\ g \in Links!Ahead' /\ age'[g] <= KeepFor + 1
    <2>1. CASE g = f
        BY <1>4, <2>1 DEF Links!Periods
    <2>2. CASE g # f
        <3>1. g \in Links!Present \ missed /\ age'[g] = age[g]
            BY <1>2, <1>3, <1>4, <1>6, <2>2
        <3> QED BY <1>2, <1>5, <3>1
    <2> QED BY <2>1, <2>2
<1> QED BY <1>1, <1>2, <1>3, <1>4, <1>6

\* While a pass goes on, a delete counts every link as missed.
LEMMA DeleteStep ==
    ASSUME Links!Periods, Links!Inductive, Links!Delete
    PROVE  Links!Inductive'
<1> USE DEF Links!Inductive, Links!TypeOK, Links!Present
<1>1. PICK i \in DOMAIN listed :
        /\ listed' = Links!RemoveAt(listed, i)
        /\ missed' = IF running THEN Links!Present' ELSE missed \ {listed[i]}
    BY DEF Links!Delete
<1>2. UNCHANGED <<used, age, page, offset, running>>
    BY DEF Links!Delete
<1>3. /\ listed' \in Seq(File) /\ Links!IsInjective(listed')
      /\ Links!ToSet(listed') = Links!ToSet(listed) \ {listed[i]}
    BY <1>1, CutStep, RemoveAtIs
<1>4. Young'
    BY <1>1, <1>2, <1>3 DEF Young
<1> QED BY <1>1, <1>2, <1>3, <1>4 DEF Young

\* A rename counts the link as missed that it moves to the front.
LEMMA RenameStep ==
    ASSUME Links!Periods, Links!Inductive, Links!Rename
    PROVE  Links!Inductive'
<1> USE DEF Links!Inductive, Links!TypeOK, Links!Present
<1>1. PICK i \in DOMAIN listed :
        /\ listed' = <<listed[i]>> \o Links!RemoveAt(listed, i)
        /\ missed' = IF running THEN missed \cup {listed[i]} ELSE missed
    BY DEF Links!Rename
<1>2. UNCHANGED <<used, age, page, offset, running>>
    BY DEF Links!Rename
<1> DEFINE rest == Links!RemoveAt(listed, i)
<1>3. /\ rest \in Seq(File) /\ Links!IsInjective(rest)
      /\ Links!ToSet(rest) = Links!ToSet(listed) \ {listed[i]}
    BY CutStep, RemoveAtIs
<1>4. listed[i] \in File /\ listed[i] \in Links!ToSet(listed)
    BY ElementOfSeq, LenProperties DEF Links!ToSet
<1>5. /\ listed' \in Seq(File) /\ Links!IsInjective(listed')
      /\ Links!ToSet(listed') = Links!ToSet(listed)
    <2>1. listed' = <<listed[i]>> \o rest
        BY <1>1
    <2> HIDE DEF rest
    <2>2. listed[i] \notin Links!ToSet(rest)
        BY <1>3
    <2>3. /\ Links!IsInjective(listed')
          /\ Links!ToSet(listed') = Links!ToSet(rest) \cup {listed[i]}
        BY <1>3, <1>4, <2>1, <2>2, FrontStep
    <2>4. listed' \in Seq(File)
        BY <1>3, <1>4, <2>1, PutFirstIs
    <2> QED BY <1>3, <1>4, <2>3, <2>4
<1> HIDE DEF rest
<1>6. Links!Ahead \ {listed[i]} \subseteq Links!Ahead'
    <2>1. After(listed, offset) \ {listed[i]} \subseteq After(listed', offset')
        BY <1>1, <1>2, AfterMove
    <2>2. Links!Ahead' = Links!ToSet(page)' \cup After(listed', offset')
        BY AheadIs DEF Links!Ahead, After
    <2> QED BY <1>2, <2>1, <2>2, AheadIs DEF Links!ToSet
<1>7. Young'
    BY <1>1, <1>2, <1>5, <1>6 DEF Young
<1> QED BY <1>1, <1>2, <1>4, <1>5, <1>7 DEF Young

\* A pass has all links before it when it starts.
LEMMA AllAhead ==
    ASSUME Links!TypeOK, UNCHANGED listed, offset' = 0
    PROVE  Links!Present' \subseteq Links!Ahead'
<1> USE DEF Links!TypeOK, Links!Present
<1>1. ASSUME NEW f \in Links!Present
      PROVE  f \in Links!Ahead'
    <2>1. PICK i \in DOMAIN listed : f = listed[i]
        BY DEF Links!ToSet
    <2>2. i \in offset' + 1 .. Len(listed')
        BY <2>1, LenProperties
    <2> QED BY <2>1, <2>2 DEF Links!Ahead
<1>2. Links!Present' = Links!Present
    BY DEF Links!ToSet
<1> QED BY <1>1, <1>2

\* Links become n half days older, or expire.
LEMMA OlderIs ==
    ASSUME Links!Periods, Links!TypeOK, NEW n \in Nat
    PROVE  /\ Links!Older(n) \in [File -> 0 .. ValidFor]
           /\ \A f \in File : Links!Older(n)[f] <= age[f] + n
BY DEF Links!Periods, Links!TypeOK, Links!Older

LEMMA WakeUpStep ==
    ASSUME Links!Periods, Links!Inductive, Links!WakeUp
    PROVE  Links!Inductive'
<1> USE DEF Links!Inductive, Links!TypeOK, Links!Present
<1>1. /\ ~running /\ running' = TRUE /\ offset' = 0
      /\ age' = Links!Older(1)
      /\ UNCHANGED <<listed, used, page, missed>>
    BY DEF Links!WakeUp
<1>2. age' \in [File -> 0 .. ValidFor] /\ \A f \in File : age'[f] <= age[f] + 1
    BY <1>1, OlderIs
<1>3. Links!Present' \subseteq Links!Ahead' /\ Links!Present' = Links!Present
    BY <1>1, AllAhead DEF Links!ToSet
<1>4. Young'
    BY <1>1, <1>2, <1>3 DEF Young, Links!Periods
<1> QED BY <1>1, <1>2, <1>4 DEF Young

\* What a restart finds too old for the next pass is counted as missed: links the
\* broken pass had ahead, or all after a day.
LEMMA RestartStep ==
    ASSUME Links!Periods, Links!Inductive, Links!Restart
    PROVE  Links!Inductive'
<1> USE DEF Links!Inductive, Links!TypeOK, Links!Present
<1>1. PICK since \in 0 .. ValidFor :
        /\ age' = Links!Older(since)
        /\ missed' = CASE since = 0 -> missed
                       [] since = 1 -> IF running THEN missed \cup (Links!Ahead \cap Links!Present)
                                       ELSE missed
                       [] OTHER -> Links!Present
    BY DEF Links!Restart
<1>2. running' = TRUE /\ page' = <<>> /\ offset' = 0 /\ UNCHANGED <<listed, used>>
    BY DEF Links!Restart
<1>3. /\ age' \in [File -> 0 .. ValidFor]
      /\ \A f \in File : age'[f] <= age[f] + since
    BY <1>1, OlderIs DEF Links!Periods
<1>4. Links!Present' \subseteq Links!Ahead' /\ Links!Present' = Links!Present
    BY <1>2, AllAhead DEF Links!ToSet
<1>5. Links!Present \subseteq File
    BY LenProperties, ElementOfSeq DEF Links!ToSet
<1>6. Young'
    <2>1. CASE since = 0
        <3>1. missed' = missed
            BY <1>1, <2>1
        <3>2. ASSUME NEW f \in Links!Present' \ missed'
              PROVE  f \in Links!Ahead' /\ age'[f] <= KeepFor + 1
            <4>1. f \in Links!Present \ missed /\ f \in File
                BY <1>4, <1>5, <3>1, <3>2
            <4>2. age[f] \in Nat /\ age'[f] \in Nat /\ age'[f] <= age[f] + since
                BY <1>3, <4>1 DEF Links!Periods
            <4>3. age[f] <= KeepFor \/ age[f] <= KeepFor + 1
                BY <4>1
            <4> QED BY <1>4, <2>1, <3>2, <4>2, <4>3 DEF Links!Periods
        <3> QED BY <1>2, <3>2 DEF Young
    <2>2. CASE since = 1 /\ running
        <3>1. missed' = missed \cup (Links!Ahead \cap Links!Present)
            BY <1>1, <2>2
        <3>2. ASSUME NEW f \in Links!Present' \ missed'
              PROVE  f \in Links!Ahead' /\ age'[f] <= KeepFor + 1
            <4>1. f \in File /\ age[f] <= KeepFor
                BY <1>4, <1>5, <3>1, <3>2
            <4> QED BY <1>3, <1>4, <2>2, <3>2, <4>1 DEF Links!Periods
        <3> QED BY <1>2, <3>2 DEF Young
    <2>3. CASE since = 1 /\ ~running
        BY <1>1, <1>2, <1>3, <1>4, <1>5, <2>3 DEF Young, Links!Periods
    <2>4. CASE since > 1
        <3>1. missed' = Links!Present
            BY <1>1, <2>4
        <3> QED BY <1>4, <3>1 DEF Young
    <2> QED BY <1>1, <2>1, <2>2, <2>3, <2>4 DEF Links!Periods
<1>7. page' \in Seq(File) /\ Len(page') = 0
    BY <1>2, EmptySeq
<1>8. missed' \subseteq File
    BY <1>1, <1>5
<1>9. Len(page') <= BatchSize
    BY <1>7 DEF Links!Periods
<1> QED BY <1>2, <1>3, <1>4, <1>6, <1>7, <1>8, <1>9 DEF Young

\* A pass that is given up counts what it had ahead as missed.
LEMMA ListFailsStep ==
    ASSUME Links!Periods, Links!Inductive, Links!ListFails
    PROVE  /\ Links!Inductive'
           /\ \A f \in Links!Present \ missed' : age[f] <= KeepFor
<1> USE DEF Links!Inductive, Links!TypeOK, Links!Present
<1>1. /\ running' = FALSE /\ page = <<>> /\ UNCHANGED <<listed, used, age, page, offset>>
      /\ missed' = missed \cup (Links!Ahead \cap Links!Present)
    BY DEF Links!ListFails
<1>2. \A f \in Links!Present \ missed' : age[f] <= KeepFor
    BY <1>1
<1>3. Links!Present' = Links!Present
    BY <1>1 DEF Links!ToSet
<1>4. Links!Present \subseteq File
    BY LenProperties, ElementOfSeq DEF Links!ToSet
<1>5. Young'
    BY <1>1, <1>2, <1>3 DEF Young
<1> QED BY <1>1, <1>2, <1>3, <1>4, <1>5 DEF Young

\* A page holds what was listed between the offset and the next; the pass ends
\* only when nothing was.
LEMMA ListPageStep ==
    ASSUME Links!Periods, Links!Inductive, Links!ListPage
    PROVE  /\ Links!Inductive'
           /\ Links!Ends => \A f \in Links!Present \ missed' : age[f] <= KeepFor
<1> USE DEF Links!Inductive, Links!TypeOK, Links!Present
<1> DEFINE last == IF offset + BatchSize < Len(listed) THEN offset + BatchSize ELSE Len(listed)
           next == SubSeq(listed, offset + 1, last)
<1>0. /\ Len(listed) \in Nat /\ DOMAIN listed = 1 .. Len(listed)
      /\ \A k \in 1 .. Len(listed) : listed[k] \in File
    BY LenProperties, ElementOfSeq
<1>1. last \in Nat /\ last <= Len(listed) /\ last <= offset + BatchSize
      /\ (last <= offset => Len(listed) <= offset)
    BY <1>0 DEF Links!Periods
<1>2. running /\ page = <<>> /\ UNCHANGED <<listed, used, age, missed>>
    BY DEF Links!ListPage
<1>3. \/ next = <<>> /\ running' = FALSE /\ UNCHANGED <<page, offset>>
      \/ next # <<>> /\ page' = next /\ offset' = offset + Len(next) /\ UNCHANGED running
    BY DEF Links!ListPage, Links!PageAt
<1> HIDE DEF last
<1>4. /\ next \in Seq(File)
      /\ Len(next) = IF offset + 1 <= last THEN last - (offset + 1) + 1 ELSE 0
      /\ \A k \in 1 .. last - (offset + 1) + 1 : next[k] = listed[offset + 1 + k - 1]
    BY <1>0, <1>1, SubSeqProperties
<1> HIDE DEF next
<1>5. /\ Len(next) = IF offset < last THEN last - offset ELSE 0
      /\ \A k \in 1 .. last - offset : next[k] = listed[offset + k]
    <2>1. Len(next) = IF offset < last THEN last - offset ELSE 0
        BY <1>1, <1>4
    <2>2. ASSUME NEW k \in 1 .. last - offset PROVE next[k] = listed[offset + k]
        <3>1. k \in 1 .. last - (offset + 1) + 1 /\ offset + 1 + k - 1 = offset + k
            BY <1>1
        <3> QED BY <1>4, <3>1
    <2> QED BY <2>1, <2>2
<1>6. CASE next = <<>>
    <2>1. Len(listed) <= offset
        BY <1>1, <1>5, <1>6, EmptySeq
    <2>2. Links!Ahead = {}
        BY <1>0, <1>2, <2>1 DEF Links!Ahead, Links!ToSet
    <2>3. \A f \in Links!Present \ missed : age[f] <= KeepFor
        BY <2>2
    <2>4. Young'
        BY <1>2, <2>3 DEF Young
    <2>5. missed' = missed
        BY <1>2
    <2> QED BY <1>2, <1>3, <1>6, <2>3, <2>4, <2>5 DEF Young
<1>7. CASE next # <<>>
    <2>1. offset < last /\ offset' = last /\ page' = next
        BY <1>1, <1>3, <1>4, <1>5, <1>7, EmptySeq
    <2>2. ASSUME NEW k \in offset + 1 .. Len(listed)
          PROVE  listed[k] \in Links!Ahead'
        <3>1. CASE k <= last
            <4>1. k - offset \in 1 .. Len(next) /\ next[k - offset] = listed[k]
                <5>1. k - offset \in 1 .. last - offset /\ offset + (k - offset) = k
                    BY <1>0, <1>1, <3>1
                <5>2. Len(next) = last - offset
                    BY <1>5, <2>1
                <5> QED BY <1>5, <5>1, <5>2
            <4>2. k - offset \in DOMAIN next
                BY <1>4, <4>1, LenProperties
            <4> QED BY <2>1, <4>1, <4>2 DEF Links!Ahead, Links!ToSet
        <3>2. CASE k > last
            <4>1. k \in offset' + 1 .. Len(listed') /\ listed'[k] = listed[k]
                BY <1>0, <1>1, <1>2, <2>1, <3>2
            <4> QED BY <4>1 DEF Links!Ahead
        <3> QED BY <1>1, <3>1, <3>2
    <2>3. Links!Ahead \subseteq Links!Ahead'
        BY <1>2, <2>2 DEF Links!Ahead, Links!ToSet
    <2>4. running' /\ ~Links!Ends
        BY <1>2, <1>3, <1>7 DEF Links!Ends
    <2>5. Young'
        BY <1>2, <2>3, <2>4 DEF Young
    <2>6. page' \in Seq(File) /\ Len(page') <= BatchSize /\ offset' \in Nat
        BY <1>1, <1>4, <1>5, <2>1 DEF Links!Periods
    <2> QED BY <1>2, <2>4, <2>5, <2>6 DEF Young
<1> QED BY <1>6, <1>7

\* The first link of the page is young, renewed or missed afterwards.
LEMMA RenewStep ==
    ASSUME Links!Periods, Links!Inductive, Links!Renew
    PROVE  Links!Inductive'
<1> USE DEF Links!Inductive, Links!TypeOK, Links!Present
<1> DEFINE f == Head(page)
<1>1. running /\ page # <<>> /\ UNCHANGED <<listed, used, offset, running>> /\ page' = Tail(page)
    BY DEF Links!Renew
<1>2. /\ page' \in Seq(File) /\ Len(page') = Len(page) - 1 /\ f = page[1] /\ f \in File
      /\ \A k \in 1 .. Len(page) - 1 : page'[k] = page[k + 1]
    BY <1>1, HeadTailProperties, ElementOfSeq, LenProperties, EmptySeq
<1>3. \/ age[f] <= KeepFor /\ UNCHANGED age /\ missed' = missed \ {f}
      \/ age' = [age EXCEPT ![f] = 0] /\ missed' = missed \ {f}
      \/ missed' = missed \cup {f} /\ UNCHANGED age
    BY DEF Links!Renew, Links!Keep
<1> HIDE DEF f
<1>4. age' \in [File -> 0 .. ValidFor] /\ missed' \subseteq File
      /\ (f \notin missed' => age'[f] <= KeepFor)
      /\ \A g \in File \ {f} : age'[g] = age[g] /\ (g \in missed' <=> g \in missed)
    <2>1. CASE age[f] <= KeepFor /\ UNCHANGED age /\ missed' = missed \ {f}
        BY <1>2, <2>1 DEF Links!Periods
    <2>2. CASE age' = [age EXCEPT ![f] = 0] /\ missed' = missed \ {f}
        BY <1>2, <2>2 DEF Links!Periods
    <2>3. CASE missed' = missed \cup {f} /\ UNCHANGED age
        BY <1>2, <2>3 DEF Links!Periods
    <2> QED BY <1>3, <2>1, <2>2, <2>3
<1>5. Links!Ahead \ {f} \subseteq Links!Ahead'
    <2>1. Links!ToSet(page) \ {f} \subseteq Links!ToSet(page')
        <3>1. DOMAIN page = 1 .. Len(page) /\ DOMAIN page' = 1 .. Len(page) - 1 /\ Len(page) \in Nat
            BY <1>2, LenProperties
        <3>2. ASSUME NEW k \in DOMAIN page, page[k] # f
              PROVE  page[k] \in Links!ToSet(page')
            <4>1. k - 1 \in DOMAIN page' /\ page'[k - 1] = page[k]
                <5>1. k # 1
                    BY <1>2, <3>2
                <5>2. k - 1 \in 1 .. Len(page) - 1 /\ (k - 1) + 1 = k
                    BY <3>1, <5>1
                <5> QED BY <1>2, <3>1, <5>2
            <4> QED BY <4>1 DEF Links!ToSet
        <3> QED BY <3>2 DEF Links!ToSet
    <2>2. After(listed', offset') = After(listed, offset)
        BY <1>1
    <2>3. Links!Ahead' = Links!ToSet(page') \cup After(listed', offset')
        BY AheadIs DEF Links!Ahead, After
    <2> QED BY <2>1, <2>2, <2>3, AheadIs
<1>6. ASSUME NEW g \in Links!Present' \ missed'
      PROVE  \/ age'[g] <= KeepFor
             \/ running' /\ g \in Links!Ahead' /\ age'[g] <= KeepFor + 1
    <2>1. g \in File /\ g \in Links!Present
        BY <1>1 DEF Links!ToSet
    <2>2. CASE g = f
        BY <1>4, <1>6, <2>2
    <2>3. CASE g # f
        <3>1. g \notin missed /\ age'[g] = age[g]
            BY <1>4, <1>6, <2>1, <2>3
        <3> QED BY <1>1, <1>5, <2>1, <2>3, <3>1
    <2> QED BY <2>2, <2>3
<1>7. Len(page') <= BatchSize
    BY <1>2, LenProperties DEF Links!Periods
<1>8. Links!Present' \subseteq used'
    BY <1>1 DEF Links!ToSet
<1> QED BY <1>1, <1>2, <1>4, <1>6, <1>7, <1>8

LEMMA LinksStep ==
    ASSUME Links!Periods, Links!Inductive, [Links!Next]_(Links!vars)
    PROVE  /\ Links!Inductive'
           /\ Links!Ends => \A f \in Links!Present \ missed' : age[f] <= KeepFor
<1>1. CASE UNCHANGED Links!vars
    BY <1>1 DEF Links!vars, Links!Inductive, Links!TypeOK, Links!Present, Links!ToSet,
       Links!Ahead, Links!Ends
<1>2. CASE Links!Upload
    BY <1>2, UploadStep DEF Links!Upload, Links!Ends
<1>3. CASE Links!Delete
    BY <1>3, DeleteStep DEF Links!Delete, Links!Ends
<1>4. CASE Links!Rename
    BY <1>4, RenameStep DEF Links!Rename, Links!Ends
<1>5. CASE Links!WakeUp
    BY <1>5, WakeUpStep DEF Links!WakeUp, Links!Ends
<1>6. CASE Links!Restart
    BY <1>6, RestartStep DEF Links!Restart, Links!Ends
<1>7. CASE Links!ListPage
    BY <1>7, ListPageStep
<1>8. CASE Links!ListFails
    BY <1>8, ListFailsStep
<1>9. CASE Links!Renew
    BY <1>9, RenewStep DEF Links!Renew, Links!Ends
<1> QED BY <1>1, <1>2, <1>3, <1>4, <1>5, <1>6, <1>7, <1>8, <1>9 DEF Links!Next

LEMMA LinksInit == Links!Periods /\ Links!Init => Links!Inductive
<1> SUFFICES ASSUME Links!Periods, Links!Init PROVE Links!Inductive
    OBVIOUS
<1> USE DEF Links!Init
<1>1. listed \in Seq(File) /\ page \in Seq(File) /\ Len(page) = 0
    BY EmptySeq
<1>2. Links!Present = {} /\ Links!IsInjective(listed)
    BY DEF Links!Present, Links!ToSet, Links!IsInjective
<1>3. age \in [File -> 0 .. ValidFor]
    BY DEF Links!Periods
<1>4. Len(page) <= BatchSize
    BY <1>1 DEF Links!Periods
<1>5. Links!TypeOK
    <2> HIDE DEF Links!Init
    <2>1. used = {} /\ offset = 0 /\ running = FALSE /\ missed = {}
        BY DEF Links!Init
    <2> QED BY <1>1, <1>2, <1>3, <1>4, <2>1 DEF Links!TypeOK
<1> QED BY <1>2, <1>5 DEF Links!Inductive

---------------------------------------------------------------------------
(* Schema: versions.                                                       *)

Version == Nat \X Nat

\* The finite sets of Migrator are those of FiniteSets.
LEMMA FiniteIs == \A S : Schema!IsFiniteSet(S) = IsFiniteSet(S)
BY DEF Schema!IsFiniteSet, IsFiniteSet

\* Greater is a strict total order on versions.
LEMMA GreaterTotal ==
    ASSUME NEW v \in Version, NEW w \in Version
    PROVE  /\ ~Schema!Greater(v, v)
           /\ Schema!Greater(v, w) => ~Schema!Greater(w, v)
           /\ v # w => Schema!Greater(v, w) \/ Schema!Greater(w, v)
BY DEF Schema!Greater, Version

\* It is transitive.
LEMMA GreaterTransitive ==
    ASSUME None \notin Version, NEW u \in Version, NEW v \in Version, NEW w \in Version,
           Schema!Greater(u, v), Schema!Greater(v, w)
    PROVE  Schema!Greater(u, w)
BY DEF Schema!Greater, Version

\* Among finitely many versions there is a newest: one with the fewest greater
\* ones has none.
LEMMA NewestExists ==
    ASSUME None \notin Version, NEW S, S \subseteq Version, IsFiniteSet(S), S # {}
    PROVE  Schema!Newest(S) \in S /\ \A w \in S : ~Schema!Greater(w, Schema!Newest(S))
<1> DEFINE Above(v) == {w \in S : Schema!Greater(w, v)}
           Family == {Above(v) : v \in S}
<1>1. IsWellFoundedOn(StrictSubsetOrdering(S), SUBSET S)
    BY FS_StrictSubsetOrderingWellFounded, FS_FiniteSubsetsOfFinite
<1>2. Family \subseteq SUBSET S /\ Family # {}
    OBVIOUS
<1>3. \E A \in Family : \A B \in Family : ~(<<B, A>> \in StrictSubsetOrdering(S))
    <2> HIDE DEF Family
    <2> QED BY <1>1, <1>2, WFMin
<1>4. PICK v \in S : \A w \in S : ~(<<Above(w), Above(v)>> \in StrictSubsetOrdering(S))
    BY <1>3
<1>5. \A w \in S : ~Schema!Greater(w, v)
    <2> SUFFICES ASSUME NEW w \in S, Schema!Greater(w, v)
                 PROVE  FALSE
        OBVIOUS
    <2>1. Above(w) \subseteq Above(v)
        <3> SUFFICES ASSUME NEW u \in S, Schema!Greater(u, w)
                     PROVE  Schema!Greater(u, v)
            OBVIOUS
        <3> QED BY GreaterTransitive
    <2>2. w \in Above(v) /\ w \notin Above(w)
        BY GreaterTotal
    <2>3. <<Above(w), Above(v)>> \in StrictSubsetOrdering(S)
        <3> HIDE DEF Above
        <3>1. Above(w) \in SUBSET S /\ Above(v) \in SUBSET S
            BY DEF Above
        <3>2. Above(w) # Above(v)
            BY <2>2
        <3> QED BY <2>1, <3>1, <3>2 DEF StrictSubsetOrdering
    <2> QED BY <1>4, <2>3
<1> QED BY <1>5 DEF Schema!Newest

\* The versions of finitely many scripts.
LEMMA VersionsOfScripts ==
    ASSUME Schema!ReleasesAndScripts, NEW S \in SUBSET Script
    PROVE  /\ {Schema!VersionOf(s) : s \in S} \subseteq Version
           /\ IsFiniteSet({Schema!VersionOf(s) : s \in S})
<1>1. IsFiniteSet(S)
    BY FS_Subset, FiniteIs DEF Schema!ReleasesAndScripts
<1>2. IsFiniteSet({Schema!VersionOf(s) : s \in S})
    <2> DEFINE f == [s \in S |-> Schema!VersionOf(s)]
               T == {Schema!VersionOf(s) : s \in S}
    <2>1. f \in Surjection(S, T)
        BY DEF Surjection
    <2> HIDE DEF f, T
    <2>2. IsFiniteSet(T)
        BY <1>1, <2>1, FS_Surjection
    <2> QED BY <2>2 DEF T
<1>3. \A s \in S : Schema!VersionOf(s) \in Version
    BY DEF Schema!ReleasesAndScripts, Schema!VersionOf, Version
<1> QED BY <1>2, <1>3

\* The version of a release is of its minor version, and exactly the scripts of
\* later releases are greater.
LEMMA CurrentVersion ==
    ASSUME Schema!ReleasesAndScripts, NEW r \in Nat
    PROVE  /\ Schema!Current(r) \in Version
           /\ \A s \in Script : Schema!Greater(Schema!VersionOf(s),
              Schema!Current(r)) <=> s \notin Schema!Latest(r)
<1> DEFINE own == {t \in Script : t[1] = r}
           S == {<<r, 0>>} \cup {Schema!VersionOf(s) : s \in own}
<1>1. S \subseteq Version /\ IsFiniteSet(S)
    <2>1. /\ {Schema!VersionOf(s) : s \in own} \subseteq Version
          /\ IsFiniteSet({Schema!VersionOf(s) : s \in own})
        BY VersionsOfScripts
    <2>2. IsFiniteSet({<<r, 0>>})
        BY FS_Singleton
    <2>3. <<r, 0>> \in Version
        BY DEF Version
    <2> QED BY <2>1, <2>2, <2>3, FS_Union
<1>2. Schema!Newest(S) \in S /\ \A w \in S : ~Schema!Greater(w, Schema!Newest(S))
    <2> HIDE DEF S
    <2>1. S # {}
        BY DEF S
    <2> QED BY <1>1, <2>1, NewestExists DEF Schema!ReleasesAndScripts, Version
<1>3. Schema!Current(r) = Schema!Newest(S)
    BY DEF Schema!Current
<1>4. \A v \in S : v[1] = r
    BY DEF Schema!VersionOf
<1>5. ASSUME NEW s \in Script
      PROVE  Schema!Greater(Schema!VersionOf(s), Schema!Current(r)) <=> s \notin Schema!Latest(r)
    <2>1. s \in Nat \X Nat /\ Schema!Current(r) \in Version /\ Schema!Current(r)[1] = r
        BY <1>1, <1>2, <1>3, <1>4 DEF Schema!ReleasesAndScripts
    <2>2. CASE s[1] = r
        <3>1. Schema!VersionOf(s) \in S
            BY <2>2
        <3> QED BY <1>2, <1>3, <2>2, <3>1 DEF Schema!Latest
    <2>3. CASE s[1] # r
        BY <2>1, <2>3 DEF Schema!Latest, Schema!Greater, Schema!VersionOf,
           Schema!ReleasesAndScripts, Version
    <2> QED BY <2>2, <2>3
<1> QED BY <1>1, <1>2, <1>3, <1>5
---------------------------------------------------------------------------
(* Schema: the steps.                                                      *)

\* No database, or one of a release that kept a history.
LEMMA SchemaInit ==
    ASSUME Schema!ReleasesAndScripts, Schema!Init
    PROVE  Schema!Inductive
<1> USE DEF Schema!Inductive, Schema!Init
<1>1. IsFiniteSet(history)
    BY FS_EmptySet, FS_Singleton
<1>2. Schema!TypeOK
    <2>1. \A r \in Release : Schema!Current(r) \in Nat \X Nat
        BY CurrentVersion DEF Schema!ReleasesAndScripts, Version
    <2>2. applied \in (SUBSET Script) \cup {None} /\ version \in (Nat \X Nat) \cup {None}
        BY <2>1 DEF Schema!Latest
    <2>3. history \subseteq Nat \X Nat
        BY DEF Schema!ReleasesAndScripts
    <2> QED BY <2>2, <2>3 DEF Schema!TypeOK, Schema!Stage
<1>3. Schema!HistoryHasScripts
    BY <1>1, FiniteIs DEF Schema!HistoryHasScripts, Schema!ReleasesAndScripts
<1>4. Schema!VersionNotAhead
    <2>1. CASE version = None
        BY <2>1 DEF Schema!VersionNotAhead
    <2>2. CASE version # None
        <3>1. PICK r \in Release : applied = Schema!Latest(r) /\ version = Schema!Current(r)
            BY <2>2
        <3>2. r \in Nat /\ applied \in SUBSET Script
            BY <3>1 DEF Schema!ReleasesAndScripts, Schema!Latest
        <3> HIDE DEF Schema!Init
        <3> QED BY <3>1, <3>2, CurrentVersion DEF Schema!VersionNotAhead, Schema!ReleasesAndScripts
    <2> QED BY <2>1, <2>2
<1>5. Schema!Reached /\ Schema!VersionCountsAll
    BY DEF Schema!Reached, Schema!VersionCountsAll, Schema!Behind
<1> QED BY <1>2, <1>3, <1>4, <1>5

\* Nothing is known yet of a start but its release.
LEMMA SchemaStartStep ==
    ASSUME Schema!ReleasesAndScripts, Schema!Inductive, Schema!Start
    PROVE  Schema!Inductive'
BY DEF Schema!Inductive, Schema!Start, Schema!At, Schema!TypeOK, Schema!VersionNotAhead,
   Schema!Reached, Schema!HistoryHasScripts,
   Schema!VersionCountsAll, Schema!Behind, Schema!Stage, Schema!ReleasesAndScripts

\* A start goes on with the schema there is or creates one.
LEMMA CheckStep ==
    ASSUME Schema!ReleasesAndScripts, Schema!Inductive, Schema!Check
    PROVE  Schema!Inductive'
BY DEF Schema!Inductive, Schema!Check, Schema!At, Schema!To, Schema!TypeOK,
   Schema!VersionNotAhead, Schema!Reached, Schema!HistoryHasScripts,
   Schema!VersionCountsAll, Schema!Behind, Schema!Stage,
   Schema!ReleasesAndScripts

\* A schema that was not there has had no version, so none is ahead of it.
LEMMA SchemaCreateStep ==
    ASSUME Schema!ReleasesAndScripts, Schema!Inductive, Schema!Create
    PROVE  Schema!Inductive'
<1>1. Schema!Latest(release) \in SUBSET Script
    BY DEF Schema!Latest
<1> QED BY <1>1 DEF Schema!Inductive, Schema!Create, Schema!At, Schema!To, Schema!TypeOK,
           Schema!VersionNotAhead, Schema!Reached, Schema!HistoryHasScripts,
   Schema!VersionCountsAll, Schema!Behind, Schema!Stage,
           Schema!ReleasesAndScripts, Schema!Latest

\* LATEST.sql has the scripts that the version of the release counts.
LEMMA StampStep ==
    ASSUME Schema!ReleasesAndScripts, Schema!Inductive, Schema!Stamp
    PROVE  Schema!Inductive'
<1>1. release \in Nat
    BY DEF Schema!Inductive, Schema!TypeOK, Schema!Stamp, Schema!At,
       Schema!ReleasesAndScripts
<1>2. Schema!Current(release) \in Version
    BY <1>1, CurrentVersion
<1>3. \A s \in Script : Schema!Greater(Schema!VersionOf(s),
   Schema!Current(release)) <=> s \notin Schema!Latest(release)
    BY <1>1, CurrentVersion
<1>4. applied # None /\ applied = Schema!Latest(release)
    BY DEF Schema!Inductive, Schema!Reached, Schema!TypeOK, Schema!Stamp, Schema!At,
       Schema!ReleasesAndScripts, Schema!Latest
<1> QED BY <1>1, <1>2, <1>3, <1>4 DEF Schema!Inductive, Schema!Stamp, Schema!At, Schema!To,
           Schema!TypeOK, Schema!VersionNotAhead, Schema!Reached, Schema!HistoryHasScripts,
           Schema!VersionCountsAll, Schema!Behind, Schema!Stage, Version

\* The history gets another version of a minor version it has, for which there
\* are scripts: this stage does not fail.
LEMMA NormalizeStep ==
    ASSUME Schema!ReleasesAndScripts, Schema!Inductive, Schema!Normalize
    PROVE  Schema!Inductive'
<1> DEFINE last == Schema!Newest(history)
           scripts == {s \in Script : s[1] = last[1]}
           versions == {Schema!VersionOf(s) : s \in scripts}
           full == Schema!Newest(versions)
<1>1. CASE history = {} \/ last[1] > Normalized
    BY <1>1 DEF Schema!Inductive, Schema!Normalize, Schema!At, Schema!To, Schema!TypeOK,
       Schema!VersionNotAhead, Schema!Reached, Schema!HistoryHasScripts, Schema!Stage,
           Schema!VersionCountsAll, Schema!Behind
<1>2. CASE history # {} /\ ~(last[1] > Normalized)
    <2>1. last \in history /\ last \in Version
        BY <1>2, NewestExists, FiniteIs DEF Schema!Inductive, Schema!TypeOK,
           Schema!HistoryHasScripts, Schema!ReleasesAndScripts, Version
    <2>2. PICK s \in Script : s[1] = last[1]
        BY <1>2, <2>1 DEF Schema!Inductive, Schema!HistoryHasScripts, Version,
           Schema!ReleasesAndScripts
    <2>3. full \in versions /\ full \in Version
        <3>1. versions \subseteq Version /\ IsFiniteSet(versions)
            BY VersionsOfScripts
        <3>2. versions # {}
            BY <2>2
        <3> HIDE DEF versions
        <3> QED BY <3>1, <3>2, NewestExists DEF Schema!ReleasesAndScripts, Version
    <2>4. full[1] = last[1]
        BY <2>3 DEF Schema!VersionOf
    <2>5. history' \in {history, history \cup {full}} /\ stage' = "carry"
        BY <1>2, <2>2 DEF Schema!Normalize, Schema!To
    <2>6. IsFiniteSet(history')
        BY <2>5, FS_AddElement, FiniteIs DEF Schema!Inductive, Schema!HistoryHasScripts
    <2>7. Schema!HistoryHasScripts'
        BY <2>1, <2>4, <2>5, <2>6, <2>2, FiniteIs
           DEF Schema!Inductive, Schema!HistoryHasScripts
    <2>8. Schema!VersionCountsAll'
        BY <1>2, <2>5 DEF Schema!VersionCountsAll
    <2> HIDE DEF last, full
    <2> QED BY <2>3, <2>5, <2>7, <2>8 DEF Schema!Inductive, Schema!Normalize, Schema!At,
               Schema!To, Schema!TypeOK, Schema!VersionNotAhead, Schema!Reached,
               Schema!Stage, Version
<1> QED BY <1>1, <1>2

\* The setting is replaced by a version that is not greater, which counts fewer
\* scripts.
LEMMA CarryStep ==
    ASSUME Schema!ReleasesAndScripts, Schema!Inductive, Schema!Carry
    PROVE  Schema!Inductive'
<1>1. CASE version' = version
    BY <1>1 DEF Schema!Inductive, Schema!Carry, Schema!At, Schema!To, Schema!TypeOK,
       Schema!VersionNotAhead, Schema!Reached, Schema!HistoryHasScripts, Schema!Stage,
           Schema!VersionCountsAll, Schema!Behind
<1>2. CASE version' # version
    <2>1. /\ history # {} /\ version' = Schema!Newest(history)
          /\ ~Schema!Greater(Schema!Newest(history), version)
        BY <1>2 DEF Schema!Carry
    <2>2. Schema!Newest(history) \in Version
        BY <2>1, NewestExists, FiniteIs DEF Schema!Inductive, Schema!TypeOK,
           Schema!HistoryHasScripts, Schema!ReleasesAndScripts, Version
    <2>3. version \in Version
        BY <2>1, <2>2 DEF Schema!Inductive, Schema!TypeOK, Schema!Greater, Version,
           Schema!ReleasesAndScripts
    <2>4. \A s \in Script :
            Schema!Greater(Schema!VersionOf(s), version) => Schema!Greater(Schema!VersionOf(s), version')
        <3>1. \A s \in Script : Schema!VersionOf(s) \in Version
            BY DEF Schema!ReleasesAndScripts, Schema!VersionOf, Version
        <3> QED BY <2>1, <2>2, <2>3, <3>1, GreaterTotal, GreaterTransitive DEF
                   Schema!ReleasesAndScripts, Version
    <2> QED BY <2>1, <2>2, <2>3, <2>4 DEF Schema!Inductive, Schema!Carry, Schema!At,
               Schema!To, Schema!TypeOK, Schema!VersionNotAhead, Schema!Reached,
               Schema!HistoryHasScripts,
   Schema!VersionCountsAll, Schema!Behind, Schema!Stage, Version, Schema!ReleasesAndScripts
<1> QED BY <1>1, <1>2

\* A release that serves at once finds its own version.
LEMMA CompareStep ==
    ASSUME Schema!ReleasesAndScripts, Schema!Inductive, Schema!Compare
    PROVE  Schema!Inductive'
<1>1. release \in Nat /\ Schema!Current(release) \in Version
    BY CurrentVersion DEF Schema!Inductive, Schema!TypeOK, Schema!Compare, Schema!At,
       Schema!ReleasesAndScripts
<1>2. ASSUME ~Schema!Greater(version, Schema!Current(release)),
             ~Schema!Greater(Schema!Current(release), version)
      PROVE  version = Schema!Current(release)
    BY <1>1, <1>2, GreaterTotal DEF Schema!Inductive, Schema!TypeOK, Schema!Greater,
       Schema!ReleasesAndScripts, Version
<1> QED BY <1>1, <1>2 DEF Schema!Inductive, Schema!Compare, Schema!At, Schema!To,
           Schema!TypeOK, Schema!VersionNotAhead, Schema!Reached, Schema!HistoryHasScripts,
           Schema!VersionCountsAll, Schema!Behind, Schema!Stage

\* The scripts that are run, with those the setting counts, are the release's; one
\* that cannot be run again was run and is not counted.
LEMMA ApplyStep ==
    ASSUME Schema!ReleasesAndScripts, Schema!Inductive, Schema!Apply
    PROVE  Schema!Inductive'
<1>1. release \in Nat /\ Schema!Current(release) \in Version
    BY CurrentVersion DEF Schema!Inductive, Schema!TypeOK, Schema!Apply, Schema!At,
       Schema!ReleasesAndScripts
<1>2. applied \in SUBSET Script /\ Schema!Pending \in SUBSET Script
    BY DEF Schema!Inductive, Schema!TypeOK, Schema!Reached, Schema!Apply, Schema!At,
       Schema!Pending
<1>3. CASE Schema!Pending \cap applied \subseteq Repeatable
    <2>1. Schema!Latest(release) \subseteq applied \cup Schema!Pending
        <3> SUFFICES ASSUME NEW s \in Schema!Latest(release), s \notin applied
                     PROVE  s \in Schema!Pending
            OBVIOUS
        <3>1. s \in Script /\ ~Schema!Greater(Schema!VersionOf(s), Schema!Current(release))
            BY <1>1, CurrentVersion DEF Schema!Latest
        <3>2. Schema!VersionOf(s) \in Version
            BY <3>1 DEF Schema!ReleasesAndScripts, Schema!VersionOf, Version
        <3>3. Schema!Greater(Schema!VersionOf(s), version)
            BY <3>1, <3>2 DEF Schema!Inductive, Schema!VersionNotAhead, Schema!Greater,
               Schema!ReleasesAndScripts, Version
        <3> QED BY <3>1, <3>3 DEF Schema!Pending
    <2>2. applied' = applied \cup Schema!Pending /\ applied' # None
        BY <1>2, <1>3 DEF Schema!Apply, Schema!ReleasesAndScripts
    <2>3. Schema!VersionCountsAll'
        <3> SUFFICES ASSUME ~torn, history = {}
                     PROVE  applied' = Schema!Latest(release)
            BY <1>3 DEF Schema!VersionCountsAll, Schema!Apply, Schema!To
        <3>1. \A s \in applied : ~Schema!Greater(Schema!VersionOf(s), version)
            BY DEF Schema!Inductive, Schema!Reached, Schema!VersionCountsAll, Schema!Behind,
               Schema!Apply, Schema!At
        <3>2. ASSUME NEW s \in applied PROVE s \in Schema!Latest(release)
            <4>1. s \in Script /\ Schema!VersionOf(s) \in Version
                BY <1>2 DEF Schema!ReleasesAndScripts, Schema!VersionOf, Version
            <4>2. version \in Version /\ Schema!Greater(Schema!Current(release), version)
                BY <3>1, <4>1 DEF Schema!Inductive, Schema!TypeOK, Schema!Reached, Schema!Apply,
                   Schema!At, Schema!Greater, Schema!ReleasesAndScripts, Version
            <4>3. ~Schema!Greater(Schema!VersionOf(s), Schema!Current(release))
                BY <1>1, <3>1, <4>1, <4>2, GreaterTransitive DEF Schema!ReleasesAndScripts, Version
            <4> QED BY <1>1, <4>1, <4>3, CurrentVersion
        <3>3. ASSUME NEW s \in Schema!Pending PROVE s \in Schema!Latest(release)
            BY <1>1, CurrentVersion DEF Schema!Pending
        <3> QED BY <2>1, <2>2, <3>2, <3>3
    <2> QED BY <1>2, <1>3, <2>1, <2>2, <2>3 DEF Schema!Inductive, Schema!Apply, Schema!At,
               Schema!To, Schema!TypeOK, Schema!VersionNotAhead, Schema!Reached,
               Schema!HistoryHasScripts, Schema!Stage
<1>4. CASE ~(Schema!Pending \cap applied \subseteq Repeatable)
    <2>1. Schema!Behind
        BY <1>2, <1>4 DEF Schema!Behind, Schema!Pending, Schema!Inductive, Schema!Reached,
           Schema!Apply, Schema!At
    <2> QED BY <1>4, <2>1 DEF Schema!Inductive, Schema!Apply, Schema!At, Schema!To,
               Schema!TypeOK, Schema!VersionNotAhead, Schema!Reached,
               Schema!HistoryHasScripts,
   Schema!VersionCountsAll, Schema!Behind, Schema!Stage, Schema!Behind
<1> QED BY <1>3, <1>4

\* The version saved counts scripts that were run.
LEMMA RecordStep ==
    ASSUME Schema!ReleasesAndScripts, Schema!Inductive, Schema!Record
    PROVE  Schema!Inductive'
<1>1. release \in Nat
    BY DEF Schema!Inductive, Schema!TypeOK, Schema!Record, Schema!At,
       Schema!ReleasesAndScripts
<1>2. Schema!Current(release) \in Version
    BY <1>1, CurrentVersion
<1>3. \A s \in Script : Schema!Greater(Schema!VersionOf(s),
   Schema!Current(release)) <=> s \notin Schema!Latest(release)
    BY <1>1, CurrentVersion
<1> QED BY <1>1, <1>2, <1>3 DEF Schema!Inductive, Schema!Record, Schema!At, Schema!To,
           Schema!TypeOK, Schema!VersionNotAhead, Schema!Reached, Schema!HistoryHasScripts,
           Schema!VersionCountsAll, Schema!Behind, Schema!Stage, Version

\* What is on disk is left as it is.
LEMMA StopStep ==
    ASSUME Schema!ReleasesAndScripts, Schema!Inductive, Schema!Stop
    PROVE  Schema!Inductive'
BY DEF Schema!Inductive, Schema!Stop, Schema!TypeOK, Schema!VersionNotAhead,
   Schema!Reached, Schema!HistoryHasScripts, Schema!Stage,
           Schema!VersionCountsAll, Schema!Behind

\* The invariant is inductive.
LEMMA SchemaStep ==
    ASSUME Schema!ReleasesAndScripts, Schema!Inductive, [Schema!Next]_(Schema!vars)
    PROVE  Schema!Inductive'
<1>1. CASE UNCHANGED Schema!vars
    BY <1>1 DEF Schema!vars, Schema!Inductive, Schema!TypeOK, Schema!VersionNotAhead,
       Schema!Reached, Schema!HistoryHasScripts, Schema!VersionCountsAll, Schema!Behind
<1> QED BY <1>1, SchemaStartStep, CheckStep, SchemaCreateStep, StampStep, NormalizeStep,
           CarryStep, CompareStep, ApplyStep, RecordStep, StopStep DEF Schema!Next

---------------------------------------------------------------------------
(* The parts next to one another.                                          *)

\* A step of the server is one of a part, which the others do not notice.
LEMMA EachPart ==
    Spec => /\ Accounts!UsersSpec
            /\ Attachments!Spec
            /\ Links!Spec
            /\ Schema!Spec
<1>1. Init => Accounts!UsersInit /\ Attachments!Init /\ Links!Init /\ Schema!Init
    BY DEF Init
<1>2. [Next]_vars => /\ [Accounts!UsersNext]_(Accounts!userVars)
                     /\ [Attachments!Next]_(Attachments!vars)
                     /\ [Links!Next]_(Links!vars)
                     /\ [Schema!Next]_(Schema!vars)
    BY DEF Next, vars, accounts, attachments, links, schema, Accounts!userVars,
       Attachments!vars, Links!vars, Schema!vars
<1> QED
    BY <1>1, <1>2, PTL DEF Spec, Accounts!UsersSpec, Attachments!Spec, Links!Spec, Schema!Spec

LEMMA LinksInductive == Links!Spec => []Links!Inductive
<1>1. Links!Init => Links!Inductive
    BY LinksAssumption, LinksInit
<1>2. Links!Inductive /\ [Links!Next]_(Links!vars) => Links!Inductive'
    BY LinksAssumption, LinksStep
<1> QED BY <1>1, <1>2, PTL DEF Links!Spec

\* Wherever a server is stopped and whichever release is started next, what is
\* known of the schema, its version and the history holds.
LEMMA SchemaInductive == Schema!Spec => []Schema!Inductive
<1>1. Schema!Init => Schema!Inductive
    BY SchemaAssumption, SchemaInit
<1>2. Schema!Inductive /\ [Schema!Next]_(Schema!vars) => Schema!Inductive'
    BY SchemaAssumption, SchemaStep
<1> QED BY <1>1, <1>2, PTL DEF Schema!Spec

\* The inductive invariant of every part, in every state of the server.
THEOREM AlwaysInductive == Spec => []Inductive
<1>1. Accounts!UsersSpec => []Accounts!Inductive
    BY AccountsAssumption, Accounts!AlwaysInductive
<1>2. Attachments!Spec => []Attachments!Inductive
    BY AttachmentsAssumption, Attachments!AlwaysInductive
<1>3. /\ Accounts!Inductive
      /\ Attachments!Inductive
      /\ Links!Inductive
      /\ Schema!Inductive
      => Inductive
    BY DEF Inductive
<1> QED BY <1>1, <1>2, <1>3, EachPart, LinksInductive, SchemaInductive, PTL

\* A user who was changed or deleted is not accepted from the cache as before
\* (Store.userCache).
THEOREM CacheFollows == Spec => []CacheFollowsTable
<1>1. Accounts!UsersSpec => []Accounts!CacheFollowsTable
    BY AccountsAssumption, Accounts!CacheFollows
<1>2. Accounts!CacheFollowsTable => CacheFollowsTable
    BY DEF CacheFollowsTable
<1> QED BY <1>1, <1>2, EachPart, PTL

\* Sign-up makes one host, unless two run into each other (CreateUser).
THEOREM FirstHost == Spec => []OneFirstHost
<1>1. Accounts!UsersSpec => []Accounts!OneFirstHost
    BY AccountsAssumption, Accounts!FirstHost
<1>2. Accounts!OneFirstHost => OneFirstHost
    BY DEF OneFirstHost
<1> QED BY <1>1, <1>2, EachPart, PTL

\* A row on disk with a path of its own has its file once no request runs
\* (Store.DeleteAttachment).
THEOREM FilesKept == Spec => []RowsHaveFiles
<1>1. Attachments!Spec => []Attachments!RowsHaveFiles
    BY AttachmentsAssumption, Attachments!FilesKept
<1>2. Attachments!RowsHaveFiles => RowsHaveFiles
    BY DEF RowsHaveFiles
<1> QED BY <1>1, <1>2, EachPart, PTL

\* What is served was uploaded under that name, or saved to the same path
\* (GetAttachmentBinary).
THEOREM OwnServed == Spec => ServedIsOwn
<1>1. Attachments!Spec => Attachments!ServedIsOwn
    BY AttachmentsAssumption, Attachments!OwnServed
<1> QED BY <1>1, EachPart, PTL DEF ServedIsOwn

\* A link is renewed before it expires (CheckAndPresign), unless a pass missed it:
\* it was moved past the offset or could not be signed, or the pass was given up,
\* broken off or not begun in time.
THEOREM LinksLive == Spec => []NeverExpired
<1>1. ASSUME Links!Inductive, NEW f \in Links!Present \ missed
      PROVE  age[f] < ValidFor
    <2>1. age[f] \in Nat
        BY <1>1 DEF Links!Inductive, Links!TypeOK, Links!Present, Links!ToSet
    <2>2. age[f] <= KeepFor + 1
        BY <1>1, <2>1, LinksAssumption DEF Links!Inductive, Links!Periods
    <2> QED BY <2>1, <2>2, LinksAssumption DEF Links!Periods
<1>2. Links!Inductive => NeverExpired
    BY <1>1 DEF NeverExpired, Links!NeverExpired
<1> QED BY <1>2, EachPart, LinksInductive, PTL

\* A pass of CheckAndPresign renews every link that would not live to the next but
\* one, except those it missed.
THEOREM LinksReached == Spec => PassReachesAll
<1> DEFINE Reached == Links!Ends => \A f \in Links!Present \ missed' : age[f] <= KeepFor
<1>1. Links!Inductive /\ [Links!Next]_(Links!vars) => Reached
    BY LinksAssumption, LinksStep
<1>2. Links!Spec => [][Reached]_(Links!vars)
    BY <1>1, LinksInductive, PTL DEF Links!Spec
<1> QED BY <1>2, EachPart, PTL DEF PassReachesAll, Links!PassReachesAll

\* The version on record counts no script that was not run (Store.Migrate,
\* updateCurrentSchemaVersion).
THEOREM VersionHolds == Spec => []VersionNotAhead
<1>1. Schema!Inductive => VersionNotAhead
    BY DEF Schema!Inductive, VersionNotAhead
<1> QED BY <1>1, EachPart, SchemaInductive, PTL

\* A release serves with the schema it was written for and no other, or is refused,
\* unless the version is behind the schema (Store.Migrate).
THEOREM SchemaFits == Spec => []ServedSchemaFits
<1>1. ASSUME Schema!Inductive, stage = "serving", ~Schema!Behind
      PROVE  applied = Schema!Latest(release)
    <2> USE SchemaAssumption
    <2>1. release \in Nat /\ version = Schema!Current(release)
        BY <1>1 DEF Schema!Inductive, Schema!TypeOK, Schema!Reached, Schema!ReleasesAndScripts
    <2>2. version \in Version /\ version # None
        BY <2>1, CurrentVersion DEF Schema!ReleasesAndScripts, Version
    <2>3. \A s \in Script :
            Schema!Greater(Schema!VersionOf(s), version) <=> s \notin Schema!Latest(release)
        BY <2>1, CurrentVersion
    <2>4. applied \in SUBSET Script /\ applied # None
        BY <1>1, <2>2 DEF Schema!Inductive, Schema!TypeOK, Schema!VersionNotAhead
    <2>5. Schema!Latest(release) \subseteq applied
        BY <1>1, <2>2, <2>3 DEF Schema!Inductive, Schema!VersionNotAhead, Schema!Latest
    <2>6. applied \subseteq Schema!Latest(release)
        BY <1>1, <2>3, <2>4 DEF Schema!Behind
    <2> QED BY <2>5, <2>6
<1>2. Schema!Inductive => ServedSchemaFits
    BY <1>1 DEF ServedSchemaFits, Schema!ServedSchemaFits
<1> QED BY <1>2, EachPart, SchemaInductive, PTL

\* No start fails but after a start that was stopped between a schema and its
\* version, or on a database with a migration history (Store.Migrate).
THEOREM FailuresExplained == Spec => []FailsOnlyTornOrOld
<1>1. Schema!Inductive => FailsOnlyTornOrOld
    BY DEF Schema!Inductive, Schema!Reached, Schema!VersionCountsAll, FailsOnlyTornOrOld,
       Schema!FailsOnlyTornOrOld
<1> QED BY <1>1, EachPart, SchemaInductive, PTL
=============================================================================
