------------------------- MODULE SettingTextProofs --------------------------
(***************************************************************************)
(* What FromStr makes of what Display writes, for texts of any length and  *)
(* any words: the round trip of each type of setting.                      *)
(***************************************************************************)
EXTENDS SettingText, SequenceTheorems, TLAPS

-----------------------------------------------------------------------------
(***************************************************************************)
(* Words                                                                   *)
(***************************************************************************)
\* A keyword is written in lower case.
LEMMA LowerKeyword ==
    ASSUME NEW w \in Keywords
    PROVE  Lower(w) = w
BY SettingTextAssumption DEF Lower

LEMMA LowerDigits ==
    ASSUME NEW w \in DOMAIN NumberOf
    PROVE  Lower(w) = w
BY SettingTextAssumption DEF Lower

\* What Display writes for a number is read as this number.
LEMMA DigitsAreRead ==
    ASSUME NEW n \in DOMAIN Digits
    PROVE  /\ Digits[n] \in STRING /\ Digits[n] \notin Keywords
           /\ n \in Int /\ 0 <= n /\ n <= U32Max
           /\ \A max \in Int : n <= max => IsNumber(<<Digits[n]>>, max)
           /\ Number(<<Digits[n]>>) = n
BY SettingTextAssumption DEF IsNumber, Number

\* What is read as a number can be written.
LEMMA NumberCanBeWritten ==
    ASSUME NEW t, NEW max \in Int, max <= U32Max, IsNumber(t, max)
    PROVE  Number(t) \in DOMAIN Digits /\ Number(t) <= max
<1>1. t[1] \in DOMAIN NumberOf /\ Number(t) \in Nat /\ Number(t) <= max
  BY SettingTextAssumption DEF IsNumber, Number
<1>2. Number(t) \in {NumberOf[w] : w \in DOMAIN NumberOf}
  BY <1>1 DEF Number
<1>3. Number(t) \in 0..U32Max
  BY <1>1, SettingTextAssumption
<1>. QED
  BY <1>1, <1>2, <1>3, SettingTextAssumption

-----------------------------------------------------------------------------
(***************************************************************************)
(* The parts of a text                                                     *)
(***************************************************************************)
\* The rest of a text is the text that comes after its head.
LEMMA RestOfConcat ==
    ASSUME NEW s \in Seq(STRING), NEW r \in Seq(STRING), NEW i \in Int, i = Len(s) + 1
    PROVE  From(s \o r, i) = r
<1>. DEFINE t == s \o r
            u == SubSeq(t, i, Len(t))
<1>1. /\ t \in Seq(STRING) /\ Len(t) = Len(s) + Len(r)
      /\ \A j \in 1..Len(s) + Len(r) : t[j] = IF j <= Len(s) THEN s[j] ELSE r[j - Len(s)]
  BY ConcatProperties
<1>2. Len(s) \in Nat /\ Len(r) \in Nat
  BY LenProperties
<1>. HIDE DEF t
<1>3. \A j \in i..Len(t) : t[j] \in STRING
  BY <1>1, <1>2, ElementOfSeq
<1>4. /\ u \in Seq(STRING) /\ Len(u) = Len(r)
      /\ \A j \in 1..Len(u) : u[j] = t[i + j - 1]
  <2>1. /\ u \in Seq(STRING) /\ Len(u) = IF i <= Len(t) THEN Len(t) - i + 1 ELSE 0
        /\ \A j \in 1..Len(t) - i + 1 : u[j] = t[i + j - 1]
    BY <1>1, <1>2, <1>3, SubSeqProperties
  <2>. QED
    BY <2>1, <1>1, <1>2
<1>5. ASSUME NEW j \in 1..Len(u) PROVE u[j] = r[j]
  <2>1. j \in Int /\ i + j - 1 \in 1..Len(s) + Len(r) /\ ~ (i + j - 1 <= Len(s))
    BY <1>2, <1>4
  <2>2. (i + j - 1) - Len(s) = j
    BY <1>2, <2>1
  <2>. QED
    BY <1>1, <1>4, <2>1, <2>2
<1>6. u = r
  BY <1>4, <1>5, SeqEqual
<1>. QED
  BY <1>6 DEF From, t

\* A text without a colon, a colon, and any text are split there.
LEMMA SplitOfJoined ==
    ASSUME NEW s \in Seq(STRING), ~Splits(s), NEW r \in Seq(STRING)
    PROVE  LET t == (s \o <<":">>) \o r
           IN  t \in Seq(STRING) /\ Splits(t) /\ Before(t) = s /\ After(t) = r
<1>. DEFINE h == s \o <<":">>
            t == h \o r
            I == {i \in 1..Len(t) : t[i] = ":"}
            k == Len(s) + 1
<1>1. Len(s) \in Nat /\ Len(r) \in Nat /\ <<":">> \in Seq(STRING) /\ Len(<<":">>) = 1
  <2>1. Len(s) \in Nat /\ Len(r) \in Nat
    BY LenProperties
  <2>2. ":" \in STRING
    BY SettingTextAssumption DEF Keywords
  <2>. QED
    BY <2>1, <2>2
<1>2. /\ h \in Seq(STRING) /\ Len(h) = k
      /\ \A j \in 1..k : h[j] = IF j <= Len(s) THEN s[j] ELSE ":"
  <2>1. /\ h \in Seq(STRING) /\ Len(h) = Len(s) + 1
        /\ \A j \in 1..Len(s) + 1 : h[j] = IF j <= Len(s) THEN s[j] ELSE <<":">>[j - Len(s)]
    BY <1>1, ConcatProperties
  <2>. QED
    BY <1>1, <2>1
<1>. HIDE DEF h
<1>3. /\ t \in Seq(STRING) /\ Len(t) = k + Len(r)
      /\ \A j \in 1..k : t[j] = h[j]
  <2>1. /\ t \in Seq(STRING) /\ Len(t) = Len(h) + Len(r)
        /\ \A j \in 1..Len(h) + Len(r) : t[j] = IF j <= Len(h) THEN h[j] ELSE r[j - Len(h)]
    BY <1>2, ConcatProperties
  <2>. QED
    BY <1>1, <1>2, <2>1
<1>4. After(t) = From(t, k + 1) => After(t) = r
  BY <1>1, <1>2, RestOfConcat
<1>. HIDE DEF t
<1>5. k \in I /\ \A i \in I : k <= i
  <2>1. k \in 1..Len(t) /\ t[k] = ":"
    BY <1>1, <1>2, <1>3
  <2>2. ASSUME NEW i \in 1..Len(t), t[i] = ":" PROVE k <= i
    <3>. SUFFICES ASSUME i < k PROVE FALSE
      BY <1>1
    <3>1. i \in 1..Len(s) /\ t[i] = s[i]
      BY <1>1, <1>2, <1>3
    <3>. QED
      BY <2>2, <3>1 DEF Splits
  <2>. QED
    BY <2>1, <2>2
<1>6. Splits(t) /\ FirstColon(t) = k
  <2>1. I \subseteq Int /\ FirstColon(t) = Min(I)
    BY DEF FirstColon
  <2>2. Min(I) = k
    <3>. HIDE DEF I, k
    <3>1. \A i \in I : (\A j \in I : i <= j) => i = k
      BY <1>5, <2>1
    <3>. QED
      BY <1>5, <3>1 DEF Min
  <2>. QED
    BY <1>5, <2>1, <2>2 DEF Splits
<1>7. SubSeq(t, 1, k - 1) = s
  <2>. DEFINE u == SubSeq(t, 1, k - 1)
  <2>1. ASSUME NEW j \in 1..(k - 1) PROVE t[j] = s[j] /\ s[j] \in STRING
    <3>1. j \in 1..k /\ j \in 1..Len(s) /\ j <= Len(s)
      BY <1>1
    <3>2. t[j] = h[j] /\ h[j] = s[j]
      BY <1>2, <1>3, <3>1
    <3>3. s[j] \in STRING
      BY <3>1, ElementOfSeq
    <3>. QED
      BY <3>2, <3>3
  <2>2. /\ u \in Seq(STRING) /\ Len(u) = IF 1 <= k - 1 THEN k - 1 - 1 + 1 ELSE 0
        /\ \A j \in 1..(k - 1 - 1 + 1) : u[j] = t[1 + j - 1]
    BY <1>1, <2>1, SubSeqProperties
  <2>. HIDE DEF u
  <2>3. Len(u) = Len(s) /\ \A j \in 1..Len(u) : u[j] = s[j]
    BY <1>1, <2>1, <2>2
  <2>. QED
    BY <2>2, <2>3, SeqEqual DEF u
<1>8. Before(t) = s /\ After(t) = From(t, k + 1)
  BY <1>6, <1>7 DEF Before, After
<1>. QED
  BY <1>3, <1>4, <1>6, <1>8 DEF t, h

\* Short texts.
LEMMA Tuples ==
    ASSUME NEW S, NEW a \in S, NEW b \in S
    PROVE  /\ <<a>> \in Seq(S) /\ Len(<<a>>) = 1 /\ <<a>>[1] = a
           /\ <<a, b>> \in Seq(S) /\ Len(<<a, b>>) = 2 /\ <<a, b>>[1] = a /\ <<a, b>>[2] = b
OBVIOUS

\* A word before a text.
LEMMA Headed ==
    ASSUME NEW w \in STRING, NEW r \in Seq(STRING)
    PROVE  LET t == <<w>> \o r
           IN  /\ t \in Seq(STRING) /\ Len(t) = 1 + Len(r) /\ t # <<>> /\ t[1] = w
               /\ From(t, 2) = r
<1>. DEFINE s == <<w>>
            t == s \o r
<1>1. s \in Seq(STRING) /\ Len(s) = 1 /\ s[1] = w
  BY Tuples
<1>. HIDE DEF s
<1>2. /\ t \in Seq(STRING) /\ Len(t) = Len(s) + Len(r)
      /\ \A i \in 1 .. Len(s) + Len(r) : t[i] = IF i <= Len(s) THEN s[i] ELSE r[i - Len(s)]
  BY <1>1, ConcatProperties
<1>3. From(t, 2) = r
  <2>1. 2 \in Int /\ 2 = Len(s) + 1
    BY <1>1
  <2>. QED
    BY <1>1, <2>1, RestOfConcat
<1>. HIDE DEF t
<1>4. Len(r) \in Nat
  BY LenProperties
<1>5. /\ t \in Seq(STRING) /\ Len(t) = 1 + Len(r) /\ t[1] = w
  <2>1. 1 \in 1..Len(s) + Len(r) /\ 1 <= Len(s)
    BY <1>1, <1>4
  <2>. QED
    BY <1>1, <1>2, <2>1
<1>6. t # <<>>
  <2>1. Len(t) # 0
    BY <1>4, <1>5
  <2>. QED
    BY <2>1, EmptySeq
<1>. QED
  BY <1>3, <1>5, <1>6 DEF t, s

\* A word and a colon before a text.
LEMMA LabelledText ==
    ASSUME NEW w \in STRING, NEW r \in Seq(STRING)
    PROVE  LET t == Labelled(w, r)
           IN  /\ t \in Seq(STRING) /\ Len(t) = 2 + Len(r) /\ t # <<>> /\ t[1] = w /\ t[2] = ":"
               /\ \A i \in 1..Len(r) : t[i + 2] = r[i]
               /\ From(t, 3) = r
<1>. DEFINE s == <<w, ":">>
            t == s \o r
<1>1. s \in Seq(STRING) /\ Len(s) = 2 /\ s[1] = w /\ s[2] = ":"
  <2>1. ":" \in STRING
    BY SettingTextAssumption DEF Keywords
  <2>. QED
    BY <2>1, Tuples
<1>. HIDE DEF s
<1>2. /\ t \in Seq(STRING) /\ Len(t) = Len(s) + Len(r)
      /\ \A i \in 1 .. Len(s) + Len(r) : t[i] = IF i <= Len(s) THEN s[i] ELSE r[i - Len(s)]
  BY <1>1, ConcatProperties
<1>3. From(t, 3) = r
  <2>1. 3 \in Int /\ 3 = Len(s) + 1
    BY <1>1
  <2>. QED
    BY <1>1, <2>1, RestOfConcat
<1>. HIDE DEF t
<1>4. Len(r) \in Nat
  BY LenProperties
<1>5. /\ t \in Seq(STRING) /\ Len(t) = 2 + Len(r) /\ t[1] = w /\ t[2] = ":"
  BY <1>1, <1>2, <1>4
<1>6. ASSUME NEW i \in 1..Len(r) PROVE t[i + 2] = r[i]
  <2>1. i + 2 \in 1..(Len(s) + Len(r)) /\ ~(i + 2 <= Len(s)) /\ (i + 2) - Len(s) = i
    BY <1>1, <1>4
  <2>. QED
    BY <1>2, <2>1
<1>7. t # <<>>
  <2>1. Len(t) # 0
    BY <1>4, <1>5
  <2>. QED
    BY <2>1, EmptySeq
<1>. QED
  BY <1>3, <1>5, <1>6, <1>7 DEF t, s, Labelled

\* Each word stands alone before the colon.
LEMMA SplitOfLabelled ==
    ASSUME NEW w \in STRING, w # ":", NEW r \in Seq(STRING)
    PROVE  LET t == Labelled(w, r)
           IN  Splits(t) /\ Before(t) = <<w>> /\ After(t) = r
<1>. DEFINE s == <<w>>
            c == <<":">>
            h == <<w, ":">>
<1>1. ":" \in STRING
  BY SettingTextAssumption DEF Keywords
<1>2. /\ s \in Seq(STRING) /\ Len(s) = 1 /\ s[1] = w
      /\ c \in Seq(STRING) /\ Len(c) = 1 /\ c[1] = ":"
      /\ h \in Seq(STRING) /\ Len(h) = 2 /\ h[1] = w /\ h[2] = ":"
  BY <1>1, Tuples
<1>. HIDE DEF s, c, h
<1>3. h = s \o c
  <2>1. /\ s \o c \in Seq(STRING) /\ Len(s \o c) = Len(s) + Len(c)
        /\ \A i \in 1..Len(s) + Len(c) : (s \o c)[i] = IF i <= Len(s) THEN s[i] ELSE c[i - Len(s)]
    BY <1>2, ConcatProperties
  <2>2. (s \o c)[1] = w /\ (s \o c)[2] = ":" /\ Len(s \o c) = 2
    BY <1>2, <2>1
  <2>3. \A i \in 1..Len(h) : h[i] = (s \o c)[i]
    BY <1>2, <2>2
  <2>. QED
    BY <1>2, <2>1, <2>2, <2>3, SeqEqual
<1>4. ~Splits(s)
  BY <1>2 DEF Splits
<1>5. (s \o c) \o r = Labelled(w, r)
  BY <1>3 DEF Labelled, h
<1>6. (s \o <<":">>) \o r = Labelled(w, r)
  BY <1>5 DEF c
<1>7. LET t == (s \o <<":">>) \o r
      IN  t \in Seq(STRING) /\ Splits(t) /\ Before(t) = s /\ After(t) = r
  BY <1>2, <1>4, SplitOfJoined
<1>. QED
  BY <1>6, <1>7 DEF s

\* The rest of a text is a text.
LEMMA RestIsText ==
    ASSUME NEW t \in Seq(STRING), NEW i \in Nat \ {0}
    PROVE  From(t, i) \in Seq(STRING)
<1>1. Len(t) \in Nat /\ \A j \in i..Len(t) : t[j] \in STRING
  BY LenProperties, ElementOfSeq
<1>. QED
  BY <1>1, SubSeqProperties DEF From

-----------------------------------------------------------------------------
(***************************************************************************)
(* ListenerAddress                                                         *)
(***************************************************************************)
\* The branches of FromStr for a word and a colon before a text.
LEMMA LabelledAddress ==
    ASSUME NEW w \in STRING \ {"/", "./", "@"}, NEW r \in Seq(STRING)
    PROVE  AddressFromStr(Labelled(w, r)) =
             IF w \in {"sd-listen", "sd_listen"}
             THEN IF HasColon(r) THEN Error ELSE <<<<"FromFdNamed", r>>>>
             ELSE IF w = "vsock" THEN VsockFromStr(r)
             ELSE IF w \in Hosts /\ IsNumber(r, U16Max) THEN <<<<"Tcp", w, Number(r), "no flowinfo">>>>
             ELSE Error
<1>. DEFINE t == Labelled(w, r)
<1>1. /\ Len(t) = 2 + Len(r) /\ t # <<>> /\ t[1] = w /\ t[2] = ":" /\ From(t, 3) = r /\ Len(r) \in Nat
  BY LabelledText, LenProperties
<1>. HIDE DEF t
<1>2. \A W : StartsWith(t, W) <=> w \in W
  BY <1>1 DEF StartsWith
<1>3. \A W : ~Is(t, W)
  BY <1>1 DEF Is
<1>4. \A W : Prefixed(t, W) <=> w \in W
  BY <1>1, <1>2 DEF Prefixed
<1>5. IsSocketAddr(t) <=> w \in Hosts /\ IsNumber(r, U16Max)
  BY <1>1, <1>2, <1>4 DEF IsSocketAddr
<1>. QED
  BY <1>1, <1>2, <1>3, <1>4, <1>5 DEF AddressFromStr, t

LEMMA PathIsRead ==
    ASSUME NEW t, StartsWith(t, {"/", "./"})
    PROVE  AddressFromStr(t) = <<<<"Path", t>>>>
BY DEF AddressFromStr

LEMMA AbstractIsRead ==
    ASSUME NEW x \in Seq(STRING)
    PROVE  AddressFromStr(<<"@">> \o x) = <<<<"Abstract", x>>>>
<1>. DEFINE t == <<"@">> \o x
<1>1. "@" \in STRING
  BY SettingTextAssumption DEF Keywords
<1>2. t # <<>> /\ t[1] = "@" /\ From(t, 2) = x
  BY <1>1, Headed
<1>. HIDE DEF t
<1>3. ~StartsWith(t, {"/", "./"}) /\ StartsWith(t, {"@"})
  BY <1>2 DEF StartsWith
<1>. QED
  BY <1>2, <1>3 DEF AddressFromStr, t

LEMMA InetdIsRead == AddressFromStr(<<"inetd">>) = <<<<"Inetd">>>>
<1>1. Lower("inetd") = "inetd"
  BY LowerKeyword DEF Keywords
<1>2. Is(<<"inetd">>, {"inetd", "stdio", "-"})
  BY <1>1 DEF Is
<1>3. ~StartsWith(<<"inetd">>, {"/", "./"}) /\ ~StartsWith(<<"inetd">>, {"@"})
  BY DEF StartsWith
<1>. QED
  BY <1>2, <1>3 DEF AddressFromStr

LEMMA SdListenIsRead == AddressFromStr(<<"sd-listen">>) = <<<<"FromFd", SD_LISTEN_FDS_START>>>>
<1>1. Lower("sd-listen") = "sd-listen"
  BY LowerKeyword DEF Keywords
<1>2. /\ Is(<<"sd-listen">>, {"sd-listen", "sd_listen", "sd-listen-unix", "sd_listen_unix"})
      /\ ~Is(<<"sd-listen">>, {"inetd", "stdio", "-"})
  BY <1>1 DEF Is
<1>3. ~StartsWith(<<"sd-listen">>, {"/", "./"}) /\ ~StartsWith(<<"sd-listen">>, {"@"})
  BY DEF StartsWith
<1>. QED
  BY <1>2, <1>3 DEF AddressFromStr

LEMMA NamedIsRead ==
    ASSUME NEW x \in Seq(STRING)
    PROVE  AddressFromStr(Labelled("sd-listen", x)) = IF HasColon(x) THEN Error ELSE <<<<"FromFdNamed", x>>>>
<1>1. "sd-listen" \in STRING \ {"/", "./", "@"}
  BY SettingTextAssumption DEF Keywords
<1>. QED
  BY <1>1, LabelledAddress

\* A number that Display does not write as a name is not read.
LEMMA OtherNumberIsRefused == AddressFromStr(Labelled("accept-from-fd", <<"N">>)) = Error
<1>1. /\ "accept-from-fd" \in STRING \ {"/", "./", "@"} /\ "accept-from-fd" \notin Hosts
      /\ "N" \in STRING
  BY SettingTextAssumption DEF Keywords
<1>2. <<"N">> \in Seq(STRING)
  BY <1>1, Tuples
<1>. QED
  BY <1>1, <1>2, LabelledAddress

LEMMA TcpIsRead ==
    ASSUME NEW h \in Hosts, NEW n \in DOMAIN Digits, n <= U16Max
    PROVE  AddressFromStr(Labelled(h, <<Digits[n]>>)) = <<<<"Tcp", h, n, "no flowinfo">>>>
<1>1. h \in STRING \ {"/", "./", "@"} /\ h \notin {"sd-listen", "sd_listen", "vsock"}
  BY SettingTextAssumption DEF Keywords
<1>2. /\ Digits[n] \in STRING /\ IsNumber(<<Digits[n]>>, U16Max) /\ Number(<<Digits[n]>>) = n
  BY DigitsAreRead, SettingTextAssumption
<1>3. <<Digits[n]>> \in Seq(STRING)
  BY <1>2, Tuples
<1>. QED
  BY <1>1, <1>2, <1>3, LabelledAddress

LEMMA VsockIsRead ==
    ASSUME NEW n \in DOMAIN Digits, NEW m \in DOMAIN Digits
    PROVE  AddressFromStr(Labelled("vsock", Labelled(Digits[n], <<Digits[m]>>))) = <<<<"Vsock", n, m>>>>
<1>. DEFINE t == Labelled(Digits[n], <<Digits[m]>>)
<1>1. /\ Digits[n] \in STRING /\ Digits[n] # ":" /\ Digits[n] \notin Keywords /\ Digits[n] \in DOMAIN NumberOf
      /\ Digits[m] \in STRING
      /\ IsNumber(<<Digits[n]>>, U32Max) /\ Number(<<Digits[n]>>) = n
      /\ IsNumber(<<Digits[m]>>, U32Max) /\ Number(<<Digits[m]>>) = m
  BY DigitsAreRead, SettingTextAssumption DEF Keywords
<1>2. <<Digits[m]>> \in Seq(STRING)
  BY <1>1, Tuples
<1>3. Splits(t) /\ Before(t) = <<Digits[n]>> /\ After(t) = <<Digits[m]>> /\ t \in Seq(STRING)
  BY <1>1, <1>2, SplitOfLabelled, LabelledText
<1>. HIDE DEF t
<1>4. ~Is(<<Digits[n]>>, DOMAIN NamedCid)
  <2>1. Lower(Digits[n]) = Digits[n]
    BY <1>1, LowerDigits
  <2>2. DOMAIN NamedCid \subseteq Keywords
    BY DEF NamedCid, Keywords
  <2>. QED
    BY <1>1, <2>1, <2>2 DEF Is
<1>5. VsockFromStr(t) = <<<<"Vsock", n, m>>>>
  BY <1>1, <1>3, <1>4 DEF VsockFromStr
<1>6. "vsock" \in STRING \ {"/", "./", "@"}
  BY SettingTextAssumption DEF Keywords
<1>. QED
  BY <1>3, <1>5, <1>6, LabelledAddress DEF t

\* The variants, as FromStr makes them.
LEMMA VariantsOfAddress ==
    /\ \A h \in Hosts, n \in DOMAIN Digits : n <= U16Max => <<"Tcp", h, n, "no flowinfo">> \in AddressValues
    /\ \A x \in Seq(STRING) : /\ <<"Path", x>> \in AddressValues
                              /\ <<"Abstract", x>> \in AddressValues
                              /\ <<"FromFdNamed", x>> \in AddressValues
    /\ <<"Inetd">> \in AddressValues
    /\ \A n \in I32 : <<"FromFd", n>> \in AddressValues
    /\ \A n \in DOMAIN Digits, k \in DOMAIN Digits : <<"Vsock", n, k>> \in AddressValues
BY DEF AddressValues

\* How Display writes them.
LEMMA DisplayOfVariants ==
    /\ \A h, n, f : AddressDisplay(<<"Tcp", h, n, f>>) = Labelled(h, <<Digits[n]>>)
    /\ \A x : /\ AddressDisplay(<<"Path", x>>) = PathDisplay(x)
              /\ AddressDisplay(<<"Abstract", x>>) = <<"@">> \o x
              /\ AddressDisplay(<<"FromFdNamed", x>>) = Labelled("sd-listen", x)
    /\ AddressDisplay(<<"Inetd">>) = <<"inetd">>
    /\ \A n : AddressDisplay(<<"FromFd", n>>) = IF n = SD_LISTEN_FDS_START THEN <<"sd-listen">>
                                                ELSE Labelled("accept-from-fd", <<"N">>)
    /\ \A n, k : AddressDisplay(<<"Vsock", n, k>>) = Labelled("vsock", Labelled(Digits[n], <<Digits[k]>>))
BY DEF AddressDisplay

\* What FromStr makes of "vsock:".
LEMMA VsockFromAnyText ==
    ASSUME NEW t, VsockFromStr(t) # Error
    PROVE  \E n \in DOMAIN Digits, k \in DOMAIN Digits : VsockFromStr(t) = <<<<"Vsock", n, k>>>>
<1>. DEFINE cid == Before(t)
            port == After(t)
<1>1. U32Max \in Int
  BY SettingTextAssumption
<1>2. IsNumber(port, U32Max)
  BY DEF VsockFromStr
<1>3. Number(port) \in DOMAIN Digits
  BY <1>1, <1>2, NumberCanBeWritten
<1>4. CASE Is(cid, DOMAIN NamedCid)
  <2>1. Lower(cid[1]) \in {"host", "local", "any"}
    BY <1>4 DEF Is, NamedCid
  <2>2. NamedCid[Lower(cid[1])] \in DOMAIN Digits
    BY <2>1, SettingTextAssumption DEF NamedCid
  <2>3. VsockFromStr(t) = <<<<"Vsock", NamedCid[Lower(cid[1])], Number(port)>>>>
    BY <1>4 DEF VsockFromStr
  <2>. QED
    BY <1>3, <2>2, <2>3
<1>5. CASE ~Is(cid, DOMAIN NamedCid)
  <2>1. IsNumber(cid, U32Max) /\ VsockFromStr(t) = <<<<"Vsock", Number(cid), Number(port)>>>>
    BY <1>5 DEF VsockFromStr
  <2>2. Number(cid) \in DOMAIN Digits
    BY <1>1, <2>1, NumberCanBeWritten
  <2>. QED
    BY <1>3, <2>1, <2>2
<1>. QED
  BY <1>4, <1>5

\* Any text that FromStr takes gives a variant of the enum, and if the text is
\* UTF-8, as everything a user writes, it is the one that FromStr makes again of
\* what Display writes for it.
LEMMA AddressFromAnyText ==
    ASSUME NEW t \in Seq(STRING), AddressFromStr(t) # Error
    PROVE  \E a \in AddressValues : /\ AddressFromStr(t) = <<a>>
                                    /\ IsUtf8(t) => AddressFromStr(AddressDisplay(a)) = <<a>>
<1>1. CASE StartsWith(t, {"/", "./"})
  <2>. DEFINE a == <<"Path", t>>
  <2>1. AddressFromStr(t) = <<a>> /\ a \in AddressValues
    BY <1>1, PathIsRead, VariantsOfAddress
  <2>2. IsUtf8(t) => AddressDisplay(a) = t
    BY <1>1, DisplayOfVariants DEF PathDisplay, IsAbsolute, StartsWith
  <2>. QED
    BY <2>1, <2>2
<1>2. CASE ~StartsWith(t, {"/", "./"}) /\ StartsWith(t, {"@"})
  <2>. DEFINE a == <<"Abstract", From(t, 2)>>
  <2>1. From(t, 2) \in Seq(STRING)
    BY RestIsText
  <2>2. AddressFromStr(t) = <<a>> /\ a \in AddressValues
    BY <1>2, <2>1, VariantsOfAddress DEF AddressFromStr
  <2>3. AddressFromStr(AddressDisplay(a)) = <<a>>
    BY <2>1, DisplayOfVariants, AbstractIsRead
  <2>. QED
    BY <2>2, <2>3
<1>. DEFINE words == {"sd-listen", "sd_listen", "sd-listen-unix", "sd_listen_unix"}
<1>3. CASE /\ ~StartsWith(t, {"/", "./"}) /\ ~StartsWith(t, {"@"})
           /\ Is(t, {"inetd", "stdio", "-"})
  <2>1. AddressFromStr(t) = <<<<"Inetd">>>>
    BY <1>3 DEF AddressFromStr
  <2>. QED
    BY <2>1, VariantsOfAddress, DisplayOfVariants, InetdIsRead
<1>4. CASE /\ ~StartsWith(t, {"/", "./"}) /\ ~StartsWith(t, {"@"})
           /\ ~Is(t, {"inetd", "stdio", "-"}) /\ Is(t, words)
  <2>. DEFINE a == <<"FromFd", SD_LISTEN_FDS_START>>
  <2>1. AddressFromStr(t) = <<a>>
    BY <1>4 DEF AddressFromStr
  <2>2. SD_LISTEN_FDS_START \in I32
    <3>1. I32Max \in Int /\ -I32Max - 1 <= 3 /\ 3 <= I32Max
      BY SMT DEF I32Max
    <3>. QED
      BY <3>1, SMT DEF I32, SD_LISTEN_FDS_START
  <2>3. AddressDisplay(a) = <<"sd-listen">>
    BY DisplayOfVariants
  <2>. QED
    BY <2>1, <2>2, <2>3, VariantsOfAddress, SdListenIsRead
<1>. DEFINE Rest == /\ ~StartsWith(t, {"/", "./"}) /\ ~StartsWith(t, {"@"})
                    /\ ~Is(t, {"inetd", "stdio", "-"}) /\ ~Is(t, words)
<1>5. CASE Rest /\ Prefixed(t, {"sd-listen", "sd_listen"})
  <2>. DEFINE x == From(t, 3)
              a == <<"FromFdNamed", x>>
  <2>1. x \in Seq(STRING)
    BY RestIsText
  <2>2. ~HasColon(x) /\ AddressFromStr(t) = <<a>>
    BY <1>5 DEF AddressFromStr
  <2>3. AddressFromStr(AddressDisplay(a)) = <<a>>
    BY <2>1, <2>2, DisplayOfVariants, NamedIsRead
  <2>. QED
    BY <2>1, <2>2, <2>3, VariantsOfAddress
<1>6. CASE Rest /\ ~Prefixed(t, {"sd-listen", "sd_listen"}) /\ Prefixed(t, {"vsock"})
  <2>1. AddressFromStr(t) = VsockFromStr(From(t, 3))
    BY <1>6 DEF AddressFromStr
  <2>2. PICK n \in DOMAIN Digits, k \in DOMAIN Digits : AddressFromStr(t) = <<<<"Vsock", n, k>>>>
    BY <2>1, VsockFromAnyText
  <2>3. AddressFromStr(AddressDisplay(<<"Vsock", n, k>>)) = <<<<"Vsock", n, k>>>>
    <3>1. AddressDisplay(<<"Vsock", n, k>>) = Labelled("vsock", Labelled(Digits[n], <<Digits[k]>>))
      BY DisplayOfVariants
    <3>. QED
      BY <3>1, VsockIsRead
  <2>. QED
    BY <2>2, <2>3, VariantsOfAddress
<1>7. CASE Rest /\ ~Prefixed(t, {"sd-listen", "sd_listen"}) /\ ~Prefixed(t, {"vsock"})
  <2>. DEFINE n == Number(From(t, 3))
              a == <<"Tcp", t[1], n, "no flowinfo">>
  <2>1. IsSocketAddr(t) /\ AddressFromStr(t) = <<a>>
    BY <1>7 DEF AddressFromStr
  <2>2. t[1] \in Hosts /\ IsNumber(From(t, 3), U16Max)
    BY <2>1 DEF IsSocketAddr, StartsWith
  <2>3. n \in DOMAIN Digits /\ n <= U16Max
    BY <2>2, NumberCanBeWritten, SettingTextAssumption
  <2>. HIDE DEF n
  <2>4. AddressFromStr(AddressDisplay(a)) = <<a>>
    <3>1. AddressDisplay(a) = Labelled(t[1], <<Digits[n]>>)
      BY DisplayOfVariants
    <3>. QED
      BY <2>2, <2>3, <3>1, TcpIsRead
  <2>. QED
    BY <2>1, <2>2, <2>3, <2>4, VariantsOfAddress
<1>. QED
  BY <1>1, <1>2, <1>3, <1>4, <1>5, <1>6, <1>7

\* The forms that the variants have.
LEMMA Pairs ==
    ASSUME NEW A, NEW B, NEW a \in A \X B
    PROVE  \E x \in A, y \in B : a = <<x, y>>
OBVIOUS

LEMMA Triples ==
    ASSUME NEW A, NEW B, NEW C, NEW a \in A \X B \X C
    PROVE  \E x \in A, y \in B, z \in C : a = <<x, y, z>>
OBVIOUS

LEMMA Quadruples ==
    ASSUME NEW A, NEW B, NEW C, NEW D, NEW a \in A \X B \X C \X D
    PROVE  \E x \in A, y \in B, z \in C, w \in D : a = <<x, y, z, w>>
OBVIOUS

LEMMA FormsOfAddress ==
    ASSUME NEW a \in AddressValues
    PROVE  \/ \E h \in Hosts, n \in DOMAIN Digits, f \in STRING \cup {"no flowinfo", "flowinfo"} :
                    n <= U16Max /\ a = <<"Tcp", h, n, f>>
           \/ \E x \in Seq(STRING) : a \in {<<"Path", x>>, <<"Abstract", x>>, <<"FromFdNamed", x>>}
           \/ a = <<"Inetd">>
           \/ \E n \in I32 : a = <<"FromFd", n>>
           \/ \E n \in DOMAIN Digits, k \in DOMAIN Digits : a = <<"Vsock", n, k>>
<1>. DEFINE Small == {n \in DOMAIN Digits : n <= U16Max}
            Flow == {"no flowinfo", "flowinfo"}
            Texted == {"Path", "Abstract", "FromFdNamed"}
<1>1. CASE a \in {"Tcp"} \X Hosts \X Small \X Flow
  <2>1. PICK u \in {"Tcp"}, h \in Hosts, n \in Small, f \in Flow : a = <<u, h, n, f>>
    <3>. HIDE DEF Small, Flow
    <3>. QED
      BY <1>1, Quadruples
  <2>. QED
    BY <2>1
<1>2. CASE a \in Texted \X Seq(STRING)
  <2>1. PICK u \in Texted, x \in Seq(STRING) : a = <<u, x>>
    <3>. HIDE DEF Texted
    <3>. QED
      BY <1>2, Pairs
  <2>. QED
    BY <2>1
<1>3. CASE a \in {"FromFd"} \X I32
  <2>1. PICK u \in {"FromFd"}, n \in I32 : a = <<u, n>>
    BY <1>3, Pairs
  <2>. QED
    BY <2>1
<1>4. CASE a \in {"Vsock"} \X (DOMAIN Digits) \X (DOMAIN Digits)
  <2>1. PICK u \in {"Vsock"}, n \in DOMAIN Digits, k \in DOMAIN Digits : a = <<u, n, k>>
    BY <1>4, Triples
  <2>. QED
    BY <2>1
<1>5. \/ a \in {"Tcp"} \X Hosts \X Small \X Flow
      \/ a \in Texted \X Seq(STRING)
      \/ a = <<"Inetd">>
      \/ a \in {"FromFd"} \X I32
      \/ a \in {"Vsock"} \X (DOMAIN Digits) \X (DOMAIN Digits)
  BY Zenon DEF AddressValues
<1>. QED
  BY <1>1, <1>2, <1>3, <1>4, <1>5

\* What Display writes is a text, that of a path that is no UTF-8 too.
LEMMA DisplayIsText ==
    ASSUME NEW a \in AddressValues
    PROVE  AddressDisplay(a) \in Seq(STRING)
<1>1. \A w \in Keywords : w \in STRING
  BY SettingTextAssumption
<1>2. \A n \in DOMAIN Digits : Digits[n] \in STRING /\ <<Digits[n]>> \in Seq(STRING)
  BY DigitsAreRead, Tuples
<1>3. ASSUME NEW h \in Hosts, NEW n \in DOMAIN Digits, NEW f, a = <<"Tcp", h, n, f>>
      PROVE  AddressDisplay(a) \in Seq(STRING)
  <2>1. h \in STRING
    BY SettingTextAssumption
  <2>2. Labelled(h, <<Digits[n]>>) \in Seq(STRING)
    BY <1>2, <2>1, LabelledText
  <2>. QED
    BY <1>3, <2>2, DisplayOfVariants
<1>4. ASSUME NEW x \in Seq(STRING), a = <<"Path", x>>
      PROVE  AddressDisplay(a) \in Seq(STRING)
  <2>1. "/" \in STRING /\ "./" \in STRING /\ "???" \in STRING
    BY <1>1 DEF Keywords
  <2>2. <<"/", "???">> \in Seq(STRING) /\ <<"./", "???">> \in Seq(STRING)
    BY <2>1, Tuples
  <2>3. <<"./">> \o x \in Seq(STRING)
    BY <2>1, Headed
  <2>4. PathDisplay(x) \in Seq(STRING)
    BY <2>2, <2>3 DEF PathDisplay
  <2>. QED
    BY <1>4, <2>4, DisplayOfVariants
<1>5. ASSUME NEW x \in Seq(STRING), a = <<"Abstract", x>>
      PROVE  AddressDisplay(a) \in Seq(STRING)
  <2>1. "@" \in STRING
    BY <1>1 DEF Keywords
  <2>. QED
    BY <1>5, <2>1, DisplayOfVariants, Headed
<1>6. ASSUME NEW x \in Seq(STRING), a = <<"FromFdNamed", x>>
      PROVE  AddressDisplay(a) \in Seq(STRING)
  <2>1. "sd-listen" \in STRING
    BY <1>1 DEF Keywords
  <2>. QED
    BY <1>6, <2>1, DisplayOfVariants, LabelledText
<1>7. ASSUME a = <<"Inetd">> PROVE AddressDisplay(a) \in Seq(STRING)
  <2>1. "inetd" \in STRING
    BY <1>1 DEF Keywords
  <2>. QED
    BY <1>7, <2>1, DisplayOfVariants, Tuples
<1>8. ASSUME NEW n \in I32, a = <<"FromFd", n>> PROVE AddressDisplay(a) \in Seq(STRING)
  <2>1. "sd-listen" \in STRING /\ "accept-from-fd" \in STRING /\ "N" \in STRING
    BY <1>1 DEF Keywords
  <2>2. <<"sd-listen">> \in Seq(STRING) /\ <<"N">> \in Seq(STRING)
    BY <2>1, Tuples
  <2>3. Labelled("accept-from-fd", <<"N">>) \in Seq(STRING)
    BY <2>1, <2>2, LabelledText
  <2>. QED
    BY <1>8, <2>2, <2>3, DisplayOfVariants
<1>9. ASSUME NEW n \in DOMAIN Digits, NEW k \in DOMAIN Digits, a = <<"Vsock", n, k>>
      PROVE  AddressDisplay(a) \in Seq(STRING)
  <2>1. "vsock" \in STRING
    BY <1>1 DEF Keywords
  <2>2. Labelled(Digits[n], <<Digits[k]>>) \in Seq(STRING)
    BY <1>2, LabelledText
  <2>. QED
    BY <1>9, <2>1, <2>2, DisplayOfVariants, LabelledText
<1>. QED
  BY FormsOfAddress, <1>3, <1>4, <1>5, <1>6, <1>7, <1>8, <1>9

LEMMA SameItself ==
    ASSUME NEW a
    PROVE  SameSocket(a, a)
BY DEF SameSocket

\* An address that a program made is refused when it is read back, or leads to
\* the same socket, unless it is a path that cannot be written.
LEMMA AddressOfAProgram ==
    ASSUME NEW a \in AddressValues, AddressFromStr(AddressDisplay(a)) # Error,
           a[1] = "Path" => IsUtf8(a[2])
    PROVE  SameSocket(AddressFromStr(AddressDisplay(a))[1], a)
<1>. DEFINE r == AddressFromStr(AddressDisplay(a))
<1>1. ASSUME r = <<a>> PROVE SameSocket(r[1], a)
  <2>1. r[1] = a
    BY <1>1
  <2>. HIDE DEF r
  <2>. QED
    BY <2>1, SameItself
<1>2. ASSUME NEW h \in Hosts, NEW n \in DOMAIN Digits, NEW f, n <= U16Max, a = <<"Tcp", h, n, f>>
      PROVE  SameSocket(r[1], a)
  <2>. DEFINE b == <<"Tcp", h, n, "no flowinfo">>
  <2>1. r = <<b>>
    <3>1. AddressDisplay(a) = Labelled(h, <<Digits[n]>>)
      BY <1>2, DisplayOfVariants
    <3>. QED
      BY <1>2, <3>1, TcpIsRead
  <2>2. SameSocket(b, <<"Tcp", h, n, f>>)
    BY DEF SameSocket
  <2>3. r[1] = b
    <3>. HIDE DEF r, b
    <3>. QED
      BY <2>1
  <2>. HIDE DEF r, b
  <2>. QED
    BY <1>2, <2>2, <2>3
<1>3. ASSUME NEW x \in Seq(STRING), a = <<"Path", x>>
      PROVE  SameSocket(r[1], a)
  <2>1. IsUtf8(x) /\ AddressDisplay(a) = PathDisplay(x)
    BY <1>3, DisplayOfVariants
  <2>2. CASE StartsWith(x, {"/", "./"})
    <3>1. PathDisplay(x) = x
      BY <2>1, <2>2 DEF PathDisplay, IsAbsolute, StartsWith
    <3>. QED
      BY <1>1, <1>3, <2>1, <2>2, <3>1, PathIsRead
  <2>3. CASE ~StartsWith(x, {"/", "./"})
    <3>. DEFINE t == <<"./">> \o x
    <3>1. PathDisplay(x) = t
      BY <2>1, <2>3 DEF PathDisplay, IsAbsolute, StartsWith
    <3>2. "./" \in STRING
      BY SettingTextAssumption DEF Keywords
    <3>3. t # <<>> /\ t[1] = "./"
      BY <3>2, Headed
    <3>4. SameSocket(<<"Path", t>>, <<"Path", x>>)
      BY DEF SameSocket
    <3>. HIDE DEF t
    <3>5. r[1] = <<"Path", t>>
      BY <2>1, <3>1, <3>3, PathIsRead DEF StartsWith
    <3>. HIDE DEF r
    <3>. QED
      BY <1>3, <3>4, <3>5
  <2>. QED
    BY <2>2, <2>3
<1>4. ASSUME NEW x \in Seq(STRING), a = <<"Abstract", x>>
      PROVE  SameSocket(r[1], a)
  BY <1>1, <1>4, DisplayOfVariants, AbstractIsRead
<1>5. ASSUME NEW x \in Seq(STRING), a = <<"FromFdNamed", x>>
      PROVE  SameSocket(r[1], a)
  BY <1>1, <1>5, DisplayOfVariants, NamedIsRead
<1>6. ASSUME a = <<"Inetd">> PROVE SameSocket(r[1], a)
  BY <1>1, <1>6, DisplayOfVariants, InetdIsRead
<1>7. ASSUME NEW n \in I32, a = <<"FromFd", n>>
      PROVE  SameSocket(r[1], a)
  <2>1. n = SD_LISTEN_FDS_START
    BY <1>7, DisplayOfVariants, OtherNumberIsRefused
  <2>. QED
    BY <1>1, <1>7, <2>1, DisplayOfVariants, SdListenIsRead
<1>8. ASSUME NEW n \in DOMAIN Digits, NEW k \in DOMAIN Digits, a = <<"Vsock", n, k>>
      PROVE  SameSocket(r[1], a)
  BY <1>1, <1>8, DisplayOfVariants, VsockIsRead
<1>. QED
  <2>. HIDE DEF r
  <2>1. SameSocket(r[1], a)
    BY FormsOfAddress, <1>2, <1>3, <1>4, <1>5, <1>6, <1>7, <1>8
  <2>. QED
    BY <2>1 DEF r

-----------------------------------------------------------------------------
(***************************************************************************)
(* TcpKeepaliveParams and UnixChmodVariant                                 *)
(***************************************************************************)
\* A number that Display wrote, or nothing, is not changed by trim.
LEMMA ShownField ==
    ASSUME NEW n \in {Unset} \cup DOMAIN Digits
    PROVE  /\ Shown(n) \in Seq(STRING) /\ ~Splits(Shown(n)) /\ Trim(Shown(n)) = Shown(n)
           /\ n = Unset <=> Shown(n) = <<>>
           /\ n # Unset => IsNumber(Shown(n), U32Max) /\ Number(Shown(n)) = n
<1>1. CASE n = Unset
  <2>1. Shown(n) = <<>> /\ <<>> \in Seq(STRING) /\ Len(<<>>) = 0 /\ DOMAIN <<>> = {}
    BY <1>1 DEF Shown
  <2>. QED
    BY <1>1, <2>1 DEF Splits, Trim
<1>2. CASE n # Unset
  <2>. DEFINE t == <<Digits[n]>>
  <2>1. /\ Digits[n] \in STRING /\ Digits[n] # ":" /\ Digits[n] # " "
        /\ IsNumber(t, U32Max) /\ Number(t) = n
    BY <1>2, DigitsAreRead, SettingTextAssumption DEF Keywords
  <2>2. t \in Seq(STRING) /\ Len(t) = 1 /\ t[1] = Digits[n] /\ DOMAIN t = {1}
    <3>1. t \in Seq(STRING) /\ Len(t) = 1 /\ t[1] = Digits[n]
      BY <2>1, Tuples
    <3>. HIDE DEF t
    <3>2. DOMAIN t = 1..Len(t)
      BY <3>1, LenProperties
    <3>. QED
      BY <3>1, <3>2
  <2>3. t # <<>>
    BY <2>2, EmptySeq
  <2>. HIDE DEF t
  <2>4. ~Splits(t)
    <3>1. \A i \in 1..Len(t) : i = 1
      BY <2>2
    <3>. QED
      BY <2>1, <2>2, <3>1 DEF Splits
  <2>5. Trim(t) = t
    <3>1. {i \in DOMAIN t : t[i] # " "} = {1}
      BY <2>1, <2>2
    <3>2. Min({1}) = 1 /\ Max({1}) = 1
      BY DEF Min, Max
    <3>3. SubSeq(t, 1, 1) = t
      BY <2>2, SubSeqFull
    <3>. QED
      BY <3>1, <3>2, <3>3 DEF Trim
  <2>6. Shown(n) = t
    BY <1>2 DEF Shown, t
  <2>. QED
    BY <1>2, <2>1, <2>2, <2>3, <2>4, <2>5, <2>6 DEF t
<1>. QED
  BY <1>1, <1>2

\* What Display writes is split into the three numbers.
LEMMA KeepaliveIsRead ==
    ASSUME NEW p \in KeepaliveValues
    PROVE  KeepaliveFromStr(KeepaliveDisplay(p)) = <<p>>
<1>. DEFINE s(k) == Shown(p[k])
            t2 == (s(2) \o <<":">>) \o s(3)
            t1 == (s(1) \o <<":">>) \o t2
            t == KeepaliveDisplay(p)
            chunk == <<Before(t), Before(After(t)), Before(After(After(t)))>>
            field(k) == Trim(chunk[k])
<1>1. \A k \in 1..3 : p[k] \in {Unset} \cup DOMAIN Digits
  BY DEF KeepaliveValues
<1>2. \A k \in 1..3 : s(k) \in Seq(STRING) /\ ~Splits(s(k))
  BY <1>1, ShownField
<1>3. t2 \in Seq(STRING) /\ Splits(t2) /\ Before(t2) = s(2) /\ After(t2) = s(3)
  BY <1>2, SplitOfJoined
<1>4. Splits(t1) /\ Before(t1) = s(1) /\ After(t1) = t2
  <2>. HIDE DEF t2, s
  <2>. QED
    BY <1>2, <1>3, SplitOfJoined
<1>5. t = t1
  BY DEF KeepaliveDisplay, Joined
<1>. HIDE DEF t, t1, t2
<1>6. Before(s(3)) = s(3) /\ ~Splits(After(After(t)))
  BY <1>2, <1>3, <1>4, <1>5 DEF Before
<1>7. \A k \in 1..3 : chunk[k] = s(k)
  BY <1>3, <1>4, <1>5, <1>6
<1>. HIDE DEF chunk
<1>8. \A k \in 1..3 : field(k) = s(k)
  BY <1>1, <1>7, ShownField
<1>9. \A k \in 1..3 : field(k) # <<>> => IsNumber(field(k), U32Max)
  BY <1>1, <1>8, ShownField
<1>10. \A k \in 1..3 : (IF field(k) = <<>> THEN Unset ELSE Number(field(k))) = p[k]
  BY <1>1, <1>8, ShownField
<1>11. [k \in 1..3 |-> IF field(k) = <<>> THEN Unset ELSE Number(field(k))] = p
  <2>. HIDE DEF field
  <2>. QED
    BY <1>10 DEF KeepaliveValues
<1>12. KeepaliveFromStr(t) = <<[k \in 1..3 |-> IF field(k) = <<>> THEN Unset ELSE Number(field(k))]>>
  BY <1>6, <1>9 DEF KeepaliveFromStr, chunk
<1>. QED
  BY <1>11, <1>12 DEF t

LEMMA KeepaliveFromAnyText ==
    ASSUME NEW t, KeepaliveFromStr(t) # Error
    PROVE  \E p \in KeepaliveValues : KeepaliveFromStr(t) = <<p>>
<1>. DEFINE chunk == <<Before(t), Before(After(t)), Before(After(After(t)))>>
            field(k) == Trim(chunk[k])
            p == [k \in 1..3 |-> IF field(k) = <<>> THEN Unset ELSE Number(field(k))]
<1>1. /\ \A k \in 1..3 : field(k) # <<>> => IsNumber(field(k), U32Max)
      /\ KeepaliveFromStr(t) = <<p>>
  BY DEF KeepaliveFromStr
<1>. HIDE DEF field
<1>2. \A k \in 1..3 : field(k) # <<>> => Number(field(k)) \in DOMAIN Digits
  BY <1>1, NumberCanBeWritten, SettingTextAssumption
<1>3. p \in KeepaliveValues
  BY <1>2 DEF KeepaliveValues
<1>. QED
  BY <1>1, <1>3

LEMMA ChmodIsRead ==
    ASSUME NEW m \in ChmodVariants
    PROVE  ChmodFromStr(ChmodDisplay(m)) = <<m>>
<1>1. Lower(m) = m
  BY LowerKeyword DEF ChmodVariants, Keywords
<1>. QED
  BY <1>1 DEF ChmodFromStr, ChmodDisplay, Is

LEMMA ChmodFromAnyText ==
    ASSUME NEW t, ChmodFromStr(t) # Error
    PROVE  \E m \in ChmodVariants : ChmodFromStr(t) = <<m>>
BY DEF ChmodFromStr, Is
=============================================================================
