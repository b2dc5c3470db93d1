----------------------------- MODULE SettingText -----------------------------
(***************************************************************************)
(* FromStr and Display of ListenerAddress, TcpKeepaliveParams and          *)
(* UnixChmodVariant.  A text is a sequence of tokens: the punctuation that *)
(* the parsers look for, and words.  What a parser returns is <<v>>, or    *)
(* <<>> for an error; a value is a tuple that begins with its variant.     *)
(***************************************************************************)
EXTENDS SdListen, SequencesExt

CONSTANTS
    LowerOf,    \* the lower-case form of each word that has capital letters
    NumberOf,   \* the number that each word of digits spells
    Digits,     \* how Display spells a number
    Hosts,      \* words that spell an IP address
    HostsV6,    \* those with colons in them
    NotUtf8,    \* a word that only a PathBuf can contain
    U16Max, U32Max

\* The words that the parsers look for, in their lower-case form, and those
\* that Display writes and they do not know.
Keywords == {"/", "./", "@", ":", " ", "inetd", "stdio", "-", "sd-listen", "sd_listen", "sd-listen-unix",
             "sd_listen_unix", "vsock", "host", "local", "any", "owner", "group", "everybody",
             "accept-from-fd", "N", "???"}

ASSUME SettingTextAssumption ==
    /\ U16Max \in Nat /\ U32Max \in Nat /\ 2 < U16Max /\ U16Max < U32Max
    /\ NumberOf \in [DOMAIN NumberOf -> Nat]
    /\ \A n \in DOMAIN Digits : Digits[n] \in DOMAIN NumberOf /\ NumberOf[Digits[n]] = n
    /\ DOMAIN Digits \subseteq 0..U32Max /\ {1, 2, U32Max} \subseteq DOMAIN Digits
    /\ {NumberOf[w] : w \in DOMAIN NumberOf} \cap (0..U32Max) \subseteq DOMAIN Digits
    /\ Keywords \subseteq STRING
    /\ DOMAIN NumberOf \cup Hosts \cup DOMAIN LowerOf \subseteq STRING \ Keywords
    /\ DOMAIN NumberOf \cap DOMAIN LowerOf = {}

Error == <<>>
Lower(w) == IF w \in DOMAIN LowerOf THEN LowerOf[w] ELSE w

\* eq_ignore_ascii_case, to one of several words
Is(t, words) == Len(t) = 1 /\ Lower(t[1]) \in words
IsNumber(t, max) == Len(t) = 1 /\ t[1] \in DOMAIN NumberOf /\ NumberOf[t[1]] <= max
Number(t) == NumberOf[t[1]]

From(t, i) == SubSeq(t, i, Len(t))
StartsWith(t, heads) == t # <<>> /\ t[1] \in heads

\* strip_prefix of a word and its colon
Prefixed(t, words) == StartsWith(t, words) /\ Len(t) > 1 /\ t[2] = ":"

\* A text is split at its first colon.
Splits(t) == \E i \in 1..Len(t) : t[i] = ":"
FirstColon(t) == Min({i \in 1..Len(t) : t[i] = ":"})
Before(t) == IF Splits(t) THEN SubSeq(t, 1, FirstColon(t) - 1) ELSE t
After(t) == IF Splits(t) THEN From(t, FirstColon(t) + 1) ELSE <<>>

Trim(t) ==
    LET I == {i \in DOMAIN t : t[i] # " "}
    IN  IF I = {} THEN <<>> ELSE SubSeq(t, Min(I), Max(I))

-----------------------------------------------------------------------------
(***************************************************************************)
(* ListenerAddress                                                         *)
(***************************************************************************)
NamedCid == [host |-> 2, local |-> 1, any |-> U32Max]

\* split_once, then the port and the cid
VsockFromStr(t) ==
    LET cid  == Before(t)
        port == After(t)
    IN  IF ~Splits(t) \/ ~IsNumber(port, U32Max) THEN Error
        ELSE IF Is(cid, DOMAIN NamedCid) THEN <<<<"Vsock", NamedCid[Lower(cid[1])], Number(port)>>>>
        ELSE IF IsNumber(cid, U32Max) THEN <<<<"Vsock", Number(cid), Number(port)>>>>
        ELSE Error

IsSocketAddr(t) == StartsWith(t, Hosts) /\ Prefixed(t, Hosts) /\ IsNumber(From(t, 3), U16Max)

HasColon(t) == \E i \in DOMAIN t : t[i] = ":" \/ t[i] \in HostsV6

AddressFromStr(t) ==
    IF StartsWith(t, {"/", "./"}) THEN <<<<"Path", t>>>>
    ELSE IF StartsWith(t, {"@"}) THEN <<<<"Abstract", From(t, 2)>>>>
    ELSE IF Is(t, {"inetd", "stdio", "-"}) THEN <<<<"Inetd">>>>
    ELSE IF Is(t, {"sd-listen", "sd_listen", "sd-listen-unix", "sd_listen_unix"})
         THEN <<<<"FromFd", SD_LISTEN_FDS_START>>>>
    ELSE IF Prefixed(t, {"sd-listen", "sd_listen"})
         THEN IF HasColon(From(t, 3)) THEN Error ELSE <<<<"FromFdNamed", From(t, 3)>>>>
    ELSE IF Prefixed(t, {"vsock"}) THEN VsockFromStr(From(t, 3))
    ELSE IF IsSocketAddr(t) THEN <<<<"Tcp", t[1], Number(From(t, 3)), "no flowinfo">>>>
    ELSE Error

\* A word, a colon and a text.
Labelled(w, t) == <<w, ":">> \o t

IsAbsolute(p) == StartsWith(p, {"/"})
IsUtf8(p) == ~Contains(p, NotUtf8)

\* Variant: a relative path is written as it is.
PathDisplayAsIs(p) == IF IsUtf8(p) THEN p ELSE <<"/", "???">>

PathDisplay(p) ==
    IF IsUtf8(p) THEN IF IsAbsolute(p) \/ StartsWith(p, {"./"}) THEN p ELSE <<"./">> \o p
    ELSE IF IsAbsolute(p) THEN <<"/", "???">>
    ELSE <<"./", "???">>

AddressDisplay(a) ==
    IF a[1] = "Tcp" THEN Labelled(a[2], <<Digits[a[3]]>>)
    ELSE IF a[1] = "Path" THEN PathDisplay(a[2])
    ELSE IF a[1] = "Abstract" THEN <<"@">> \o a[2]
    ELSE IF a[1] = "Inetd" THEN <<"inetd">>
    ELSE IF a[1] = "FromFd"
         THEN IF a[2] = SD_LISTEN_FDS_START THEN <<"sd-listen">> ELSE Labelled("accept-from-fd", <<"N">>)
    ELSE IF a[1] = "FromFdNamed" THEN Labelled("sd-listen", a[2])
    ELSE Labelled("vsock", Labelled(Digits[a[2]], <<Digits[a[3]]>>))

\* What the variants of the enum can hold; a name or a path may be any text.
AddressValues ==
    ({"Tcp"} \X Hosts \X {n \in DOMAIN Digits : n <= U16Max} \X {"no flowinfo", "flowinfo"})
    \cup ({"Path", "Abstract", "FromFdNamed"} \X Seq(STRING))
    \cup {<<"Inetd">>} \cup ({"FromFd"} \X I32)
    \cup ({"Vsock"} \X (DOMAIN Digits) \X (DOMAIN Digits))

\* The addresses lead to the same socket.
SameSocket(a, b) ==
    \/ a = b
    \/ a[1] = "Path" /\ b[1] = "Path" /\ a[2] = <<"./">> \o b[2]
    \/ a[1] = "Tcp" /\ b[1] = "Tcp" /\ SubSeq(a, 2, 3) = SubSeq(b, 2, 3)

-----------------------------------------------------------------------------
(***************************************************************************)
(* TcpKeepaliveParams, a triple of optional numbers, and UnixChmodVariant  *)
(***************************************************************************)
Unset == -1

KeepaliveFromStr(t) ==
    LET chunk    == <<Before(t), Before(After(t)), Before(After(After(t)))>>
        field(k) == Trim(chunk[k])
    IN  IF Splits(After(After(t))) \/ \E k \in 1..3 : field(k) # <<>> /\ ~IsNumber(field(k), U32Max)
        THEN Error
        ELSE <<[k \in 1..3 |-> IF field(k) = <<>> THEN Unset ELSE Number(field(k))]>>

KeepaliveValues == [1..3 -> {Unset} \cup DOMAIN Digits]

Shown(n) == IF n = Unset THEN <<>> ELSE <<Digits[n]>>

\* Variant: a number that is not there takes its colon with it.
KeepaliveDisplayShort(p) ==
    Shown(p[1]) \o (IF p[2] = Unset THEN <<>> ELSE <<":", Digits[p[2]]>>)
                \o (IF p[3] = Unset THEN <<>> ELSE <<":", Digits[p[3]]>>)

Joined(s, t) == s \o <<":">> \o t
KeepaliveDisplay(p) == Joined(Shown(p[1]), Joined(Shown(p[2]), Shown(p[3])))

\* to_socket2 keeps the milliseconds, set_tcp_keepalive has whole seconds, and
\* the kernel takes 1 to 32767 of them and 1 to 127 probes.
KernelTakes(p) ==
    /\ \A k \in {1, 3} : p[k] # Unset => p[k] \div 1000 \in 1..32767
    /\ p[2] # Unset => p[2] \in 1..127

ChmodVariants == {"owner", "group", "everybody"}
ChmodFromStr(t) == IF Is(t, ChmodVariants) THEN <<Lower(t[1])>> ELSE Error
ChmodDisplay(m) == <<m>>
=============================================================================
