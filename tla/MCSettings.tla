----------------------------- MODULE MCSettings -----------------------------
(***************************************************************************)
(* All texts of up to three tokens, vsock and keepalive texts of up to     *)
(* five, and environments with LISTEN_FDS at its limits.                   *)
(***************************************************************************)
EXTENDS Settings

CONSTANT missing    \* LISTEN_FDS is not set or no number

\* The largest u32 and the first number past it are scaled down.
MCLowerOf == ("INETD" :> "inetd") @@ ("SD-LISTEN" :> "sd-listen") @@ ("ANY" :> "any") @@ ("OWNER" :> "owner")
MCDigits == (0 :> "0") @@ (1 :> "1") @@ (2 :> "2") @@ (500 :> "500") @@ (60000 :> "60000") @@ (65536 :> "65536")
                @@ (2000000000 :> "4294967295")
MCNumberOf == [w \in {MCDigits[n] : n \in DOMAIN MCDigits} |-> CHOOSE n \in DOMAIN MCDigits : MCDigits[n] = w]
                @@ ("0500" :> 500) @@ ("4294967296" :> 2000000001)
MCHostsV6 == {"[::1]"}
MCHosts == {"127.0.0.1"} \cup MCHostsV6

Numbers == {"500", "65536"}
Punctuation == {"/", "./", "../", "@", ":", " "}
Names == {"inetd", "INETD", "stdio", "-", "sd-listen", "SD-LISTEN", "sd_listen", "sd-listen-unix",
          "vsock", "web", "*"} \cup MCHosts \cup Numbers
VsockTokens == {":", "host", "ANY", "1", "0500", "4294967295", "4294967296", "web"}
KeepaliveTokens == {":", " ", "2", "0500", "60000", "4294967295", "4294967296", "web"}

\* Two words in a row would be one.
Spelled(t) == \A i \in 1..(Len(t) - 1) : t[i] \in Punctuation \/ t[i + 1] \in Punctuation

AddressTexts == SeqOf(Punctuation \cup Names, 3) \cup {<<"vsock", ":">> \o t : t \in SeqOf(VsockTokens, 3)}
MCTexts ==
    [s \in {"address", "keepalive", "chmod"} |->
        CASE s = "address"   -> {t \in AddressTexts : Spelled(t)}
          [] s = "keepalive" -> {t \in SeqOf(KeepaliveTokens, 5) : Spelled(t)}
          [] s = "chmod"     -> {<<w>> : w \in {"owner", "OWNER", "group", "everybody", "web"}}]

\* What the variants of the pub enum and the fields of the pub struct can hold.
Strings == {<<"web">>, <<"inetd">>, <<"@", "web">>, <<"web", ":", "ctl">>, <<"*">>, <<"sd-listen">>}
FilePaths == Strings \cup {<<"./", "web">>, <<"/", "web">>, <<"../", "web">>, <<"xFF">>, <<"/", "xFF">>}
MCValues ==
    [s \in {"address", "keepalive", "chmod"} |->
        CASE s = "address" ->
                {<<"Tcp", h, 500, f>> : h \in MCHosts, f \in {"no flowinfo", "flowinfo"}}
                \cup {<<"Path", p>> : p \in FilePaths} \cup {<<"Abstract", t>> : t \in Strings}
                \cup {<<"Inetd">>} \cup {<<"FromFd", n>> : n \in {-I32Max - 1, -1, 0, 2, 3, 4, 5, 4098, I32Max}}
                \cup {<<"FromFdNamed", t>> : t \in Strings}
                \cup {<<"Vsock", n, m>> : n \in DOMAIN MCDigits, m \in DOMAIN MCDigits}
          [] s = "keepalive" -> [1..3 -> {Unset} \cup DOMAIN MCDigits]
          [] s = "chmod"     -> ChmodVariants]

MCEnvironments ==
    [pid : BOOLEAN,
     fds : {missing, -I32Max - 1, -3, -1, 0, 1, 2, 3, 4095, 4096, I32Max - 3, I32Max - 2, I32Max},
     names : {<<>>, <<<<>>>>, <<<<"web">>, <<"*">>, <<"inetd">>, <<"web">>>>}]
=============================================================================
