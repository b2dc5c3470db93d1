--------------------------- MODULE SettingsProofs ---------------------------
(***************************************************************************)
(* That "sd-listen:*" adopts all inherited descriptors, for all values of  *)
(* the LISTEN_* variables; and what becomes of a setting that is read and  *)
(* written, however often and whatever the text.                           *)
(***************************************************************************)
EXTENDS Settings, SettingTextProofs, TLAPS

LEMMA NoOverflow ==
    ASSUME NEW m \in 1..MaxPassed, NEW k \in 1..m
    PROVE  /\ m \in I32 /\ SD_LISTEN_FDS_START + k - 1 >= SD_LISTEN_FDS_START
           /\ m <= I32Max - SD_LISTEN_FDS_START
           /\ SD_LISTEN_FDS_START + k - 1 < SD_LISTEN_FDS_START + m
<1>1. m \in Int /\ 1 <= m /\ m <= 4095
  BY SMT DEF MaxPassed
<1>2. k \in Int /\ 1 <= k /\ k <= m
  BY <1>1, SMT
<1>3. m \in I32
  <2>1. I32Max \in Int /\ -I32Max - 1 <= m /\ m <= I32Max
    BY <1>1, SMT DEF I32Max
  <2>. QED
    BY <1>1, <2>1, SMT DEF I32
<1>4. m <= I32Max - SD_LISTEN_FDS_START
  BY <1>1, SMT DEF I32Max, SD_LISTEN_FDS_START
<1>. QED
  BY <1>1, <1>2, <1>3, <1>4, SMT DEF SD_LISTEN_FDS_START

LEMMA AdoptsAll ==
    ASSUME NEW e, e.pid, e.fds \in 1..MaxPassed
    PROVE  Adopts(e, <<"FromFdNamed", All>>) = SD_LISTEN_FDS_START .. (SD_LISTEN_FDS_START + e.fds - 1)
<1>. DEFINE l == Resolve(e, <<"FromFdNamed", All>>)
<1>1. l = [j \in 1..e.fds |-> FromFd(SD_LISTEN_FDS_START + j - 1)]
  BY DEF Resolve, listen_from_fd_all
<1>2. \A k \in DOMAIN l : l[k].name = SD_LISTEN_FDS_START + k - 1 /\ l[k] # Unusable
  BY <1>1 DEF FromFd, Unusable
<1>3. \A k \in 1..e.fds : check_env_for_fd(e, SD_LISTEN_FDS_START + k - 1)
  <2>. SUFFICES ASSUME NEW k \in 1..e.fds
                PROVE  check_env_for_fd(e, SD_LISTEN_FDS_START + k - 1)
    OBVIOUS
  <2>1. /\ e.fds \in I32 /\ SD_LISTEN_FDS_START + k - 1 >= SD_LISTEN_FDS_START
        /\ e.fds <= I32Max - SD_LISTEN_FDS_START
        /\ SD_LISTEN_FDS_START + k - 1 < SD_LISTEN_FDS_START + e.fds
    BY NoOverflow
  <2>. QED
    BY <2>1, Zenon DEF check_env_for_fd
<1>4. Adopts(e, <<"FromFdNamed", All>>) = {l[k].name : k \in DOMAIN l}
  <2>1. \A k \in DOMAIN l : l[k] # Unusable /\ check_env_for_fd(e, l[k].name)
    BY <1>1, <1>2, <1>3
  <2>. QED
    BY <2>1 DEF Adopts
<1>5. {l[k].name : k \in DOMAIN l} = {SD_LISTEN_FDS_START + k - 1 : k \in 1..e.fds}
  <2>1. DOMAIN l = 1..e.fds
    BY <1>1
  <2>. HIDE DEF l
  <2>. QED
    BY <1>2, <2>1
<1>6. {SD_LISTEN_FDS_START + k - 1 : k \in 1..e.fds} = SD_LISTEN_FDS_START .. (SD_LISTEN_FDS_START + e.fds - 1)
  <2>1. ASSUME NEW n \in SD_LISTEN_FDS_START .. (SD_LISTEN_FDS_START + e.fds - 1)
        PROVE  n - 2 \in 1..e.fds /\ n = SD_LISTEN_FDS_START + (n - 2) - 1
    BY DEF SD_LISTEN_FDS_START
  <2>2. ASSUME NEW k \in 1..e.fds
        PROVE  SD_LISTEN_FDS_START + k - 1 \in SD_LISTEN_FDS_START .. (SD_LISTEN_FDS_START + e.fds - 1)
    BY DEF SD_LISTEN_FDS_START
  <2>. QED
    BY <2>1, <2>2
<1>. QED
  BY <1>4, <1>5, <1>6

-----------------------------------------------------------------------------
\* The last step of a setting that is bound is its bind.
BoundInv ==
    /\ pc # "bound" => adopted = {}
    /\ pc = "bound" => /\ env \in Environments /\ SdListens(value)
                       /\ adopted = Adopts(env, value)

LEMMA BoundIsInvariant == Spec => []BoundInv
<1>1. Init => BoundInv
  BY DEF Init, BoundInv
<1>2. BoundInv /\ [Next]_vars => BoundInv'
  BY DEF BoundInv, Next, Read, Write, Bind, Apply, vars
<1>. QED
  BY <1>1, <1>2, PTL DEF Spec

(***************************************************************************)
(* "sd-listen:*" adopts every descriptor that was passed.                  *)
(***************************************************************************)
THEOREM AdoptsAllPassed == Spec => []AllPassed
<1>1. BoundInv => AllPassed
  BY AdoptsAll DEF BoundInv, AllPassed
<1>. QED
  BY <1>1, BoundIsInvariant, PTL

-----------------------------------------------------------------------------
(***************************************************************************)
(* The setting, read and written                                           *)
(***************************************************************************)
\* FromStr and Display of a type of setting.
Reads(T, t) ==
    IF T = "address" THEN AddressFromStr(t)
    ELSE IF T = "keepalive" THEN KeepaliveFromStr(t)
    ELSE ChmodFromStr(t)

Writes(T, x) ==
    IF T = "address" THEN AddressDisplay(x)
    ELSE IF T = "keepalive" THEN KeepaliveDisplay(x)
    ELSE ChmodDisplay(x)

Restored(T, x) == Reads(T, Writes(T, x)) = <<x>>
SameUse(T, x, y) == T = "address" => SameSocket(x, y)
Writable(T, x) == (T = "address" /\ x[1] = "Path") => IsUtf8(x[2])

Types == DOMAIN ValuesOf

LEMMA TheTypes ==
    /\ Types = {"address", "keepalive", "chmod"}
    /\ ValuesOf["address"] = AddressValues
    /\ ValuesOf["keepalive"] = KeepaliveValues
    /\ ValuesOf["chmod"] = ChmodVariants
BY DEF Types, ValuesOf

\* Whatever text a parser takes, it makes a value of the type of it, and
\* from a user's text one that Display can write.
LEMMA ReadFromAnyText ==
    ASSUME NEW T \in Types, NEW t \in Seq(STRING), Reads(T, t) # Error
    PROVE  \E x \in ValuesOf[T] : /\ Reads(T, t) = <<x>>
                                  /\ (T # "address" \/ IsUtf8(t)) => Restored(T, x)
<1>1. CASE T = "address"
  BY <1>1, TheTypes, AddressFromAnyText DEF Reads, Writes, Restored
<1>2. CASE T = "keepalive"
  BY <1>2, TheTypes, KeepaliveFromAnyText, KeepaliveIsRead DEF Reads, Writes, Restored
<1>3. CASE T = "chmod"
  BY <1>3, TheTypes, ChmodFromAnyText, ChmodIsRead DEF Reads, Writes, Restored
<1>. QED
  BY <1>1, <1>2, <1>3, TheTypes

\* A value that a program made is refused or put to the same use.
LEMMA WrittenByAProgram ==
    ASSUME NEW T \in Types, NEW x \in ValuesOf[T]
    PROVE  /\ T # "address" => Restored(T, x)
           /\ T = "address" => Writes(T, x) \in Seq(STRING)
           /\ (Reads(T, Writes(T, x)) # Error /\ Writable(T, x)) =>
                   SameUse(T, Reads(T, Writes(T, x))[1], x)
<1>1. CASE T = "address"
  <2>1. x \in AddressValues
    BY <1>1, TheTypes
  <2>2. Writes(T, x) \in Seq(STRING)
    BY <1>1, <2>1, DisplayIsText DEF Writes
  <2>3. (Reads(T, Writes(T, x)) # Error /\ Writable(T, x)) =>
            SameUse(T, Reads(T, Writes(T, x))[1], x)
    BY <1>1, <2>1, AddressOfAProgram DEF Reads, Writes, Writable, SameUse
  <2>. QED
    BY <1>1, <2>2, <2>3
<1>2. CASE T = "keepalive"
  BY <1>2, TheTypes, KeepaliveIsRead DEF Reads, Writes, Restored, SameUse
<1>3. CASE T = "chmod"
  BY <1>3, TheTypes, ChmodIsRead DEF Reads, Writes, Restored, SameUse
<1>. QED
  BY <1>1, <1>2, <1>3, TheTypes

\* A setting of a user, and any option: Display can write every value of it.
Faithful == origin = "user" \/ type # "address"

(***************************************************************************)
(* A setting is a text of the user, or a value of its type, or the text    *)
(* that Display made of that value, and a faithful value is restored from  *)
(* its text; the value that was read last is the one that was saved, or    *)
(* one that is put to the same use.                                        *)
(***************************************************************************)
SettingInv ==
    /\ type \in Types
    /\ pc = "read" => value \in ValuesOf[type]
    /\ pc = "written" =>
         \/ saved = {} /\ origin = "user" /\ text \in Texts[type]
         \/ saved = {value} /\ value \in ValuesOf[type] /\ text = Writes(type, value)
    /\ (Faithful /\ (pc = "read" \/ (pc = "written" /\ saved # {}))) => Restored(type, value)
    /\ (Faithful /\ saved # {}) => pc # "refused"
    /\ (Faithful /\ pc = "read") => \A a \in saved : value = a
    /\ pc = "read" => \A a \in saved : Writable(type, a) => SameUse(type, value, a)

LEMMA SettingAtFirst == Init => SettingInv
<1>. SUFFICES ASSUME Init PROVE SettingInv
  OBVIOUS
<1>1. type \in Types /\ saved = {}
  BY DEF Init, Types
<1>2. CASE origin = "user" /\ pc = "written" /\ text \in Texts[type]
  BY <1>1, <1>2 DEF SettingInv
<1>3. CASE origin = "program" /\ pc = "read" /\ value \in Values[type]
  <2>1. value \in ValuesOf[type]
    BY <1>1, <1>3, SettingsAssumption DEF Types
  <2>2. Faithful => Restored(type, value)
    BY <1>1, <1>3, <2>1, WrittenByAProgram DEF Faithful
  <2>. QED
    BY <1>1, <1>3, <2>1, <2>2 DEF SettingInv
<1>. QED
  BY <1>2, <1>3 DEF Init

\* A user's text, or the one that Display wrote, is read.
LEMMA SettingRead == SettingInv /\ Read => SettingInv'
<1>. SUFFICES ASSUME SettingInv, Read PROVE SettingInv'
  OBVIOUS
<1>. DEFINE r == Reads(type, text)
<1>1. /\ type \in Types /\ pc = "written"
      /\ UNCHANGED <<type, origin, text, saved>>
      /\ \/ r # Error /\ pc' = "read" /\ value' = r[1]
         \/ r = Error /\ pc' = "refused" /\ UNCHANGED value
  BY DEF SettingInv, Read, FromStr, Reads
<1>2. Faithful' = Faithful
  BY <1>1 DEF Faithful
<1>3. CASE saved = {} /\ origin = "user" /\ text \in Texts[type]
  <2>1. text \in Seq(STRING) /\ IsUtf8(text)
    BY <1>1, <1>3, SettingsAssumption DEF Types
  <2>2. CASE r = Error
    BY <1>1, <1>3, <2>2 DEF SettingInv
  <2>3. CASE r # Error
    <3>1. PICK x \in ValuesOf[type] : r = <<x>> /\ Restored(type, x)
      BY <1>1, <2>1, <2>3, ReadFromAnyText
    <3>2. pc' = "read" /\ value' = x
      <4>. HIDE DEF r
      <4>. QED
        BY <1>1, <2>3, <3>1
    <3>. QED
      BY <1>1, <1>3, <3>1, <3>2 DEF SettingInv
  <2>. QED
    BY <2>2, <2>3
<1>4. CASE saved = {value} /\ value \in ValuesOf[type] /\ text = Writes(type, value)
  <2>1. CASE Faithful
    <3>1. r = <<value>>
      BY <1>1, <1>4, <2>1 DEF SettingInv, Restored
    <3>2. r # Error /\ r[1] = value
      <4>. HIDE DEF r
      <4>. QED
        BY <3>1 DEF Error
    <3>3. pc' = "read" /\ value' = value
      BY <1>1, <3>2
    <3>4. SameUse(type, value, value)
      BY SameItself DEF SameUse
    <3>5. Restored(type, value)
      BY <1>1, <1>4, <2>1 DEF SettingInv
    <3>. QED
      BY <1>1, <1>4, <3>3, <3>4, <3>5 DEF SettingInv
  <2>2. CASE ~Faithful
    <3>1. type = "address" /\ origin # "user"
      BY <2>2 DEF Faithful
    <3>2. CASE r = Error
      BY <1>1, <1>2, <1>4, <2>2, <3>2 DEF SettingInv
    <3>3. CASE r # Error
      <4>1. pc' = "read" /\ value' = r[1]
        BY <1>1, <3>3
      <4>2. text \in Seq(STRING) /\ (Writable(type, value) => SameUse(type, r[1], value))
        BY <1>1, <1>4, <3>1, <3>3, WrittenByAProgram
      <4>3. r[1] \in ValuesOf[type]
        <5>1. PICK x \in ValuesOf[type] : r = <<x>>
          BY <1>1, <3>3, <4>2, ReadFromAnyText
        <5>. HIDE DEF r
        <5>. QED
          BY <5>1
      <4>. HIDE DEF r
      <4>. QED
        BY <1>1, <1>2, <1>4, <2>2, <4>1, <4>2, <4>3 DEF SettingInv
    <3>. QED
      BY <3>2, <3>3
  <2>. QED
    BY <2>1, <2>2
<1>. QED
  BY <1>1, <1>3, <1>4 DEF SettingInv

LEMMA SettingWrite == SettingInv /\ Write => SettingInv'
<1>. SUFFICES ASSUME SettingInv, Write PROVE SettingInv'
  OBVIOUS
<1>1. /\ type \in Types /\ pc = "read" /\ value \in ValuesOf[type]
      /\ UNCHANGED <<type, origin, value>>
      /\ pc' = "written" /\ saved' = {value} /\ text' = Writes(type, value)
      /\ Faithful => Restored(type, value)
  BY DEF SettingInv, Write, Display, Writes
<1>. QED
  BY <1>1 DEF SettingInv, Faithful

LEMMA SettingIsInvariant == Spec => []SettingInv
<1>1. SettingInv /\ [Next]_vars => SettingInv'
  <2>. SUFFICES ASSUME SettingInv, [Next]_vars PROVE SettingInv'
    OBVIOUS
  <2>1. CASE Read
    BY <2>1, SettingRead
  <2>2. CASE Write
    BY <2>2, SettingWrite
  <2>3. CASE Bind
    BY <2>3 DEF Bind, SettingInv, Faithful
  <2>4. CASE Apply
    BY <2>4 DEF Apply, SettingInv, Faithful
  <2>5. CASE UNCHANGED vars
    BY <2>5 DEF vars, SettingInv, Faithful
  <2>. QED
    BY <2>1, <2>2, <2>3, <2>4, <2>5 DEF Next
<1>. QED
  BY <1>1, SettingAtFirst, PTL DEF Spec

(***************************************************************************)
(* What a user wrote, and any keepalive or chmod option, is read back as   *)
(* it was when Display has written it.                                     *)
(***************************************************************************)
THEOREM SavedIsReadBack == Spec => []ReadsBack
<1>1. SettingInv => ReadsBack
  BY DEF SettingInv, ReadsBack, Faithful
<1>. QED
  BY <1>1, SettingIsInvariant, PTL

(***************************************************************************)
(* An address that a program made is refused when it is read back, or      *)
(* leads to the same socket, unless it is a path that is no UTF-8.         *)
(***************************************************************************)
THEOREM LeadsNowhereElse == Spec => []NeverElsewhere
<1>1. SettingInv => NeverElsewhere
  BY DEF SettingInv, NeverElsewhere, Writable, SameUse
<1>. QED
  BY <1>1, SettingIsInvariant, PTL
=============================================================================
