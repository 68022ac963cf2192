--------------------------- MODULE BmsCodec_proofs ---------------------------
(***************************************************************************)
(* Packing and unpacking of signals, for every layout.                     *)
(*                                                                         *)
(* The routing of identifiers, for any set of batteries and any stray      *)
(* identifier: the identifier made for a message and a battery leads back  *)
(* to both, because its low twelve bits do and no other message's own      *)
(* identifier has those bits.                                              *)
(*                                                                         *)
(* What is read, for any payloads.  The rows of a message are taken a few  *)
(* at a time: windows that follow one another, each with a name of its     *)
(* own, so each is read back alone.  That the packing function of BmsTx    *)
(* and the sum behind a raw value are defined is shown by the smallest     *)
(* argument for which they are not.  Exchange and Carried say which frame  *)
(* is under way and that what was taken came from what was sent.           *)
(*                                                                         *)
(* Steps that see identifiers name the SMT backend: Zenon writes numbers   *)
(* in unary.                                                               *)
(***************************************************************************)
EXTENDS BmsCodec, FiniteSetTheorems, WellFoundedInduction, TLAPS

\* A window of the eight data bytes.
InFrame(start, len) == start \in Nat /\ len \in Nat \ {0} /\ start + len <= 64

\* Packing within the eight bytes replaces the window.
LEMMA PackInFrame ==
    ASSUME NEW data, NEW start, NEW len, NEW value, InFrame(start, len)
    PROVE  PackBits(data, start, len, value) =
             (data \ (start .. start + len - 1)) \cup
                {start + b : b \in value \cap (0 .. len - 1)}
  BY DEF PackBits, InFrame

\* Extracting within the eight bytes shifts the window down.
LEMMA ExtractInFrame ==
    ASSUME NEW data, NEW start, NEW len, InFrame(start, len)
    PROVE  ExtractBits(data, start, len) =
             {p - start : p \in data \cap (start .. start + len - 1)}
  BY DEF ExtractBits, InFrame

\* What BmsTx packs into a window, BmsProto takes out of it again, cut to the
\* width of the window and whatever the data held before.
THEOREM ExtractPacked ==
    ASSUME NEW data \in SUBSET (0..63), NEW start, NEW len,
           NEW value \in SUBSET Nat, InFrame(start, len)
    PROVE  ExtractBits(PackBits(data, start, len, value), start, len)
             = value \cap (0 .. len - 1)
  <1> DEFINE packed == PackBits(data, start, len, value)
  <1>1. packed = (data \ (start .. start + len - 1)) \cup
                    {start + b : b \in value \cap (0 .. len - 1)}
    BY PackInFrame
  <1>2. ExtractBits(packed, start, len) =
          {p - start : p \in packed \cap (start .. start + len - 1)}
    BY ExtractInFrame
  <1>3. ASSUME NEW b \in value \cap (0 .. len - 1)
        PROVE  b \in ExtractBits(packed, start, len)
    <2>1. start + b \in packed \cap (start .. start + len - 1)
      BY <1>1, <1>3 DEF InFrame
    <2>2. (start + b) - start = b
      BY <1>3 DEF InFrame
    <2> QED BY <1>2, <2>1, <2>2
  <1>4. ASSUME NEW b \in ExtractBits(packed, start, len)
        PROVE  b \in value \cap (0 .. len - 1)
    <2>1. PICK p \in packed \cap (start .. start + len - 1) : b = p - start
      BY <1>2, <1>4
    <2>2. PICK c \in value \cap (0 .. len - 1) : p = start + c
      BY <1>1, <2>1
    <2>3. b = c
      BY <2>1, <2>2 DEF InFrame
    <2> QED BY <2>2, <2>3
  <1> QED BY <1>3, <1>4

\* Packing one window leaves every window beside it as it was: the order in
\* which buildFrameForInstance packs disjoint signals does not matter.
THEOREM PackedElsewhere ==
    ASSUME NEW data \in SUBSET (0..63), NEW start, NEW len,
           NEW value \in SUBSET Nat, InFrame(start, len),
           NEW s2, NEW l2, InFrame(s2, l2),
           s2 + l2 <= start \/ start + len <= s2
    PROVE  ExtractBits(PackBits(data, start, len, value), s2, l2)
             = ExtractBits(data, s2, l2)
  <1> DEFINE packed == PackBits(data, start, len, value)
  <1>1. packed = (data \ (start .. start + len - 1)) \cup
                    {start + b : b \in value \cap (0 .. len - 1)}
    BY PackInFrame
  <1>2. packed \cap (s2 .. s2 + l2 - 1) = data \cap (s2 .. s2 + l2 - 1)
    <2>1. ASSUME NEW p \in s2 .. s2 + l2 - 1
          PROVE  p \notin start .. start + len - 1
      BY <2>1 DEF InFrame
    <2>2. ASSUME NEW b \in value \cap (0 .. len - 1)
          PROVE  start + b \in start .. start + len - 1
      BY <2>2 DEF InFrame
    <2>3. ASSUME NEW p \in s2 .. s2 + l2 - 1
          PROVE  p \in packed <=> p \in data
      BY <1>1, <2>1, <2>2, <2>3
    <2> QED BY <2>3
  <1>3. /\ ExtractBits(packed, s2, l2) = {p - s2 : p \in packed \cap (s2 .. s2 + l2 - 1)}
        /\ ExtractBits(data, s2, l2) = {p - s2 : p \in data \cap (s2 .. s2 + l2 - 1)}
    BY ExtractInFrame
  <1> QED BY <1>2, <1>3

-----------------------------------------------------------------------------
(* Identifiers.                                                            *)

\* The code of each message of the table.
CodeOf ==
    [V2B_CMD |-> 1, B2V_Fult1_32960 |-> 2, B2V_Fult2 |-> 3, B2V_ST1 |-> 4,
     B2V_ST2 |-> 5, B2V_ST3 |-> 6, B2V_ST4 |-> 7, B2V_ST5 |-> 8,
     B2V_ST6 |-> 9, B2V_ST7 |-> 10, B2V_ElecEnergy |-> 11,
     B2V_CurrentLimit |-> 12, B2TM_Info |-> 13, TM2B_Info |-> 14,
     Fire2B_state |-> 15]

\* The router's copy of the identifiers agrees with the table, and no two messages
\* have one code.
LEMMA TableCodes ==
    /\ \A m \in MessageNames : CodeOf[m] \in 1..15 /\ Messages[m].id = ProtoIds[CodeOf[m]]
    /\ \A m, n \in MessageNames : CodeOf[m] = CodeOf[n] => m = n
  <1>1. MessageNames = {"V2B_CMD", "B2V_Fult1_32960", "B2V_Fult2", "B2V_ST1", "B2V_ST2", "B2V_ST3",
                        "B2V_ST4", "B2V_ST5", "B2V_ST6", "B2V_ST7", "B2V_ElecEnergy",
                        "B2V_CurrentLimit", "B2TM_Info", "TM2B_Info", "Fire2B_state"}
    BY SMT DEF MessageNames, Messages
  <1>2. \A m \in MessageNames : CodeOf[m] \in 1..15
    BY <1>1, SMT DEF CodeOf
  <1>3. ASSUME NEW m \in MessageNames PROVE Messages[m].id = ProtoIds[CodeOf[m]]
    <2>1. /\ Messages["V2B_CMD"].id = ProtoIds[1]
          /\ Messages["B2V_Fult1_32960"].id = ProtoIds[2]
          /\ Messages["B2V_Fult2"].id = ProtoIds[3]
          /\ Messages["B2V_ST1"].id = ProtoIds[4]
          /\ Messages["B2V_ST2"].id = ProtoIds[5]
      BY SMT DEF Messages, Message, ProtoIds
    <2>2. /\ Messages["B2V_ST3"].id = ProtoIds[6]
          /\ Messages["B2V_ST4"].id = ProtoIds[7]
          /\ Messages["B2V_ST5"].id = ProtoIds[8]
          /\ Messages["B2V_ST6"].id = ProtoIds[9]
          /\ Messages["B2V_ST7"].id = ProtoIds[10]
      BY SMT DEF Messages, Message, ProtoIds
    <2>3. /\ Messages["B2V_ElecEnergy"].id = ProtoIds[11]
          /\ Messages["B2V_CurrentLimit"].id = ProtoIds[12]
          /\ Messages["B2TM_Info"].id = ProtoIds[13]
          /\ Messages["TM2B_Info"].id = ProtoIds[14]
          /\ Messages["Fire2B_state"].id = ProtoIds[15]
      BY SMT DEF Messages, Message, ProtoIds
    <2> QED BY <1>1, <2>1, <2>2, <2>3, SMT DEF CodeOf
  <1>4. \A m, n \in MessageNames : CodeOf[m] = CodeOf[n] => m = n
    BY <1>1, SMT DEF CodeOf
  <1> QED BY <1>2, <1>3, <1>4, SMT

\* The identifiers of the fifteen codes: different, nonzero, 29 bits wide, and only
\* the last has low bits that could name a battery and a code.
LEMMA ProtoIdFacts ==
    /\ DOMAIN ProtoIds = 1..15
    /\ \A c \in 1..15 : ProtoIds[c] \in Nat \ {0}
    /\ \A c \in 1..15 : ProtoIds[c] % 4096 \in {1007, 4083, 1524, 314, 271}
    /\ \A c \in 1..15 : ProtoIds[c] % 4096 = 271 => c = 15
    /\ \A c, e \in 1..15 : ProtoIds[c] = ProtoIds[e] => c = e
  <1>1. DOMAIN ProtoIds = 1..15
    BY SMT DEF ProtoIds
  <1>2. \A c \in 1..15 : ProtoIds[c] \in Nat \ {0}
    BY SMT DEF ProtoIds
  <1>3. \A c \in 1..15 : ProtoIds[c] % 4096 \in {1007, 4083, 1524, 314, 271}
    BY SMT DEF ProtoIds
  <1>4. \A c \in 1..15 : ProtoIds[c] % 4096 = 271 => c = 15
    BY SMT DEF ProtoIds
  <1>5. \A c, e \in 1..15 : ProtoIds[c] = ProtoIds[e] => c = e
    BY SMT DEF ProtoIds
  <1> QED BY <1>1, <1>2, <1>3, <1>4, <1>5, SMT

\* Template t with battery i and code c in its low bits.
RuntimeId(t, i, c) == (t - (t % 4096)) + i * 256 + c

\* The low bits of r name battery i and code c.
Names(r, i, c) ==
    /\ r \in Nat \ {0} /\ r % 4096 = i * 256 + c
    /\ ExtractInstanceIndex(r) = i /\ ExtractMsgCode(r) = c

\* The low bits of an identifier made for battery i and code c.
LEMMA RuntimeBits ==
    ASSUME NEW t \in Nat, NEW i \in 1..4, NEW c \in 1..15, NEW r, r = RuntimeId(t, i, c)
    PROVE  Names(r, i, c)
  <1>1. r \in Nat \ {0} /\ r % 4096 = i * 256 + c
    BY SMT DEF RuntimeId
  <1>2. (i * 256 + c) \div 256 = i /\ (i * 256 + c) % 256 = c
    BY SMT
  <1> QED BY <1>1, <1>2, SMT DEF Names, ExtractInstanceIndex, ExtractMsgCode, IsValidInstance

\* A table identifier leads back to its code.
LEMMA CodeOfProtoId ==
    ASSUME NEW c \in 1..15 PROVE MsgCodeFromProtoId(ProtoIds[c]) = c /\ ProtoIdFromMsgCode(c) = ProtoIds[c]
  <1>1. /\ \E e \in DOMAIN ProtoIds : ProtoIds[e] = ProtoIds[c]
        /\ \A e \in DOMAIN ProtoIds : ProtoIds[e] = ProtoIds[c] => e = c
    BY ProtoIdFacts
  <1>2. (CHOOSE e \in DOMAIN ProtoIds : ProtoIds[e] = ProtoIds[c]) = c
    BY <1>1
  <1>3. MsgCodeFromProtoId(ProtoIds[c]) = c
    BY <1>1, <1>2 DEF MsgCodeFromProtoId
  <1>4. ProtoIdFromMsgCode(c) = ProtoIds[c]
    BY ProtoIdFacts DEF ProtoIdFromMsgCode
  <1> QED BY <1>3, <1>4

\* An identifier made for a battery is a table identifier only if it is that of its
\* own message (the fire message of battery 1), and leads to its own code.
LEMMA CodeOfRuntimeId ==
    ASSUME NEW i \in 1..4, NEW c \in 1..15, NEW r,
           r = RuntimeId(ProtoIds[c], i, c)
    PROVE  /\ MsgCodeFromProtoId(r) = c
           /\ \A e \in 1..15 : ProtoIds[e] = r => e = c
  <1>1. ProtoIds[c] \in Nat
    BY ProtoIdFacts
  <1>2. /\ r \in Nat \ {0} /\ r % 4096 = i * 256 + c
        /\ ExtractInstanceIndex(r) = i /\ ExtractMsgCode(r) = c
    <2>1. Names(r, i, c)
      BY <1>1, RuntimeBits
    <2> QED BY <2>1 DEF Names
  <1>3. ASSUME NEW e \in 1..15, ProtoIds[e] = r PROVE e = c
    <2>1. i * 256 + c \in {1007, 4083, 1524, 314, 271}
      BY <1>2, <1>3, ProtoIdFacts
    <2>2. i = 1 /\ c = 15
      BY <2>1, SMT
    <2>3. r % 4096 = 271
      BY <1>2, <2>2, SMT
    <2> QED BY <1>3, <2>2, <2>3, ProtoIdFacts
  <1>4. r # FireTemplateId
    <2>1. FireTemplateId % 4096 = 2038
      BY SMT DEF FireTemplateId
    <2>2. i * 256 + c # 2038
      BY SMT
    <2> QED BY <1>2, <2>1, <2>2
  <1>5. CASE r = ProtoIds[c]
    BY <1>5, <1>3, CodeOfProtoId
  <1>6. CASE r # ProtoIds[c]
    <2>1. ~\E e \in DOMAIN ProtoIds : ProtoIds[e] = r
      BY <1>3, <1>6, ProtoIdFacts
    <2>2. ProtoIdFromMsgCode(c) # 0
      BY CodeOfProtoId, ProtoIdFacts
    <2>3. DecodesAsRuntime(r)
      BY <1>2, <2>2 DEF DecodesAsRuntime, IsValidInstance
    <2> QED BY <1>2, <1>3, <1>4, <2>1, <2>3 DEF MsgCodeFromProtoId
  <1> QED BY <1>5, <1>6

\* The frame battery i sends with message m leads to m and to i.
LEMMA RoutesBack ==
    ASSUME NEW m \in MessageNames, NEW i \in 1..4, NEW r, r = RewriteRuntimeId(Messages[m].id, i)
    PROVE  FindMessage(r) = {m} /\ ExtractInstanceIndex(r) = i /\ r # 0
  <1> DEFINE c == CodeOf[m]
             Named(x) == {n \in MessageNames : Messages[n].id = x}
  <1>1. c \in 1..15 /\ Messages[m].id = ProtoIds[c]
    BY TableCodes
  <1> HIDE DEF c
  <1>2. MsgCodeFromProtoId(ProtoIds[c]) = c /\ ProtoIdFromMsgCode(c) = ProtoIds[c]
        /\ ProtoIds[c] \in Nat \ {0}
    BY <1>1, CodeOfProtoId, ProtoIdFacts
  <1>3. r = RuntimeId(ProtoIds[c], i, c)
    BY <1>1, <1>2 DEF RuntimeId, RewriteRuntimeId, IsValidInstance
  <1>4. MsgCodeFromProtoId(r) = c /\ \A e \in 1..15 : ProtoIds[e] = r => e = c
    BY <1>1, <1>3, CodeOfRuntimeId
  <1>5. r \in Nat \ {0} /\ ExtractInstanceIndex(r) = i
    <2>1. Names(r, i, c)
      BY <1>1, <1>2, <1>3, RuntimeBits
    <2> QED BY <2>1 DEF Names
  <1>6. NormalizeToProtoId(r) = ProtoIds[c]
    BY <1>2, <1>4 DEF NormalizeToProtoId
  <1>7. Named(ProtoIds[c]) = {m}
    <2>1. ASSUME NEW n \in MessageNames, Messages[n].id = ProtoIds[c] PROVE n = m
      <3>1. CodeOf[n] = c
        BY <1>1, <2>1, TableCodes, ProtoIdFacts
      <3> QED BY <3>1, TableCodes DEF c
    <2> QED BY <1>1, <2>1
  <1>8. Named(r) # {} => r = ProtoIds[c]
    <2> SUFFICES ASSUME NEW n \in MessageNames, Messages[n].id = r PROVE r = ProtoIds[c]
      OBVIOUS
    <2>1. CodeOf[n] \in 1..15 /\ ProtoIds[CodeOf[n]] = r
      BY TableCodes
    <2> QED BY <1>4, <2>1
  <1>9. FindMessage(r) = IF Named(r) # {} THEN Named(r) ELSE Named(NormalizeToProtoId(r))
    BY DEF FindMessage
  <1> QED BY <1>5, <1>6, <1>7, <1>8, <1>9

\* A stray identifier leads nowhere.
LEMMA StrayIsDropped == ASSUME NEW id \in StrayIds PROVE FindMessage(id) = {}
  <1> DEFINE Named(x) == {n \in MessageNames : Messages[n].id = x}
  <1>0. /\ id \in Nat /\ id # FireTemplateId
        /\ \A c \in 1..15 : id # ProtoIds[c] /\ \A i \in 1..4 : id % 4096 # i * 256 + c
    BY StrayIdsAssumption, SMT
  <1>1. MsgCodeFromProtoId(id) = 0
    <2>1. ~DecodesAsRuntime(id)
      <3> SUFFICES ASSUME DecodesAsRuntime(id) PROVE FALSE
        OBVIOUS
      <3> DEFINE low == id % 4096
                 i == low \div 256
                 c == low % 256
      <3>1. IsValidInstance(ExtractInstanceIndex(id)) /\ ProtoIdFromMsgCode(c) # 0
        BY DEF DecodesAsRuntime, ExtractMsgCode
      <3>2. c \in 1..15
        BY <3>1, ProtoIdFacts DEF ProtoIdFromMsgCode
      <3>3. i \in 1..4
        BY <3>1, SMT DEF ExtractInstanceIndex, IsValidInstance
      <3>4. low \in Nat
        BY <1>0, SMT
      <3> HIDE DEF low
      <3>5. low = i * 256 + c
        BY <3>4, SMT
      <3> QED BY <1>0, <3>2, <3>3, <3>5 DEF low
    <2>2. ~\E c \in DOMAIN ProtoIds : ProtoIds[c] = id
      BY <1>0, ProtoIdFacts
    <2> QED BY <1>0, <2>1, <2>2 DEF MsgCodeFromProtoId
  <1>2. ProtoIdFromMsgCode(0) = 0
    BY ProtoIdFacts DEF ProtoIdFromMsgCode
  <1>3. NormalizeToProtoId(id) = id
    BY <1>1, <1>2 DEF NormalizeToProtoId
  <1>4. Named(id) = {}
    <2> SUFFICES ASSUME NEW n \in MessageNames, Messages[n].id = id PROVE FALSE
      OBVIOUS
    <2>1. CodeOf[n] \in 1..15 /\ ProtoIds[CodeOf[n]] = id
      BY TableCodes
    <2>2. MsgCodeFromProtoId(id) = CodeOf[n]
      BY <2>1, CodeOfProtoId
    <2> QED BY <1>1, <2>1, <2>2
  <1> QED BY <1>3, <1>4 DEF FindMessage

\* No message is called "none", under its own or its canonical name.
LEMMA NamesAreNames == \A m \in MessageNames : m # "none" /\ CanonicalMsgName(m) # "none"
  BY SMT DEF MessageNames, Messages, CanonicalMsgName

\* What the adapter is given of decoded data d, and keeps of it.
Taken(d) ==
    [msg |-> d.msg, inst |-> d.inst,
     raw |-> [n \in DOMAIN d.num \cup DOMAIN d.value |-> IF n \in DOMAIN d.num THEN d.num[n] ELSE d.value[n]],
     cache |-> IF d.msg \in DOMAIN Readers THEN ReadSignals(d) ELSE [n \in {} |-> 0]]

\* The frame on the wire is a stray one or carries the identifier of what was sent;
\* once received, what was sent was named.
Exchange ==
    \/ /\ sent = Nothing /\ got = Nothing
       /\ wire = NoFrame \/ wire.id \in StrayIds
    \/ \E m \in MessageNames, i \in 1..4 :
         /\ sent # Nothing /\ sent.msg = m /\ sent.inst = i
         /\ \/ wire # NoFrame /\ wire.id = RewriteRuntimeId(Messages[m].id, i)
            \/ /\ wire = NoFrame /\ got # Nothing
               /\ got.inst = i /\ got.msg = CanonicalMsgName(m)

\* Sending and receiving keep it.
LEMMA ExchangeStep == Exchange /\ [Next]_vars => Exchange'
  <1> SUFFICES ASSUME Exchange, [Next]_vars PROVE Exchange'
    OBVIOUS
  <1>1. ASSUME NEW i \in Batteries, NEW m \in MessageNames, NEW vals,
               sent' = [msg |-> m, inst |-> i, vals |-> vals],
               wire'.id = RewriteRuntimeId(Messages[m].id, i)
        PROVE  Exchange'
    <2>1. i \in 1..4
      BY BatteriesAssumption
    <2>2. RewriteRuntimeId(Messages[m].id, i) # 0
      BY <2>1, RoutesBack
    <2>3. wire' # NoFrame
      BY <1>1, <2>2 DEF NoFrame
    <2>4. sent' # Nothing /\ sent'.msg = m /\ sent'.inst = i
      BY <1>1, NamesAreNames DEF Nothing
    <2> QED BY <1>1, <2>1, <2>3, <2>4 DEF Exchange
  <1>2. ASSUME NEW i \in Batteries, CommandSend(i) PROVE Exchange'
    <2>1. "V2B_CMD" \in MessageNames
      BY SMT DEF MessageNames, Messages
    <2>2. PICK vals : sent' = [msg |-> "V2B_CMD", inst |-> i, vals |-> vals] /\ wire' = BuildFrame(i, vals)
      BY <1>2 DEF CommandSend
    <2>3. wire'.id = RewriteRuntimeId(Messages["V2B_CMD"].id, i)
      BY <2>2 DEF BuildFrame
    <2> QED BY <1>1, <2>1, <2>2, <2>3
  <1>3. ASSUME NEW i \in Batteries, BatterySend(i) PROVE Exchange'
    <2>1. PICK m \in MessageNames \ {"V2B_CMD"} : \E vals :
            /\ sent' = [msg |-> m, inst |-> i, vals |-> vals]
            /\ wire' = [id |-> RewriteRuntimeId(Messages[m].id, i), bits |-> PeerEncodes(m, vals)]
      BY <1>3 DEF BatterySend
    <2>2. wire'.id = RewriteRuntimeId(Messages[m].id, i)
      BY <2>1
    <2> QED BY <1>1, <2>1, <2>2
  <1>4. CASE StraySend
    <2>1. sent' = Nothing /\ got' = got /\ wire'.id \in StrayIds /\ sent = Nothing
      BY <1>4 DEF StraySend, Idle
    <2>2. got = Nothing
      BY <2>1 DEF Exchange
    <2> QED BY <2>1, <2>2 DEF Exchange
  <1>5. CASE Receive
    <2>1. wire # NoFrame /\ wire' = NoFrame /\ sent' = sent
      BY <1>5 DEF Receive
    <2>2. \/ FindMessage(wire.id) = {} /\ got' = Nothing
          \/ \E m \in FindMessage(wire.id) : got'.msg = CanonicalMsgName(m) /\ got'.inst = ExtractInstanceIndex(wire.id)
      <3>1. \A m : /\ Taken(Parse(wire, m)).msg = CanonicalMsgName(m)
                  /\ Taken(Parse(wire, m)).inst = ExtractInstanceIndex(wire.id)
        BY DEF Parse, Taken
      <3>2. \/ FindMessage(wire.id) = {} /\ got' = Nothing
            \/ \E m \in FindMessage(wire.id) : got' = Taken(Parse(wire, m))
        BY <1>5 DEF Receive, Taken
      <3> QED BY <3>1, <3>2
    <2>3. CASE sent = Nothing
      <3>1. wire.id \in StrayIds
        BY <2>1, <2>3 DEF Exchange
      <3> QED BY <2>1, <2>2, <2>3, <3>1, StrayIsDropped DEF Exchange
    <2>4. CASE sent # Nothing
      <3>1. PICK m \in MessageNames, i \in 1..4 : /\ sent.msg = m /\ sent.inst = i
                                                  /\ wire.id = RewriteRuntimeId(Messages[m].id, i)
        BY <2>1, <2>4 DEF Exchange
      <3>2. FindMessage(wire.id) = {m} /\ ExtractInstanceIndex(wire.id) = i
        BY <3>1, RoutesBack
      <3>3. got'.msg = CanonicalMsgName(m) /\ got'.inst = i
        BY <2>2, <3>2
      <3>4. got' # Nothing
        BY <3>3, NamesAreNames DEF Nothing
      <3> QED BY <2>1, <2>4, <3>1, <3>3, <3>4 DEF Exchange
    <2> QED BY <2>3, <2>4
  <1>6. CASE UNCHANGED vars
    BY <1>6 DEF vars, Exchange
  <1> QED BY <1>2, <1>3, <1>4, <1>5, <1>6 DEF Next

\* Every message arrives as itself and from the battery that sent it, for any
\* batteries on the bus, and every identifier that names no message is dropped,
\* whichever of the 2^29 it is (BmsFrameRouter, ProtoBmsTableRuntime::findMessage).
THEOREM RoutedToSenderAlways == Spec => []RoutedToSender
  <1>1. Init => Exchange
    BY DEF Init, Exchange
  <1>2. Exchange => RoutedToSender
    BY DEF Exchange, RoutedToSender
  <1> QED BY <1>1, <1>2, ExchangeStep, PTL DEF Spec

-----------------------------------------------------------------------------
(* Messages as sequences of rows.                                          *)

\* The rows of s lie in the bits lo to hi - 1 of the frame.
Within(s, lo, hi) ==
    \A i \in DOMAIN s : /\ InFrame(s[i].start, s[i].len)
                        /\ lo <= s[i].start /\ s[i].start + s[i].len <= hi

\* The rows of s are in ascending order and do not overlap.
Ascends(s) ==
    \A i \in DOMAIN s : \A j \in DOMAIN s : i < j => s[i].start + s[i].len <= s[j].start

\* Both, for a sequence of rows.
Laid(s, lo, hi) ==
    /\ s \in Seq(Range(s)) /\ lo \in Nat /\ hi \in Nat /\ lo <= hi /\ hi <= 64
    /\ Within(s, lo, hi) /\ Ascends(s)

\* The elements of two sequences one after the other.
LEMMA Joined ==
    ASSUME NEW S, NEW s \in Seq(S), NEW T, NEW t \in Seq(T)
    PROVE  /\ s \o t \in Seq(S \cup T) /\ Len(s \o t) = Len(s) + Len(t)
           /\ \A i \in DOMAIN s : i \in DOMAIN (s \o t) /\ (s \o t)[i] = s[i]
           /\ \A j \in DOMAIN t : Len(s) + j \in DOMAIN (s \o t) /\ (s \o t)[Len(s) + j] = t[j]
           /\ \A k \in DOMAIN (s \o t) :
                \/ k \in DOMAIN s /\ (s \o t)[k] = s[k]
                \/ k - Len(s) \in DOMAIN t /\ (s \o t)[k] = t[k - Len(s)] /\ k > Len(s)
  OBVIOUS

\* The rows of two parts of a message.
LEMMA RowsJoined ==
    ASSUME NEW S, NEW s \in Seq(S), NEW T, NEW t \in Seq(T)
    PROVE  Range(s \o t) = Range(s) \cup Range(t)
  <1>1. ASSUME NEW x \in Range(s \o t) PROVE x \in Range(s) \cup Range(t)
    BY <1>1, Joined DEF Range
  <1>2. ASSUME NEW x \in Range(s) PROVE x \in Range(s \o t)
    <2>1. PICK i \in DOMAIN s : x = s[i]
      BY <1>2 DEF Range
    <2>2. i \in DOMAIN (s \o t) /\ (s \o t)[i] = s[i]
      BY Joined
    <2> QED BY <2>1, <2>2 DEF Range
  <1>3. ASSUME NEW x \in Range(t) PROVE x \in Range(s \o t)
    <2>1. PICK j \in DOMAIN t : x = t[j]
      BY <1>3 DEF Range
    <2>2. Len(s) + j \in DOMAIN (s \o t) /\ (s \o t)[Len(s) + j] = t[j]
      BY Joined
    <2> QED BY <2>1, <2>2 DEF Range
  <1> QED BY <1>1, <1>2, <1>3

\* Two parts of a message, one after the other, are laid out like their parts.
LEMMA LaidJoined ==
    ASSUME NEW s, NEW t, NEW a, NEW b, NEW c, Laid(s, a, b), Laid(t, b, c)
    PROVE  Laid(s \o t, a, c) /\ Range(s \o t) = Range(s) \cup Range(t)
  <1> DEFINE st == s \o t
  <1>0. /\ s \in Seq(Range(s)) /\ t \in Seq(Range(t))
        /\ a \in Nat /\ b \in Nat /\ c \in Nat /\ a <= b /\ b <= c /\ c <= 64
    BY DEF Laid, Within, Ascends
  <1>1. Range(st) = Range(s) \cup Range(t)
    BY <1>0, RowsJoined
  <1>2. st \in Seq(Range(st))
    BY <1>0, <1>1, Joined
  <1>3. \A k \in DOMAIN st :
          \/ k \in DOMAIN s /\ st[k] = s[k]
          \/ k - Len(s) \in DOMAIN t /\ st[k] = t[k - Len(s)] /\ k > Len(s)
    BY <1>0, Joined
  <1>4. Len(s) \in Nat /\ DOMAIN s = 1 .. Len(s) /\ DOMAIN t = 1 .. Len(t) /\ DOMAIN st \subseteq Nat
    BY <1>0, <1>2
  <1> HIDE DEF st
  <1>5. ASSUME NEW i \in DOMAIN st
        PROVE InFrame(st[i].start, st[i].len) /\ a <= st[i].start /\ st[i].start + st[i].len <= c
    BY <1>3, <1>0 DEF Laid, Within, InFrame
  <1>6. ASSUME NEW i \in DOMAIN st, NEW j \in DOMAIN st, i < j
        PROVE  st[i].start + st[i].len <= st[j].start
    <2>1. CASE i \in DOMAIN s /\ st[i] = s[i] /\ j \in DOMAIN s /\ st[j] = s[j]
      BY <2>1, <1>6 DEF Laid, Within, Ascends
    <2>2. CASE i \in DOMAIN s /\ st[i] = s[i] /\ j - Len(s) \in DOMAIN t /\ st[j] = t[j - Len(s)]
      <3>1. s[i].start + s[i].len <= b /\ b <= t[j - Len(s)].start
        BY <2>2 DEF Laid, Within, Ascends
      <3>2. s[i].start \in Nat /\ s[i].len \in Nat /\ t[j - Len(s)].start \in Nat
        BY <2>2 DEF Laid, Within, InFrame
      <3> QED BY <3>1, <3>2, <2>2, <1>0
    <2>3. CASE i > Len(s) /\ j \in DOMAIN s
      BY <2>3, <1>4, <1>6
    <2>4. CASE /\ i - Len(s) \in DOMAIN t /\ st[i] = t[i - Len(s)]
               /\ j - Len(s) \in DOMAIN t /\ st[j] = t[j - Len(s)]
      <3>1. i - Len(s) < j - Len(s)
        BY <1>4, <1>6
      <3> QED BY <2>4, <3>1 DEF Laid, Within, Ascends
    <2> QED BY <1>3, <2>1, <2>2, <2>3, <2>4
  <1> QED BY <1>0, <1>1, <1>2, <1>5, <1>6 DEF Laid, Within, Ascends, st

\* The bits of the frame a row occupies in Intel order.
Window(row) == row.start .. row.start + row.len - 1
Shifted(row, raw) == {row.start + b : b \in raw}

\* Each raw value fits its row.
Fit(s, vals) ==
    /\ DOMAIN vals = DOMAIN s
    /\ \A k \in DOMAIN s : vals[k] \subseteq 0 .. s[k].len - 1

\* What the first k steps of buildFrameForInstance have packed.
PackedTo(s, vals, k) == UNION {Shifted(s[j], vals[j]) : j \in 1..k}

\* A raw value that fits stays in its window.
LEMMA ShiftedInWindow ==
    ASSUME NEW row, InFrame(row.start, row.len), NEW raw \in SUBSET (0 .. row.len - 1)
    PROVE  Shifted(row, raw) \subseteq Window(row) /\ Window(row) \subseteq 0..63
  BY DEF Shifted, Window, InFrame

\* Rows in ascending order do not overlap.
LEMMA WindowsApart ==
    ASSUME NEW s, Laid(s, 0, 64), NEW i \in DOMAIN s, NEW j \in DOMAIN s, i # j
    PROVE  Window(s[i]) \cap Window(s[j]) = {}
  <1>1. DOMAIN s = 1 .. Len(s) /\ Len(s) \in Nat
    BY DEF Laid
  <1>2. InFrame(s[i].start, s[i].len) /\ InFrame(s[j].start, s[j].len)
    BY DEF Laid, Within
  <1>3. i < j \/ j < i
    BY <1>1
  <1>4. s[i].start + s[i].len <= s[j].start \/ s[j].start + s[j].len <= s[i].start
    BY <1>3 DEF Laid, Ascends
  <1> QED BY <1>2, <1>4 DEF Window, InFrame

\* One step of packing adds the bits of one signal and keeps the others.
LEMMA PackStep ==
    ASSUME NEW s, Laid(s, 0, 64), NEW vals, Fit(s, vals), NEW k \in DOMAIN s
    PROVE  PackBits(PackedTo(s, vals, k - 1), s[k].start, s[k].len, vals[k]) = PackedTo(s, vals, k)
  <1>1. DOMAIN s = 1 .. Len(s) /\ Len(s) \in Nat
    BY DEF Laid
  <1>2. \A j \in DOMAIN s : InFrame(s[j].start, s[j].len) /\ vals[j] \in SUBSET (0 .. s[j].len - 1)
    BY DEF Laid, Within, Fit
  <1>3. PackedTo(s, vals, k - 1) \cap Window(s[k]) = {}
    <2> SUFFICES ASSUME NEW p \in PackedTo(s, vals, k - 1), p \in Window(s[k]) PROVE FALSE
      OBVIOUS
    <2>1. PICK j \in 1 .. k - 1 : p \in Shifted(s[j], vals[j])
      BY DEF PackedTo
    <2>2. j \in DOMAIN s /\ j # k
      BY <1>1
    <2>3. p \in Window(s[j])
      BY <1>2, <2>1, <2>2, ShiftedInWindow
    <2> QED BY <2>2, <2>3, WindowsApart
  <1>4. vals[k] \cap (0 .. s[k].len - 1) = vals[k]
    BY <1>2
  <1>5. PackBits(PackedTo(s, vals, k - 1), s[k].start, s[k].len, vals[k])
          = PackedTo(s, vals, k - 1) \cup Shifted(s[k], vals[k])
    <2>1. PackBits(PackedTo(s, vals, k - 1), s[k].start, s[k].len, vals[k])
            = (PackedTo(s, vals, k - 1) \ Window(s[k])) \cup {s[k].start + b : b \in vals[k] \cap (0 .. s[k].len - 1)}
      BY <1>2, PackInFrame DEF Window
    <2> QED BY <1>3, <1>4, <2>1 DEF Shifted
  <1>6. 1..k = 1 .. (k - 1) \cup {k}
    BY <1>1
  <1>7. PackedTo(s, vals, k) = PackedTo(s, vals, k - 1) \cup Shifted(s[k], vals[k])
    BY <1>6 DEF PackedTo
  <1> QED BY <1>5, <1>7

\* What packing one signal after the other computes: the union of the signals'
\* own bits, whatever the order.
LEMMA PackedAll ==
    ASSUME NEW vals, Laid(Messages["V2B_CMD"].signals, 0, 64), Fit(Messages["V2B_CMD"].signals, vals)
    PROVE  Packed(vals) = PackedTo(Messages["V2B_CMD"].signals, vals, Len(Messages["V2B_CMD"].signals))
  <1> DEFINE s == Messages["V2B_CMD"].signals
             n == Len(s)
             body(g) == [k \in 0..n |-> IF k = 0 THEN {}
                            ELSE PackBits(g[k - 1], s[k].start, s[k].len, vals[k])]
             f == CHOOSE g : g = body(g)
             h == [k \in 0..n |-> PackedTo(s, vals, k)]
  <1>0. Packed(vals) = f[n]
    BY DEF Packed
  <1> HIDE DEF s
  <1>1. n \in Nat /\ DOMAIN s = 1..n
    BY DEF Laid, s
  <1>2. Laid(s, 0, 64) /\ Fit(s, vals)
    BY DEF s
  <1> HIDE DEF n
  <1>3. h = body(h)
    <2>1. ASSUME NEW k \in 0..n
          PROVE  h[k] = IF k = 0 THEN {} ELSE PackBits(h[k - 1], s[k].start, s[k].len, vals[k])
      <3>1. CASE k = 0
        <4>1. 1..0 = {}
          OBVIOUS
        <4>2. PackedTo(s, vals, 0) = {}
          BY <4>1 DEF PackedTo
        <4> QED BY <1>1, <3>1, <4>2
      <3>2. CASE k # 0
        <4>1. k \in DOMAIN s /\ k - 1 \in 0..n
          BY <1>1, <3>2
        <4>2. PackBits(PackedTo(s, vals, k - 1), s[k].start, s[k].len, vals[k]) = PackedTo(s, vals, k)
          BY <1>2, <4>1, PackStep
        <4> QED BY <3>2, <4>1, <4>2
      <3> QED BY <3>1, <3>2
    <2>2. h = [k \in 0..n |-> h[k]]
      OBVIOUS
    <2> HIDE DEF h
    <2> QED BY <2>1, <2>2
  <1>4. f = body(f)
    BY <1>3
  <1> HIDE DEF f, h
  <1>5. \A k \in 0..n : f[k] = h[k]
    <2> DEFINE Bad == {k \in Nat : k \in 0..n /\ f[k] # h[k]}
    <2> SUFFICES ASSUME Bad # {} PROVE FALSE
      OBVIOUS
    <2>1. PICK k \in Bad : \A j \in Bad : ~(<<j, k>> \in OpToRel(<, Nat))
      BY NatLessThanWellFounded, WFMin
    <2>2. \A j \in Nat : j < k => j \notin Bad
      BY <2>1 DEF OpToRel
    <2>3. k \in 0..n /\ f[k] # h[k]
      BY <2>1
    <2>4. CASE k = 0
      BY <1>3, <1>4, <2>3, <2>4
    <2>5. CASE k # 0
      <3>1. k - 1 \in Nat /\ k - 1 < k /\ k - 1 \in 0..n
        BY <1>1, <2>3, <2>5
      <3>2. f[k - 1] = h[k - 1]
        BY <2>2, <3>1
      <3>3. f[k] = PackBits(f[k - 1], s[k].start, s[k].len, vals[k])
        BY <1>4, <2>3, <2>5
      <3>4. h[k] = PackBits(h[k - 1], s[k].start, s[k].len, vals[k])
        BY <1>3, <2>3, <2>5
      <3> QED BY <2>3, <3>2, <3>3, <3>4
    <2> QED BY <2>4, <2>5
  <1>6. f[n] = PackedTo(s, vals, n)
    BY <1>1, <1>5 DEF h
  <1> QED BY <1>0, <1>6 DEF s, n

\* Where a row's bits go when its bytes do not matter, and the bytes a row of two
\* bytes may use in Motorola order.
Straight(row, intel) == intel \/ (row.start % 8) + row.len <= 8
TwoBytes(row) == row.start % 8 = 0 /\ row.len = 16 /\ row.start >= 8
Span(row, intel) ==
    IF Straight(row, intel) THEN Window(row) ELSE row.start - 8 .. row.start + 7

\* Bits of a row within one byte go where Intel order puts them.
LEMMA PlacedStraight ==
    ASSUME NEW row, InFrame(row.start, row.len), NEW intel \in BOOLEAN, Straight(row, intel),
           NEW b \in 0 .. row.len - 1
    PROVE  Place(row.start, b, intel) = row.start + b
  <1>1. CASE intel
    BY <1>1 DEF Place
  <1>2. CASE ~intel
    <2> DEFINE lo == row.start % 8
    <2>1. lo \in Nat /\ lo + row.len <= 8 /\ row.len \in Nat /\ row.start \in Nat
      BY <1>2 DEF Straight, InFrame
    <2> HIDE DEF lo
    <2>2. lo + b \in 0..7
      BY <2>1
    <2>3. (lo + b) \div 8 = 0
      BY <2>2
    <2>4. Place(row.start, b, intel) = row.start + b - 16 * ((lo + b) \div 8)
      BY <1>2 DEF Place, lo
    <2> QED BY <2>1, <2>3, <2>4
  <1> QED BY <1>1, <1>2

\* Bits of a row stay within its span.
LEMMA PlacedInSpan ==
    ASSUME NEW row, InFrame(row.start, row.len), NEW intel \in BOOLEAN,
           Straight(row, intel) \/ TwoBytes(row), NEW b \in 0 .. row.len - 1
    PROVE  Place(row.start, b, intel) \in Span(row, intel)
  <1>1. CASE Straight(row, intel)
    BY <1>1, PlacedStraight DEF Span, Window, InFrame
  <1>2. CASE ~Straight(row, intel)
    <2>1. row.start % 8 = 0 /\ row.len = 16 /\ row.start \in Nat /\ ~intel
      BY <1>2 DEF TwoBytes, Straight, InFrame
    <2>2. Place(row.start, b, intel) = row.start + b - 16 * (b \div 8)
      BY <2>1 DEF Place
    <2>3. b \in 0..7 => b \div 8 = 0
      OBVIOUS
    <2>4. b \in 8..15 => b \div 8 = 1
      OBVIOUS
    <2>5. b \in 0..7 \/ b \in 8..15
      BY <2>1
    <2>6. Place(row.start, b, intel) \in row.start - 8 .. row.start + 7
      BY <2>1, <2>2, <2>3, <2>4, <2>5
    <2> QED BY <1>2, <2>6 DEF Span
  <1> QED BY <1>1, <1>2

\* A message whose rows all fit one of the two shapes.
Shaped(m) ==
    LET s == Messages[m].signals
    IN /\ Messages[m].intel \in BOOLEAN
       /\ \A k \in DOMAIN s : /\ InFrame(s[k].start, s[k].len)
                              /\ Straight(s[k], Messages[m].intel) \/ TwoBytes(s[k])

\* Row k lies by itself: no other row of m puts a bit into its window.
Alone(m, k) ==
    LET s == Messages[m].signals
    IN /\ Straight(s[k], Messages[m].intel)
       /\ \A j \in DOMAIN s : j # k => Span(s[j], Messages[m].intel) \cap Window(s[k]) = {}

\* Every bit of a frame belongs to a signal.
LEMMA PeerBits ==
    ASSUME NEW m, NEW vals, Shaped(m), Fit(Messages[m].signals, vals), NEW p \in PeerEncodes(m, vals)
    PROVE  \E j \in DOMAIN vals : \E b \in vals[j] :
              /\ b \in 0 .. Messages[m].signals[j].len - 1
              /\ p = Place(Messages[m].signals[j].start, b, Messages[m].intel)
              /\ p \in Span(Messages[m].signals[j], Messages[m].intel)
  <1>1. PICK j \in DOMAIN vals : p \in {Place(Messages[m].signals[j].start, b, Messages[m].intel) : b \in vals[j]}
    BY DEF PeerEncodes
  <1>2. PICK b \in vals[j] : p = Place(Messages[m].signals[j].start, b, Messages[m].intel)
    BY <1>1
  <1>3. b \in 0 .. Messages[m].signals[j].len - 1 /\ j \in DOMAIN Messages[m].signals
    BY DEF Fit
  <1> DEFINE row == Messages[m].signals[j]
  <1>4. /\ InFrame(row.start, row.len) /\ Messages[m].intel \in BOOLEAN
        /\ Straight(row, Messages[m].intel) \/ TwoBytes(row)
    BY <1>3 DEF Shaped
  <1>5. Place(row.start, b, Messages[m].intel) \in Span(row, Messages[m].intel)
    BY <1>3, <1>4, PlacedInSpan
  <1> QED BY <1>2, <1>3, <1>5

\* A frame's data stay inside its eight bytes.
LEMMA PeerInFrame ==
    ASSUME NEW m, NEW vals, Shaped(m), Fit(Messages[m].signals, vals)
    PROVE  PeerEncodes(m, vals) \subseteq 0..63
  <1> SUFFICES ASSUME NEW p \in PeerEncodes(m, vals) PROVE p \in 0..63
    OBVIOUS
  <1>1. PICK j \in DOMAIN vals : p \in Span(Messages[m].signals[j], Messages[m].intel)
    BY PeerBits
  <1> DEFINE row == Messages[m].signals[j]
  <1>2. InFrame(row.start, row.len) /\ (Straight(row, Messages[m].intel) \/ TwoBytes(row))
    BY DEF Shaped, Fit
  <1> HIDE DEF row
  <1>3. p \in Span(row, Messages[m].intel)
    BY <1>1 DEF row
  <1> QED BY <1>2, <1>3 DEF Span, Window, InFrame, TwoBytes

\* What BmsProto extracts of a row that lies by itself is what the peer put there.
LEMMA ExtractAlone ==
    ASSUME NEW m, NEW vals, Shaped(m), Fit(Messages[m].signals, vals),
           NEW k \in DOMAIN Messages[m].signals, Alone(m, k)
    PROVE  ExtractBits(PeerEncodes(m, vals), Messages[m].signals[k].start, Messages[m].signals[k].len)
              = vals[k]
  <1> DEFINE row == Messages[m].signals[k]
             data == PeerEncodes(m, vals)
             out == ExtractBits(data, row.start, row.len)
  <1>1. /\ InFrame(row.start, row.len) /\ Messages[m].intel \in BOOLEAN
        /\ Straight(row, Messages[m].intel) /\ vals[k] \subseteq 0 .. row.len - 1
        /\ k \in DOMAIN vals
    BY DEF Shaped, Alone, Fit
  <1>2. out = {p - row.start : p \in data \cap Window(row)}
    BY <1>1, ExtractInFrame DEF Window
  <1>3. ASSUME NEW b \in vals[k] PROVE b \in out
    <2>1. Place(row.start, b, Messages[m].intel) = row.start + b
      BY <1>1, PlacedStraight
    <2>2. row.start + b \in data
      BY <1>1, <2>1 DEF PeerEncodes
    <2>3. row.start + b \in Window(row) /\ (row.start + b) - row.start = b
      BY <1>1 DEF Window, InFrame
    <2> QED BY <1>2, <2>2, <2>3
  <1>4. ASSUME NEW c \in out PROVE c \in vals[k]
    <2>1. PICK p \in data \cap Window(row) : c = p - row.start
      BY <1>2
    <2>2. PICK j \in DOMAIN vals : \E b \in vals[j] :
              /\ b \in 0 .. Messages[m].signals[j].len - 1
              /\ p = Place(Messages[m].signals[j].start, b, Messages[m].intel)
              /\ p \in Span(Messages[m].signals[j], Messages[m].intel)
      BY PeerBits
    <2>3. j = k
      BY <2>1, <2>2 DEF Alone, Fit
    <2>4. PICK b \in vals[k] : b \in 0 .. row.len - 1 /\ p = Place(row.start, b, Messages[m].intel)
      BY <2>2, <2>3
    <2>5. p = row.start + b
      BY <1>1, <2>4, PlacedStraight
    <2>6. c = b
      BY <1>1, <2>1, <2>4, <2>5 DEF InFrame
    <2> QED BY <2>4, <2>6
  <1> QED BY <1>3, <1>4

\* In Intel order rows in ascending order lie by themselves.
LEMMA LaidAlone ==
    ASSUME NEW m, Messages[m].intel = TRUE, Laid(Messages[m].signals, 0, 64)
    PROVE  Shaped(m) /\ \A k \in DOMAIN Messages[m].signals : Alone(m, k)
  <1> DEFINE s == Messages[m].signals
  <1>1. \A k \in DOMAIN s : InFrame(s[k].start, s[k].len)
    BY DEF Laid, Within
  <1>2. \A k \in DOMAIN s : \A j \in DOMAIN s : j # k => Window(s[j]) \cap Window(s[k]) = {}
    BY WindowsApart
  <1> QED BY <1>1, <1>2 DEF Shaped, Alone, Straight, Span

\* A command is packed the way a peer of Intel order would: the order in which
\* buildFrameForInstance takes the signals does not matter.
LEMMA PackedAsPeer ==
    ASSUME NEW vals, Laid(Messages["V2B_CMD"].signals, 0, 64), Fit(Messages["V2B_CMD"].signals, vals),
           Messages["V2B_CMD"].intel = TRUE
    PROVE  Packed(vals) = PeerEncodes("V2B_CMD", vals)
  <1> DEFINE s == Messages["V2B_CMD"].signals
  <1>1. DOMAIN vals = 1 .. Len(s) /\ DOMAIN s = 1 .. Len(s)
    BY DEF Laid, Fit
  <1>2. \A j \in DOMAIN vals : Shifted(s[j], vals[j]) = {Place(s[j].start, b, Messages["V2B_CMD"].intel) : b \in vals[j]}
    BY DEF Shifted, Place
  <1>3. Packed(vals) = UNION {Shifted(s[j], vals[j]) : j \in DOMAIN vals}
    BY <1>1, PackedAll DEF PackedTo
  <1>4. PeerEncodes("V2B_CMD", vals)
          = UNION {{Place(s[j].start, b, Messages["V2B_CMD"].intel) : b \in vals[j]} : j \in DOMAIN vals}
    BY DEF PeerEncodes
  <1> HIDE DEF s
  <1> QED BY <1>2, <1>3, <1>4

\* No name but that of the spare bits occurs twice.
Own(s) == \A i \in DOMAIN s : \A j \in DOMAIN s : s[i].name = s[j].name /\ s[i].name # "Reserved" => i = j

\* The first bit of each row, by name.
StartsAt(s, at) == \A i \in DOMAIN s : s[i].name # "Reserved" => at[s[i].name] = s[i].start

\* The names reader r looks for, and what a row must be for r to read it right.
Looked(r) == DOMAIN r.nums \cup r.ints \cup r.bools
ReadRow(r, x) ==
    /\ x.num \in Int /\ x.den \in Int /\ x.off \in Int
    /\ x.name \in DOMAIN r.nums => ParsedAsPhysical(x)
    /\ x.name \in Looked(r) => x.name # "Reserved" /\ (ParsedAsPhysical(x) \/ (x.num = 1 /\ x.off = 0))
    /\ x.name \in r.bools => /\ ~ParsedAsPhysical(x) /\ x.len <= 2
                             /\ x.name \notin r.ints \cup DOMAIN r.nums
Reads(r, s) == \A i \in DOMAIN s : ReadRow(r, s[i])

\* The rows of an Intel message lie in its eight bytes in ascending order.
Sound(m) == Messages[m].intel = TRUE /\ Laid(Messages[m].signals, 0, 64)

\* Rows in ascending order whose starts their names decide have names of their own.
LEMMA OwnNames == ASSUME NEW s, NEW at, Laid(s, 0, 64), StartsAt(s, at) PROVE Own(s)
  <1> SUFFICES ASSUME NEW i \in DOMAIN s, NEW j \in DOMAIN s, s[i].name = s[j].name, s[i].name # "Reserved", i # j
               PROVE  FALSE
    BY DEF Own
  <1>1. s[i].start = s[j].start
    BY DEF StartsAt
  <1>2. i < j \/ j < i
    BY DEF Laid
  <1>3. s[i].start + s[i].len <= s[j].start \/ s[j].start + s[j].len <= s[i].start
    BY <1>2 DEF Laid, Ascends
  <1>4. InFrame(s[i].start, s[i].len) /\ InFrame(s[j].start, s[j].len)
    BY DEF Laid, Within
  <1> QED BY <1>1, <1>3, <1>4 DEF InFrame

\* Names that decide starts, part by part.
LEMMA StartsJoined ==
    ASSUME NEW s, NEW t, NEW at, NEW a, NEW b, NEW c, NEW d, Laid(s, a, b), Laid(t, c, d),
           StartsAt(s, at), StartsAt(t, at)
    PROVE  StartsAt(s \o t, at)
  <1>1. s \in Seq(Range(s)) /\ t \in Seq(Range(t))
    BY DEF Laid
  <1>2. \A k \in DOMAIN (s \o t) :
          \/ k \in DOMAIN s /\ (s \o t)[k] = s[k]
          \/ k - Len(s) \in DOMAIN t /\ (s \o t)[k] = t[k - Len(s)] /\ k > Len(s)
    BY <1>1, Joined
  <1> QED BY <1>2 DEF StartsAt

\* Rows fit for a reader, part by part.
LEMMA ReadsJoined ==
    ASSUME NEW s, NEW t, NEW r, NEW a, NEW b, NEW c, NEW d, Laid(s, a, b), Laid(t, c, d),
           Reads(r, s), Reads(r, t)
    PROVE  Reads(r, s \o t)
  <1>1. s \in Seq(Range(s)) /\ t \in Seq(Range(t))
    BY DEF Laid
  <1>2. \A k \in DOMAIN (s \o t) :
          \/ k \in DOMAIN s /\ (s \o t)[k] = s[k]
          \/ k - Len(s) \in DOMAIN t /\ (s \o t)[k] = t[k - Len(s)] /\ k > Len(s)
    BY <1>1, Joined
  <1> QED BY <1>2 DEF Reads

\* The first bit of each signal of V2B_CMD, by name.
CmdStarts ==
    [V2B_CMD_LifeSignal |-> 0, V2B_CMD_HV_OnOff |-> 8,
     V2B_CMD_Aux1OnOff |-> 10, V2B_CMD_Aux2OnOff |-> 12,
     V2B_CMD_Aux3OnOff |-> 14, V2B_CMD_VehicleSpeed |-> 16,
     V2B_CMD_MainPosRelayST |-> 24, V2B_CMD_MainPosRelayFlt |-> 26,
     V2B_CMD_MainNegRelayST |-> 28, V2B_CMD_MainNegRelayFlt |-> 30,
     V2B_CMD_ChrgPosRelayST |-> 32, V2B_CMD_ChrgPosRelayFlt |-> 34,
     V2B_CMD_HeatPosRelayST |-> 36, V2B_CMD_HeatPosRelayFlt |-> 38,
     V2B_CMD_HeatNegRelayST |-> 40, V2B_CMD_HeatNegRelayFlt |-> 42,
     V2B_CMD_Aux1RelayST |-> 44, V2B_CMD_Aux1RelayFlt |-> 46,
     V2B_CMD_Aux2RelayST |-> 48, V2B_CMD_Aux2RelayFlt |-> 50,
     V2B_CMD_Aux3RelayST |-> 52, V2B_CMD_Aux3RelayFlt |-> 54,
     V2B_CMD_Aux4RelayST |-> 56, V2B_CMD_Aux4RelayFlt |-> 58,
     V2B_CMD_Reserved1 |-> 60, V2B_CMD_Reserved2 |-> 62]

\* One part of a message: its rows.
LEMMA V2BCMDOrdersRows == Laid(V2B_CMD_Orders, 0, 32) /\ StartsAt(V2B_CMD_Orders, CmdStarts)
  <1>1. V2B_CMD_Orders \in Seq(Range(V2B_CMD_Orders))
    BY SMT DEF Range, V2B_CMD_Orders
  <1>2. Within(V2B_CMD_Orders, 0, 32)
    BY SMT DEF Within, InFrame, V2B_CMD_Orders, Signal, Flag, Level, Code, Field, Temp, Scaled
  <1>3. Ascends(V2B_CMD_Orders)
    BY SMT DEF Ascends, V2B_CMD_Orders, Signal, Flag, Level, Code, Field, Temp, Scaled
  <1>4. StartsAt(V2B_CMD_Orders, CmdStarts)
    BY SMTT(60) DEF StartsAt, CmdStarts, V2B_CMD_Orders, Signal, Flag, Level, Code, Field, Temp, Scaled
  <1> QED BY <1>1, <1>2, <1>3, <1>4 DEF Laid

\* One part of a message: its rows.
LEMMA V2BCMDRelaysRows == Laid(V2B_CMD_Relays, 32, 48) /\ StartsAt(V2B_CMD_Relays, CmdStarts)
  <1>1. V2B_CMD_Relays \in Seq(Range(V2B_CMD_Relays))
    BY SMT DEF Range, V2B_CMD_Relays
  <1>2. Within(V2B_CMD_Relays, 32, 48)
    BY SMT DEF Within, InFrame, V2B_CMD_Relays, Signal, Flag, Level, Code, Field, Temp, Scaled
  <1>3. Ascends(V2B_CMD_Relays)
    BY SMT DEF Ascends, V2B_CMD_Relays, Signal, Flag, Level, Code, Field, Temp, Scaled
  <1>4. StartsAt(V2B_CMD_Relays, CmdStarts)
    BY SMTT(60) DEF StartsAt, CmdStarts, V2B_CMD_Relays, Signal, Flag, Level, Code, Field, Temp, Scaled
  <1> QED BY <1>1, <1>2, <1>3, <1>4 DEF Laid

\* One part of a message: its rows.
LEMMA V2BCMDAuxRelaysRows == Laid(V2B_CMD_AuxRelays, 48, 64) /\ StartsAt(V2B_CMD_AuxRelays, CmdStarts)
  <1>1. V2B_CMD_AuxRelays \in Seq(Range(V2B_CMD_AuxRelays))
    BY SMT DEF Range, V2B_CMD_AuxRelays
  <1>2. Within(V2B_CMD_AuxRelays, 48, 64)
    BY SMT DEF Within, InFrame, V2B_CMD_AuxRelays, Signal, Flag, Level, Code, Field, Temp, Scaled
  <1>3. Ascends(V2B_CMD_AuxRelays)
    BY SMT DEF Ascends, V2B_CMD_AuxRelays, Signal, Flag, Level, Code, Field, Temp, Scaled
  <1>4. StartsAt(V2B_CMD_AuxRelays, CmdStarts)
    BY SMTT(60) DEF StartsAt, CmdStarts, V2B_CMD_AuxRelays, Signal, Flag, Level, Code, Field, Temp, Scaled
  <1> QED BY <1>1, <1>2, <1>3, <1>4 DEF Laid

\* A whole message: its rows.
LEMMA CmdTable == Sound("V2B_CMD") /\ Own(Messages["V2B_CMD"].signals)
  <1>1. Messages["V2B_CMD"].signals = V2B_CMD_Orders \o V2B_CMD_Relays \o V2B_CMD_AuxRelays /\ Messages["V2B_CMD"].intel = TRUE
    BY SMT DEF Messages, Message
  <1>2. Laid(V2B_CMD_Orders \o V2B_CMD_Relays, 0, 48) /\ StartsAt(V2B_CMD_Orders \o V2B_CMD_Relays, CmdStarts)
    BY V2BCMDOrdersRows, V2BCMDRelaysRows, LaidJoined, StartsJoined
  <1>3. Laid(V2B_CMD_Orders \o V2B_CMD_Relays \o V2B_CMD_AuxRelays, 0, 64) /\ StartsAt(V2B_CMD_Orders \o V2B_CMD_Relays \o V2B_CMD_AuxRelays, CmdStarts)
    BY <1>2, V2BCMDAuxRelaysRows, LaidJoined, StartsJoined
  <1> QED BY <1>1, <1>3, OwnNames DEF Sound

\* The first bit of each signal of B2V_Fult1_32960, by name.
Fult1Starts ==
    [B2V_Fult1_DelTemp |-> 2, B2V_Fult1_OverTemp |-> 4,
     B2V_Fult1_PackOverHVolt |-> 6, B2V_Fult1_PackLowHVolt |-> 8,
     B2V_Fult1_LowSOC |-> 10, B2V_Fult1_OverUcell |-> 12,
     B2V_Fult1_LowUcell |-> 14, B2V_Fult1_LowInsRes |-> 16,
     B2V_Fult1_UcellUniformity |-> 18, B2V_Fult1_OverChg |-> 20,
     B2V_Fult1_OverSOC |-> 22, B2V_Fult1_SOCChangeFast |-> 24,
     B2V_Fult1_BatSysNotMatch |-> 25, B2V_Fult1_HVILFault |-> 26,
     B2V_Fult1_FaultNum_32960 |-> 27]

\* One part of a message: its rows, their names and how they are read.
LEMMA Fult1LevelsRows == Laid(Fult1_Levels, 0, 18) /\ StartsAt(Fult1_Levels, Fult1Starts) /\ Reads(UpdateFromFault1, Fult1_Levels)
  <1>1. Fult1_Levels \in Seq(Range(Fult1_Levels))
    BY SMT DEF Range, Fult1_Levels
  <1>2. Within(Fult1_Levels, 0, 18)
    BY SMT DEF Within, InFrame, Fult1_Levels, Signal, Flag, Level, Code, Field, Temp, Scaled
  <1>3. Ascends(Fult1_Levels)
    BY SMT DEF Ascends, Fult1_Levels, Signal, Flag, Level, Code, Field, Temp, Scaled
  <1>4. StartsAt(Fult1_Levels, Fult1Starts)
    BY SMTT(60) DEF StartsAt, Fult1Starts, Fult1_Levels, Signal, Flag, Level, Code, Field, Temp, Scaled
  <1>5. Reads(UpdateFromFault1, Fult1_Levels)
    BY SMTT(60) DEF Reads, ReadRow, Looked, ParsedAsPhysical, Reader, NoNums, UpdateFromFault1, Fult1_Levels,
                 Signal, Flag, Level, Code, Field, Temp, Scaled
  <1> QED BY <1>1, <1>2, <1>3, <1>4, <1>5 DEF Laid

\* One part of a message: its rows, their names and how they are read.
LEMMA Fult1FlagsRows == Laid(Fult1_Flags, 18, 64) /\ StartsAt(Fult1_Flags, Fult1Starts) /\ Reads(UpdateFromFault1, Fult1_Flags)
  <1>1. Fult1_Flags \in Seq(Range(Fult1_Flags))
    BY SMT DEF Range, Fult1_Flags
  <1>2. Within(Fult1_Flags, 18, 64)
    BY SMT DEF Within, InFrame, Fult1_Flags, Signal, Flag, Level, Code, Field, Temp, Scaled
  <1>3. Ascends(Fult1_Flags)
    BY SMT DEF Ascends, Fult1_Flags, Signal, Flag, Level, Code, Field, Temp, Scaled
  <1>4. StartsAt(Fult1_Flags, Fult1Starts)
    BY SMTT(60) DEF StartsAt, Fult1Starts, Fult1_Flags, Signal, Flag, Level, Code, Field, Temp, Scaled
  <1>5. Reads(UpdateFromFault1, Fult1_Flags)
    BY SMTT(60) DEF Reads, ReadRow, Looked, ParsedAsPhysical, Reader, NoNums, UpdateFromFault1, Fult1_Flags,
                 Signal, Flag, Level, Code, Field, Temp, Scaled
  <1> QED BY <1>1, <1>2, <1>3, <1>4, <1>5 DEF Laid

\* A whole message: its rows, their names and how they are read.
LEMMA Fult1Table == Sound("B2V_Fult1_32960") /\ Own(Messages["B2V_Fult1_32960"].signals) /\ Reads(UpdateFromFault1, Messages["B2V_Fult1_32960"].signals)
  <1>1. Messages["B2V_Fult1_32960"].signals = Fult1_Levels \o Fult1_Flags /\ Messages["B2V_Fult1_32960"].intel = TRUE
    BY SMT DEF Messages, Message
  <1>2. Laid(Fult1_Levels \o Fult1_Flags, 0, 64) /\ StartsAt(Fult1_Levels \o Fult1_Flags, Fult1Starts) /\ Reads(UpdateFromFault1, Fult1_Levels \o Fult1_Flags)
    BY Fult1LevelsRows, Fult1FlagsRows, LaidJoined, StartsJoined, ReadsJoined
  <1> QED BY <1>1, <1>2, OwnNames DEF Sound

\* The first bit of each signal of B2V_Fult2, by name.
Fult2Starts ==
    [B2V_Fult2_FaultNum |-> 0, B2V_Fult2_CellOverDischrg |-> 8,
     B2V_Fult2_CellLowTemp |-> 9, B2V_Fult2_PackFireWarning |-> 10,
     B2V_Fult2_OverDischrgCurr |-> 11,
     B2V_Fult2_OverChrgCurrInTheDrive |-> 13, B2V_Fult2_CurrSensorErr |-> 15,
     B2V_Fult2_PowerSupplyErr |-> 16, B2V_Fult2_TMSErr |-> 17,
     B2V_Fult2_HeatungFilmErr |-> 18, B2V_Fult2_PackSelfProtect |-> 19,
     B2V_Fult2_MainLoopPrechrgErr |-> 20, B2V_Fult2_AuxLoopPrechrgErr |-> 21,
     B2V_Fult2_ChrgInsLowErr |-> 22, B2V_Fult2_ACANLost |-> 23,
     B2V_Fult2_InnerCommunicationErr |-> 24, B2V_Fult2_DCDCErr |-> 25,
     B2V_Fult2_BranchBreakErr |-> 26, B2V_Fult2_HeatRelayOpenErr |-> 27,
     B2V_Fult2_HeatRelayWeldErr |-> 28, B2V_Fult2_MainPosRelayOpenErr |-> 29,
     B2V_Fult2_MainPosRelayWeldErr |-> 30,
     B2V_Fult2_MainNegRelayOpenErr |-> 31,
     B2V_Fult2_MainNegRelayWeldErr |-> 32,
     B2V_Fult2_DCChrgPos1RelayOpenErr |-> 33,
     B2V_Fult2_DCChrgPos1RelayWeldErr |-> 34,
     B2V_Fult2_DCChrgNeg1RelayOpenErr |-> 35,
     B2V_Fult2_DCChrgNeg1RelayWeldErr |-> 36,
     B2V_Fult2_DCChrgPos2RelayOpenErr |-> 37,
     B2V_Fult2_DCChrgPos2RelayWeldErr |-> 38,
     B2V_Fult2_DCChrgNeg2RelayOpenErr |-> 39,
     B2V_Fult2_DCChrgNeg2RelayWeldErr |-> 40,
     B2V_Fult2_ACChrgPosRelayOpenErr |-> 41,
     B2V_Fult2_ACChrgPosRelayWeldErr |-> 42,
     B2V_Fult2_ACChrgNegRelayOpenErr |-> 43,
     B2V_Fult2_ACChrgNegRelayWeldErr |-> 44,
     B2V_Fult2_PantoChrgPosRelayOpenErr |-> 45,
     B2V_Fult2_PantoChrgPosRelayWeldErr |-> 46,
     B2V_Fult2_PantoChrgNegRelayOpenErr |-> 47,
     B2V_Fult2_PantoChrgNegRelayWeldErr |-> 48,
     B2V_Fult2_ChrgConnectErr |-> 49,
     B2V_Fult2_OverDischrgCurrWhenInChrg |-> 50,
     B2V_Fult2_OverChrgCurrInTheChrg |-> 51, B2V_Fult2_ChrgNTCErr |-> 52,
     B2V_Fult2_ChrgNTCTempOver |-> 53, B2V_Fult2_ELockErr |-> 55,
     B2V_Fult2_FireDetectorErr |-> 56, B2V_Fult2_ContiChrgCurrOverLoad |-> 57,
     B2V_Fult2_SOCDifferErr |-> 59, B2V_Fult2_ContiDischrgCurrOverLoad |-> 60,
     B2V_Fult2_Reserved1 |-> 62, B2V_Fult2_Reserved2 |-> 63]

\* One part of a message: its rows, their names and how they are read.
LEMMA Fult2CellsRows == Laid(Fult2_Cells, 0, 18) /\ StartsAt(Fult2_Cells, Fult2Starts) /\ Reads(UpdateFromFault2, Fult2_Cells)
  <1>1. Fult2_Cells \in Seq(Range(Fult2_Cells))
    BY SMT DEF Range, Fult2_Cells
  <1>2. Within(Fult2_Cells, 0, 18)
    BY SMT DEF Within, InFrame, Fult2_Cells, Signal, Flag, Level, Code, Field, Temp, Scaled
  <1>3. Ascends(Fult2_Cells)
    BY SMT DEF Ascends, Fult2_Cells, Signal, Flag, Level, Code, Field, Temp, Scaled
  <1>4. StartsAt(Fult2_Cells, Fult2Starts)
    BY SMTT(60) DEF StartsAt, Fult2Starts, Fult2_Cells, Signal, Flag, Level, Code, Field, Temp, Scaled
  <1>5. Reads(UpdateFromFault2, Fult2_Cells)
    BY SMTT(60) DEF Reads, ReadRow, Looked, ParsedAsPhysical, Reader, NoNums, UpdateFromFault2, Fault2Relays, Fult2_Cells,
                 Signal, Flag, Level, Code, Field, Temp, Scaled
  <1> QED BY <1>1, <1>2, <1>3, <1>4, <1>5 DEF Laid

\* One part of a message: its rows, their names and how they are read.
LEMMA Fult2LoopsRows == Laid(Fult2_Loops, 18, 27) /\ StartsAt(Fult2_Loops, Fult2Starts) /\ Reads(UpdateFromFault2, Fult2_Loops)
  <1>1. Fult2_Loops \in Seq(Range(Fult2_Loops))
    BY SMT DEF Range, Fult2_Loops
  <1>2. Within(Fult2_Loops, 18, 27)
    BY SMT DEF Within, InFrame, Fult2_Loops, Signal, Flag, Level, Code, Field, Temp, Scaled
  <1>3. Ascends(Fult2_Loops)
    BY SMT DEF Ascends, Fult2_Loops, Signal, Flag, Level, Code, Field, Temp, Scaled
  <1>4. StartsAt(Fult2_Loops, Fult2Starts)
    BY SMTT(60) DEF StartsAt, Fult2Starts, Fult2_Loops, Signal, Flag, Level, Code, Field, Temp, Scaled
  <1>5. Reads(UpdateFromFault2, Fult2_Loops)
    BY SMTT(60) DEF Reads, ReadRow, Looked, ParsedAsPhysical, Reader, NoNums, UpdateFromFault2, Fault2Relays, Fult2_Loops,
                 Signal, Flag, Level, Code, Field, Temp, Scaled
  <1> QED BY <1>1, <1>2, <1>3, <1>4, <1>5 DEF Laid

\* One part of a message: its rows, their names and how they are read.
LEMMA Fult2MainRelaysRows == Laid(Fult2_MainRelays, 27, 33) /\ StartsAt(Fult2_MainRelays, Fult2Starts) /\ Reads(UpdateFromFault2, Fult2_MainRelays)
  <1>1. Fult2_MainRelays \in Seq(Range(Fult2_MainRelays))
    BY SMT DEF Range, Fult2_MainRelays
  <1>2. Within(Fult2_MainRelays, 27, 33)
    BY SMT DEF Within, InFrame, Fult2_MainRelays, Signal, Flag, Level, Code, Field, Temp, Scaled
  <1>3. Ascends(Fult2_MainRelays)
    BY SMT DEF Ascends, Fult2_MainRelays, Signal, Flag, Level, Code, Field, Temp, Scaled
  <1>4. StartsAt(Fult2_MainRelays, Fult2Starts)
    BY SMTT(60) DEF StartsAt, Fult2Starts, Fult2_MainRelays, Signal, Flag, Level, Code, Field, Temp, Scaled
  <1>5. Reads(UpdateFromFault2, Fult2_MainRelays)
    BY SMTT(60) DEF Reads, ReadRow, Looked, ParsedAsPhysical, Reader, NoNums, UpdateFromFault2, Fault2Relays, Fult2_MainRelays,
                 Signal, Flag, Level, Code, Field, Temp, Scaled
  <1> QED BY <1>1, <1>2, <1>3, <1>4, <1>5 DEF Laid

\* One part of a message: its rows, their names and how they are read.
LEMMA Fult2DcRelaysRows == Laid(Fult2_DcRelays, 33, 41) /\ StartsAt(Fult2_DcRelays, Fult2Starts) /\ Reads(UpdateFromFault2, Fult2_DcRelays)
  <1>1. Fult2_DcRelays \in Seq(Range(Fult2_DcRelays))
    BY SMT DEF Range, Fult2_DcRelays
  <1>2. Within(Fult2_DcRelays, 33, 41)
    BY SMT DEF Within, InFrame, Fult2_DcRelays, Signal, Flag, Level, Code, Field, Temp, Scaled
  <1>3. Ascends(Fult2_DcRelays)
    BY SMT DEF Ascends, Fult2_DcRelays, Signal, Flag, Level, Code, Field, Temp, Scaled
  <1>4. StartsAt(Fult2_DcRelays, Fult2Starts)
    BY SMTT(60) DEF StartsAt, Fult2Starts, Fult2_DcRelays, Signal, Flag, Level, Code, Field, Temp, Scaled
  <1>5. Reads(UpdateFromFault2, Fult2_DcRelays)
    BY SMTT(60) DEF Reads, ReadRow, Looked, ParsedAsPhysical, Reader, NoNums, UpdateFromFault2, Fault2Relays, Fult2_DcRelays,
                 Signal, Flag, Level, Code, Field, Temp, Scaled
  <1> QED BY <1>1, <1>2, <1>3, <1>4, <1>5 DEF Laid

\* One part of a message: its rows, their names and how they are read.
LEMMA Fult2AcRelaysRows == Laid(Fult2_AcRelays, 41, 49) /\ StartsAt(Fult2_AcRelays, Fult2Starts) /\ Reads(UpdateFromFault2, Fult2_AcRelays)
  <1>1. Fult2_AcRelays \in Seq(Range(Fult2_AcRelays))
    BY SMT DEF Range, Fult2_AcRelays
  <1>2. Within(Fult2_AcRelays, 41, 49)
    BY SMT DEF Within, InFrame, Fult2_AcRelays, Signal, Flag, Level, Code, Field, Temp, Scaled
  <1>3. Ascends(Fult2_AcRelays)
    BY SMT DEF Ascends, Fult2_AcRelays, Signal, Flag, Level, Code, Field, Temp, Scaled
  <1>4. StartsAt(Fult2_AcRelays, Fult2Starts)
    BY SMTT(60) DEF StartsAt, Fult2Starts, Fult2_AcRelays, Signal, Flag, Level, Code, Field, Temp, Scaled
  <1>5. Reads(UpdateFromFault2, Fult2_AcRelays)
    BY SMTT(60) DEF Reads, ReadRow, Looked, ParsedAsPhysical, Reader, NoNums, UpdateFromFault2, Fault2Relays, Fult2_AcRelays,
                 Signal, Flag, Level, Code, Field, Temp, Scaled
  <1> QED BY <1>1, <1>2, <1>3, <1>4, <1>5 DEF Laid

\* One part of a message: its rows, their names and how they are read.
LEMMA Fult2ChargingRows == Laid(Fult2_Charging, 49, 56) /\ StartsAt(Fult2_Charging, Fult2Starts) /\ Reads(UpdateFromFault2, Fult2_Charging)
  <1>1. Fult2_Charging \in Seq(Range(Fult2_Charging))
    BY SMT DEF Range, Fult2_Charging
  <1>2. Within(Fult2_Charging, 49, 56)
    BY SMT DEF Within, InFrame, Fult2_Charging, Signal, Flag, Level, Code, Field, Temp, Scaled
  <1>3. Ascends(Fult2_Charging)
    BY SMT DEF Ascends, Fult2_Charging, Signal, Flag, Level, Code, Field, Temp, Scaled
  <1>4. StartsAt(Fult2_Charging, Fult2Starts)
    BY SMTT(60) DEF StartsAt, Fult2Starts, Fult2_Charging, Signal, Flag, Level, Code, Field, Temp, Scaled
  <1>5. Reads(UpdateFromFault2, Fult2_Charging)
    BY SMTT(60) DEF Reads, ReadRow, Looked, ParsedAsPhysical, Reader, NoNums, UpdateFromFault2, Fault2Relays, Fult2_Charging,
                 Signal, Flag, Level, Code, Field, Temp, Scaled
  <1> QED BY <1>1, <1>2, <1>3, <1>4, <1>5 DEF Laid

\* One part of a message: its rows, their names and how they are read.
LEMMA Fult2LimitsRows == Laid(Fult2_Limits, 56, 64) /\ StartsAt(Fult2_Limits, Fult2Starts) /\ Reads(UpdateFromFault2, Fult2_Limits)
  <1>1. Fult2_Limits \in Seq(Range(Fult2_Limits))
    BY SMT DEF Range, Fult2_Limits
  <1>2. Within(Fult2_Limits, 56, 64)
    BY SMT DEF Within, InFrame, Fult2_Limits, Signal, Flag, Level, Code, Field, Temp, Scaled
  <1>3. Ascends(Fult2_Limits)
    BY SMT DEF Ascends, Fult2_Limits, Signal, Flag, Level, Code, Field, Temp, Scaled
  <1>4. StartsAt(Fult2_Limits, Fult2Starts)
    BY SMTT(60) DEF StartsAt, Fult2Starts, Fult2_Limits, Signal, Flag, Level, Code, Field, Temp, Scaled
  <1>5. Reads(UpdateFromFault2, Fult2_Limits)
    BY SMTT(60) DEF Reads, ReadRow, Looked, ParsedAsPhysical, Reader, NoNums, UpdateFromFault2, Fault2Relays, Fult2_Limits,
                 Signal, Flag, Level, Code, Field, Temp, Scaled
  <1> QED BY <1>1, <1>2, <1>3, <1>4, <1>5 DEF Laid

\* A whole message: its rows, their names and how they are read.
LEMMA Fult2Table == Sound("B2V_Fult2") /\ Own(Messages["B2V_Fult2"].signals) /\ Reads(UpdateFromFault2, Messages["B2V_Fult2"].signals)
  <1>1. Messages["B2V_Fult2"].signals = Fult2_Cells \o Fult2_Loops \o Fult2_MainRelays \o Fult2_DcRelays \o Fult2_AcRelays \o Fult2_Charging \o Fult2_Limits /\ Messages["B2V_Fult2"].intel = TRUE
    BY SMT DEF Messages, Message
  <1>2. Laid(Fult2_Cells \o Fult2_Loops, 0, 27) /\ StartsAt(Fult2_Cells \o Fult2_Loops, Fult2Starts) /\ Reads(UpdateFromFault2, Fult2_Cells \o Fult2_Loops)
    BY Fult2CellsRows, Fult2LoopsRows, LaidJoined, StartsJoined, ReadsJoined
  <1>3. Laid(Fult2_Cells \o Fult2_Loops \o Fult2_MainRelays, 0, 33) /\ StartsAt(Fult2_Cells \o Fult2_Loops \o Fult2_MainRelays, Fult2Starts) /\ Reads(UpdateFromFault2, Fult2_Cells \o Fult2_Loops \o Fult2_MainRelays)
    BY <1>2, Fult2MainRelaysRows, LaidJoined, StartsJoined, ReadsJoined
  <1>4. Laid(Fult2_Cells \o Fult2_Loops \o Fult2_MainRelays \o Fult2_DcRelays, 0, 41) /\ StartsAt(Fult2_Cells \o Fult2_Loops \o Fult2_MainRelays \o Fult2_DcRelays, Fult2Starts) /\ Reads(UpdateFromFault2, Fult2_Cells \o Fult2_Loops \o Fult2_MainRelays \o Fult2_DcRelays)
    BY <1>3, Fult2DcRelaysRows, LaidJoined, StartsJoined, ReadsJoined
  <1>5. Laid(Fult2_Cells \o Fult2_Loops \o Fult2_MainRelays \o Fult2_DcRelays \o Fult2_AcRelays, 0, 49) /\ StartsAt(Fult2_Cells \o Fult2_Loops \o Fult2_MainRelays \o Fult2_DcRelays \o Fult2_AcRelays, Fult2Starts) /\ Reads(UpdateFromFault2, Fult2_Cells \o Fult2_Loops \o Fult2_MainRelays \o Fult2_DcRelays \o Fult2_AcRelays)
    BY <1>4, Fult2AcRelaysRows, LaidJoined, StartsJoined, ReadsJoined
  <1>6. Laid(Fult2_Cells \o Fult2_Loops \o Fult2_MainRelays \o Fult2_DcRelays \o Fult2_AcRelays \o Fult2_Charging, 0, 56) /\ StartsAt(Fult2_Cells \o Fult2_Loops \o Fult2_MainRelays \o Fult2_DcRelays \o Fult2_AcRelays \o Fult2_Charging, Fult2Starts) /\ Reads(UpdateFromFault2, Fult2_Cells \o Fult2_Loops \o Fult2_MainRelays \o Fult2_DcRelays \o Fult2_AcRelays \o Fult2_Charging)
    BY <1>5, Fult2ChargingRows, LaidJoined, StartsJoined, ReadsJoined
  <1>7. Laid(Fult2_Cells \o Fult2_Loops \o Fult2_MainRelays \o Fult2_DcRelays \o Fult2_AcRelays \o Fult2_Charging \o Fult2_Limits, 0, 64) /\ StartsAt(Fult2_Cells \o Fult2_Loops \o Fult2_MainRelays \o Fult2_DcRelays \o Fult2_AcRelays \o Fult2_Charging \o Fult2_Limits, Fult2Starts) /\ Reads(UpdateFromFault2, Fult2_Cells \o Fult2_Loops \o Fult2_MainRelays \o Fult2_DcRelays \o Fult2_AcRelays \o Fult2_Charging \o Fult2_Limits)
    BY <1>6, Fult2LimitsRows, LaidJoined, StartsJoined, ReadsJoined
  <1> QED BY <1>1, <1>7, OwnNames DEF Sound

\* The first bit of each signal of B2V_ST1, by name.
St1Starts ==
    [B2V_ST1_MainPosRelaySt |-> 0, B2V_ST1_MainNegRelaySt |-> 2,
     B2V_ST1_PrechrgRelaySt |-> 4, B2V_ST1_DCChrgPos1RelaySt |-> 6,
     B2V_ST1_DCChrgNeg1RelaySt |-> 8, B2V_ST1_DCChrgPos2RelaySt |-> 10,
     B2V_ST1_DCChrgNeg2RelaySt |-> 12, B2V_ST1_HeatPosRelaySt |-> 14,
     B2V_ST1_HeatNegRelaySt |-> 16, B2V_ST1_PantoChrgPosRelaySt |-> 18,
     B2V_ST1_PantoChrgNegRelaySt |-> 20, B2V_ST1_ACChrgPosRelaySt |-> 22,
     B2V_ST1_ACChrgNegRelaySt |-> 24, B2V_ST1_Aux1RelaySt |-> 26,
     B2V_ST1_Aux2RelaySt |-> 28, B2V_ST1_Aux3RelaySt |-> 30,
     B2V_ST1_BMS_HVStatus |-> 32, B2V_ST1_BMS_BalanceStatus |-> 34,
     B2V_ST1_DCChrgConnectSt |-> 35, B2V_ST1_PantoChrgConnectSt |-> 37,
     B2V_ST1_ACChrgConnectSt |-> 38, B2V_ST1_ChrgMode |-> 39,
     B2V_ST1_ChrgStatus |-> 41, B2V_ST1_HeatingStatus |-> 43,
     B2V_ST1_CoolingStatus |-> 44, B2V_ST1_RechrgCycels |-> 46]

\* One part of a message: its rows, their names and how they are read.
LEMMA ST1MainRelaysRows == Laid(ST1_MainRelays, 0, 18) /\ StartsAt(ST1_MainRelays, St1Starts) /\ Reads(UpdateFromSt1, ST1_MainRelays)
  <1>1. ST1_MainRelays \in Seq(Range(ST1_MainRelays))
    BY SMT DEF Range, ST1_MainRelays
  <1>2. Within(ST1_MainRelays, 0, 18)
    BY SMT DEF Within, InFrame, ST1_MainRelays, Signal, Flag, Level, Code, Field, Temp, Scaled
  <1>3. Ascends(ST1_MainRelays)
    BY SMT DEF Ascends, ST1_MainRelays, Signal, Flag, Level, Code, Field, Temp, Scaled
  <1>4. StartsAt(ST1_MainRelays, St1Starts)
    BY SMTT(60) DEF StartsAt, St1Starts, ST1_MainRelays, Signal, Flag, Level, Code, Field, Temp, Scaled
  <1>5. Reads(UpdateFromSt1, ST1_MainRelays)
    BY SMTT(60) DEF Reads, ReadRow, Looked, ParsedAsPhysical, Reader, NoNums, UpdateFromSt1, ST1_MainRelays,
                 Signal, Flag, Level, Code, Field, Temp, Scaled
  <1> QED BY <1>1, <1>2, <1>3, <1>4, <1>5 DEF Laid

\* One part of a message: its rows, their names and how they are read.
LEMMA ST1ChargeRelaysRows == Laid(ST1_ChargeRelays, 18, 32) /\ StartsAt(ST1_ChargeRelays, St1Starts) /\ Reads(UpdateFromSt1, ST1_ChargeRelays)
  <1>1. ST1_ChargeRelays \in Seq(Range(ST1_ChargeRelays))
    BY SMT DEF Range, ST1_ChargeRelays
  <1>2. Within(ST1_ChargeRelays, 18, 32)
    BY SMT DEF Within, InFrame, ST1_ChargeRelays, Signal, Flag, Level, Code, Field, Temp, Scaled
  <1>3. Ascends(ST1_ChargeRelays)
    BY SMT DEF Ascends, ST1_ChargeRelays, Signal, Flag, Level, Code, Field, Temp, Scaled
  <1>4. StartsAt(ST1_ChargeRelays, St1Starts)
    BY SMTT(60) DEF StartsAt, St1Starts, ST1_ChargeRelays, Signal, Flag, Level, Code, Field, Temp, Scaled
  <1>5. Reads(UpdateFromSt1, ST1_ChargeRelays)
    BY SMTT(60) DEF Reads, ReadRow, Looked, ParsedAsPhysical, Reader, NoNums, UpdateFromSt1, ST1_ChargeRelays,
                 Signal, Flag, Level, Code, Field, Temp, Scaled
  <1> QED BY <1>1, <1>2, <1>3, <1>4, <1>5 DEF Laid

\* One part of a message: its rows, their names and how they are read.
LEMMA ST1StatusRows == Laid(ST1_Status, 32, 64) /\ StartsAt(ST1_Status, St1Starts) /\ Reads(UpdateFromSt1, ST1_Status)
  <1>1. ST1_Status \in Seq(Range(ST1_Status))
    BY SMT DEF Range, ST1_Status
  <1>2. Within(ST1_Status, 32, 64)
    BY SMT DEF Within, InFrame, ST1_Status, Signal, Flag, Level, Code, Field, Temp, Scaled
  <1>3. Ascends(ST1_Status)
    BY SMT DEF Ascends, ST1_Status, Signal, Flag, Level, Code, Field, Temp, Scaled
  <1>4. StartsAt(ST1_Status, St1Starts)
    BY SMTT(60) DEF StartsAt, St1Starts, ST1_Status, Signal, Flag, Level, Code, Field, Temp, Scaled
  <1>5. Reads(UpdateFromSt1, ST1_Status)
    BY SMTT(60) DEF Reads, ReadRow, Looked, ParsedAsPhysical, Reader, NoNums, UpdateFromSt1, ST1_Status,
                 Signal, Flag, Level, Code, Field, Temp, Scaled
  <1> QED BY <1>1, <1>2, <1>3, <1>4, <1>5 DEF Laid

\* A whole message: its rows, their names and how they are read.
LEMMA St1Table == Sound("B2V_ST1") /\ Own(Messages["B2V_ST1"].signals) /\ Reads(UpdateFromSt1, Messages["B2V_ST1"].signals)
  <1>1. Messages["B2V_ST1"].signals = ST1_MainRelays \o ST1_ChargeRelays \o ST1_Status /\ Messages["B2V_ST1"].intel = TRUE
    BY SMT DEF Messages, Message
  <1>2. Laid(ST1_MainRelays \o ST1_ChargeRelays, 0, 32) /\ StartsAt(ST1_MainRelays \o ST1_ChargeRelays, St1Starts) /\ Reads(UpdateFromSt1, ST1_MainRelays \o ST1_ChargeRelays)
    BY ST1MainRelaysRows, ST1ChargeRelaysRows, LaidJoined, StartsJoined, ReadsJoined
  <1>3. Laid(ST1_MainRelays \o ST1_ChargeRelays \o ST1_Status, 0, 64) /\ StartsAt(ST1_MainRelays \o ST1_ChargeRelays \o ST1_Status, St1Starts) /\ Reads(UpdateFromSt1, ST1_MainRelays \o ST1_ChargeRelays \o ST1_Status)
    BY <1>2, ST1StatusRows, LaidJoined, StartsJoined, ReadsJoined
  <1> QED BY <1>1, <1>3, OwnNames DEF Sound

\* One part of a message: its rows.
LEMMA FireSensorsRows == Laid(Fire_Sensors, 0, 28)
  <1>1. Fire_Sensors \in Seq(Range(Fire_Sensors))
    BY SMT DEF Range, Fire_Sensors
  <1>2. Within(Fire_Sensors, 0, 28)
    BY SMT DEF Within, InFrame, Fire_Sensors, Signal, Flag, Level, Code, Field, Temp, Scaled
  <1>3. Ascends(Fire_Sensors)
    BY SMT DEF Ascends, Fire_Sensors, Signal, Flag, Level, Code, Field, Temp, Scaled
  <1> QED BY <1>1, <1>2, <1>3 DEF Laid

\* One part of a message: its rows.
LEMMA FireAlarmsRows == Laid(Fire_Alarms, 28, 64)
  <1>1. Fire_Alarms \in Seq(Range(Fire_Alarms))
    BY SMT DEF Range, Fire_Alarms
  <1>2. Within(Fire_Alarms, 28, 64)
    BY SMT DEF Within, InFrame, Fire_Alarms, Signal, Flag, Level, Code, Field, Temp, Scaled
  <1>3. Ascends(Fire_Alarms)
    BY SMT DEF Ascends, Fire_Alarms, Signal, Flag, Level, Code, Field, Temp, Scaled
  <1> QED BY <1>1, <1>2, <1>3 DEF Laid

\* A whole message: its rows.
LEMMA FireTable == Sound("Fire2B_state")
  <1>1. Messages["Fire2B_state"].signals = Fire_Sensors \o Fire_Alarms /\ Messages["Fire2B_state"].intel = TRUE
    BY SMT DEF Messages, Message
  <1>2. Laid(Fire_Sensors \o Fire_Alarms, 0, 64)
    BY FireSensorsRows, FireAlarmsRows, LaidJoined
  <1> QED BY <1>1, <1>2 DEF Sound

\* A whole message: its rows, their names and how they are read.
LEMMA ST2Table == Sound("B2V_ST2") /\ Own(Messages["B2V_ST2"].signals) /\ Reads(UpdateFromSt2, Messages["B2V_ST2"].signals)
  <1>1. Messages["B2V_ST2"].signals = ST2 /\ Messages["B2V_ST2"].intel = TRUE
    BY SMT DEF Messages, Message
  <1>2. ST2 \in Seq(Range(ST2))
    BY SMT DEF Range, ST2
  <1>3. Within(ST2, 0, 64)
    BY SMT DEF Within, InFrame, ST2, Signal, Flag, Level, Code, Field, Temp, Scaled
  <1>4. Ascends(ST2)
    BY SMT DEF Ascends, ST2, Signal, Flag, Level, Code, Field, Temp, Scaled
  <1>5. Own(ST2)
    BY SMTT(60) DEF Own, ST2, Signal, Flag, Level, Code, Field, Temp, Scaled
  <1>6. Reads(UpdateFromSt2, ST2)
    BY SMTT(60) DEF Reads, ReadRow, Looked, ParsedAsPhysical, Reader, NoNums, UpdateFromSt2, ST2,
                 Signal, Flag, Level, Code, Field, Temp, Scaled
  <1> QED BY <1>1, <1>2, <1>3, <1>4, <1>5, <1>6 DEF Sound, Laid

\* A whole message: its rows, their names and how they are read.
LEMMA ST3Table == Sound("B2V_ST3") /\ Own(Messages["B2V_ST3"].signals) /\ Reads(UpdateFromSt3, Messages["B2V_ST3"].signals)
  <1>1. Messages["B2V_ST3"].signals = ST3 /\ Messages["B2V_ST3"].intel = TRUE
    BY SMT DEF Messages, Message
  <1>2. ST3 \in Seq(Range(ST3))
    BY SMT DEF Range, ST3
  <1>3. Within(ST3, 0, 64)
    BY SMT DEF Within, InFrame, ST3, Signal, Flag, Level, Code, Field, Temp, Scaled
  <1>4. Ascends(ST3)
    BY SMT DEF Ascends, ST3, Signal, Flag, Level, Code, Field, Temp, Scaled
  <1>5. Own(ST3)
    BY SMTT(60) DEF Own, ST3, Signal, Flag, Level, Code, Field, Temp, Scaled
  <1>6. Reads(UpdateFromSt3, ST3)
    BY SMTT(60) DEF Reads, ReadRow, Looked, ParsedAsPhysical, Reader, NoNums, UpdateFromSt3, ST3,
                 Signal, Flag, Level, Code, Field, Temp, Scaled
  <1> QED BY <1>1, <1>2, <1>3, <1>4, <1>5, <1>6 DEF Sound, Laid

\* A whole message: its rows, their names and how they are read.
LEMMA ST4Table == Sound("B2V_ST4") /\ Own(Messages["B2V_ST4"].signals) /\ Reads(UpdateFromSt4, Messages["B2V_ST4"].signals)
  <1>1. Messages["B2V_ST4"].signals = ST4 /\ Messages["B2V_ST4"].intel = TRUE
    BY SMT DEF Messages, Message
  <1>2. ST4 \in Seq(Range(ST4))
    BY SMT DEF Range, ST4
  <1>3. Within(ST4, 0, 64)
    BY SMT DEF Within, InFrame, ST4, Signal, Flag, Level, Code, Field, Temp, Scaled
  <1>4. Ascends(ST4)
    BY SMT DEF Ascends, ST4, Signal, Flag, Level, Code, Field, Temp, Scaled
  <1>5. Own(ST4)
    BY SMTT(60) DEF Own, ST4, Signal, Flag, Level, Code, Field, Temp, Scaled
  <1>6. Reads(UpdateFromSt4, ST4)
    BY SMTT(60) DEF Reads, ReadRow, Looked, ParsedAsPhysical, Reader, NoNums, UpdateFromSt4, ST4,
                 Signal, Flag, Level, Code, Field, Temp, Scaled
  <1> QED BY <1>1, <1>2, <1>3, <1>4, <1>5, <1>6 DEF Sound, Laid

\* A whole message: its rows, their names and how they are read.
LEMMA ST5Table == Sound("B2V_ST5") /\ Own(Messages["B2V_ST5"].signals) /\ Reads(UpdateFromSt5, Messages["B2V_ST5"].signals)
  <1>1. Messages["B2V_ST5"].signals = ST5 /\ Messages["B2V_ST5"].intel = TRUE
    BY SMT DEF Messages, Message
  <1>2. ST5 \in Seq(Range(ST5))
    BY SMT DEF Range, ST5
  <1>3. Within(ST5, 0, 64)
    BY SMT DEF Within, InFrame, ST5, Signal, Flag, Level, Code, Field, Temp, Scaled
  <1>4. Ascends(ST5)
    BY SMT DEF Ascends, ST5, Signal, Flag, Level, Code, Field, Temp, Scaled
  <1>5. Own(ST5)
    BY SMTT(60) DEF Own, ST5, Signal, Flag, Level, Code, Field, Temp, Scaled
  <1>6. Reads(UpdateFromSt5, ST5)
    BY SMTT(60) DEF Reads, ReadRow, Looked, ParsedAsPhysical, Reader, NoNums, UpdateFromSt5, ST5,
                 Signal, Flag, Level, Code, Field, Temp, Scaled
  <1> QED BY <1>1, <1>2, <1>3, <1>4, <1>5, <1>6 DEF Sound, Laid

\* A whole message: its rows, their names and how they are read.
LEMMA ST6Table == Sound("B2V_ST6") /\ Own(Messages["B2V_ST6"].signals) /\ Reads(UpdateFromSt6, Messages["B2V_ST6"].signals)
  <1>1. Messages["B2V_ST6"].signals = ST6 /\ Messages["B2V_ST6"].intel = TRUE
    BY SMT DEF Messages, Message
  <1>2. ST6 \in Seq(Range(ST6))
    BY SMT DEF Range, ST6
  <1>3. Within(ST6, 0, 64)
    BY SMT DEF Within, InFrame, ST6, Signal, Flag, Level, Code, Field, Temp, Scaled
  <1>4. Ascends(ST6)
    BY SMT DEF Ascends, ST6, Signal, Flag, Level, Code, Field, Temp, Scaled
  <1>5. Own(ST6)
    BY SMTT(60) DEF Own, ST6, Signal, Flag, Level, Code, Field, Temp, Scaled
  <1>6. Reads(UpdateFromSt6, ST6)
    BY SMTT(60) DEF Reads, ReadRow, Looked, ParsedAsPhysical, Reader, NoNums, UpdateFromSt6, ST6,
                 Signal, Flag, Level, Code, Field, Temp, Scaled
  <1> QED BY <1>1, <1>2, <1>3, <1>4, <1>5, <1>6 DEF Sound, Laid

\* A whole message: its rows, their names and how they are read.
LEMMA ST7Table == Sound("B2V_ST7") /\ Own(Messages["B2V_ST7"].signals) /\ Reads(UpdateFromSt7, Messages["B2V_ST7"].signals)
  <1>1. Messages["B2V_ST7"].signals = ST7 /\ Messages["B2V_ST7"].intel = TRUE
    BY SMT DEF Messages, Message
  <1>2. ST7 \in Seq(Range(ST7))
    BY SMT DEF Range, ST7
  <1>3. Within(ST7, 0, 64)
    BY SMT DEF Within, InFrame, ST7, Signal, Flag, Level, Code, Field, Temp, Scaled
  <1>4. Ascends(ST7)
    BY SMT DEF Ascends, ST7, Signal, Flag, Level, Code, Field, Temp, Scaled
  <1>5. Own(ST7)
    BY SMTT(60) DEF Own, ST7, Signal, Flag, Level, Code, Field, Temp, Scaled
  <1>6. Reads(UpdateFromSt7, ST7)
    BY SMTT(60) DEF Reads, ReadRow, Looked, ParsedAsPhysical, Reader, NoNums, UpdateFromSt7, ST7,
                 Signal, Flag, Level, Code, Field, Temp, Scaled
  <1> QED BY <1>1, <1>2, <1>3, <1>4, <1>5, <1>6 DEF Sound, Laid

\* A whole message: its rows, their names and how they are read.
LEMMA ElecEnergyTable == Sound("B2V_ElecEnergy") /\ Own(Messages["B2V_ElecEnergy"].signals) /\ Reads(UpdateFromElecEnergy, Messages["B2V_ElecEnergy"].signals)
  <1>1. Messages["B2V_ElecEnergy"].signals = ElecEnergy /\ Messages["B2V_ElecEnergy"].intel = TRUE
    BY SMT DEF Messages, Message
  <1>2. ElecEnergy \in Seq(Range(ElecEnergy))
    BY SMT DEF Range, ElecEnergy
  <1>3. Within(ElecEnergy, 0, 64)
    BY SMT DEF Within, InFrame, ElecEnergy, Signal, Flag, Level, Code, Field, Temp, Scaled
  <1>4. Ascends(ElecEnergy)
    BY SMT DEF Ascends, ElecEnergy, Signal, Flag, Level, Code, Field, Temp, Scaled
  <1>5. Own(ElecEnergy)
    BY SMTT(60) DEF Own, ElecEnergy, Signal, Flag, Level, Code, Field, Temp, Scaled
  <1>6. Reads(UpdateFromElecEnergy, ElecEnergy)
    BY SMTT(60) DEF Reads, ReadRow, Looked, ParsedAsPhysical, Reader, NoNums, UpdateFromElecEnergy, ElecEnergy,
                 Signal, Flag, Level, Code, Field, Temp, Scaled
  <1> QED BY <1>1, <1>2, <1>3, <1>4, <1>5, <1>6 DEF Sound, Laid

\* A whole message: its rows, their names and how they are read.
LEMMA CurrentLimitTable == Sound("B2V_CurrentLimit") /\ Own(Messages["B2V_CurrentLimit"].signals) /\ Reads(UpdateFromCurrentLimit, Messages["B2V_CurrentLimit"].signals)
  <1>1. Messages["B2V_CurrentLimit"].signals = CurrentLimit /\ Messages["B2V_CurrentLimit"].intel = TRUE
    BY SMT DEF Messages, Message
  <1>2. CurrentLimit \in Seq(Range(CurrentLimit))
    BY SMT DEF Range, CurrentLimit
  <1>3. Within(CurrentLimit, 0, 64)
    BY SMT DEF Within, InFrame, CurrentLimit, Signal, Flag, Level, Code, Field, Temp, Scaled
  <1>4. Ascends(CurrentLimit)
    BY SMT DEF Ascends, CurrentLimit, Signal, Flag, Level, Code, Field, Temp, Scaled
  <1>5. Own(CurrentLimit)
    BY SMTT(60) DEF Own, CurrentLimit, Signal, Flag, Level, Code, Field, Temp, Scaled
  <1>6. Reads(UpdateFromCurrentLimit, CurrentLimit)
    BY SMTT(60) DEF Reads, ReadRow, Looked, ParsedAsPhysical, Reader, NoNums, UpdateFromCurrentLimit, CurrentLimit,
                 Signal, Flag, Level, Code, Field, Temp, Scaled
  <1> QED BY <1>1, <1>2, <1>3, <1>4, <1>5, <1>6 DEF Sound, Laid

-----------------------------------------------------------------------------
(* Raw values as numbers.                                                  *)

\* One step of the sum over a set of bits.
Summed(f, s) == IF s = {} THEN 0 ELSE LET x == CHOOSE y \in s : TRUE IN 2 ^ x + f[s \ {x}]

\* f is the sum for the subsets of S of up to n elements.
SumsUpTo(f, S, n) ==
    f = [s \in SUBSET S |-> f[s]] /\ \A s \in SUBSET S : Cardinality(s) <= n => f[s] = Summed(f, s)

\* A finite set with one element taken out.
LEMMA OneLess ==
    ASSUME NEW S, IsFiniteSet(S), NEW s \in SUBSET S, s # {}, NEW x \in s
    PROVE  /\ IsFiniteSet(s) /\ s \ {x} \in SUBSET S
           /\ Cardinality(s) \in Nat \ {0} /\ Cardinality(s \ {x}) = Cardinality(s) - 1
  BY FS_Subset, FS_CardinalityType, FS_RemoveElement, FS_EmptySet

\* The sum for sets of one element more.
LEMMA SumStep ==
    ASSUME NEW S, IsFiniteSet(S), NEW n \in Nat, NEW f, SumsUpTo(f, S, n)
    PROVE  \E g : SumsUpTo(g, S, n + 1)
  <1> DEFINE g == [s \in SUBSET S |-> IF Cardinality(s) = n + 1 THEN Summed(f, s) ELSE f[s]]
  <1>1. ASSUME NEW s \in SUBSET S, Cardinality(s) <= n + 1
        PROVE  g[s] = Summed(g, s)
    <2> DEFINE x == CHOOSE y \in s : TRUE
    <2>0. Cardinality(s) \in Nat
      BY FS_Subset, FS_CardinalityType
    <2>1. g[s] = Summed(f, s)
      <3>1. CASE Cardinality(s) = n + 1
        BY <3>1
      <3>2. CASE Cardinality(s) # n + 1
        <4>1. Cardinality(s) <= n
          BY <1>1, <2>0, <3>2
        <4>2. f[s] = Summed(f, s)
          BY <4>1 DEF SumsUpTo
        <4> QED BY <3>2, <4>2
      <3> QED BY <3>1, <3>2
    <2>2. CASE s = {}
      BY <2>1, <2>2 DEF Summed
    <2>3. CASE s # {}
      <3>1. x \in s
        BY <2>3
      <3>2. s \ {x} \in SUBSET S /\ Cardinality(s \ {x}) = Cardinality(s) - 1
        BY <2>3, <3>1, OneLess
      <3> HIDE DEF x
      <3>3. g[s \ {x}] = f[s \ {x}]
        BY <1>1, <2>0, <3>2
      <3> HIDE DEF g
      <3> QED BY <2>1, <2>3, <3>3 DEF Summed, x
    <2> QED BY <2>2, <2>3
  <1>2. g = [s \in SUBSET S |-> g[s]]
    OBVIOUS
  <1> HIDE DEF g
  <1> QED BY <1>1, <1>2 DEF SumsUpTo

\* The sum for sets of any size: there is no smallest size without one.
LEMMA SumExists ==
    ASSUME NEW S, IsFiniteSet(S) PROVE \A n \in Nat : \E f : SumsUpTo(f, S, n)
  <1> DEFINE Bad == {n \in Nat : ~\E f : SumsUpTo(f, S, n)}
  <1> SUFFICES ASSUME Bad # {} PROVE FALSE
    OBVIOUS
  <1>1. PICK n \in Bad : \A k \in Bad : ~(<<k, n>> \in OpToRel(<, Nat))
    BY NatLessThanWellFounded, WFMin
  <1>2. \A k \in Nat : k < n => k \notin Bad
    BY <1>1 DEF OpToRel
  <1>3. n # 0
    <2> DEFINE f == [s \in SUBSET S |-> 0]
    <2>1. SumsUpTo(f, S, 0)
      <3>1. ASSUME NEW s \in SUBSET S, Cardinality(s) <= 0 PROVE s = {}
        BY <3>1, FS_Subset, FS_CardinalityType, FS_EmptySet
      <3> QED BY <3>1 DEF SumsUpTo, Summed
    <2> HIDE DEF f
    <2> QED BY <2>1
  <1>4. PICK f : SumsUpTo(f, S, n - 1)
    BY <1>2, <1>3
  <1>5. n - 1 \in Nat /\ (n - 1) + 1 = n
    BY <1>3
  <1>6. \E g : SumsUpTo(g, S, n)
    BY <1>4, <1>5, SumStep
  <1> QED BY <1>6

\* What the fold of ToNat computes: the sum of the powers of two.
LEMMA SumDefined ==
    ASSUME NEW S, IsFiniteSet(S)
    PROVE  \E f : /\ ToNat(S) = f[S]
                  /\ \A s \in SUBSET S : f[s] = Summed(f, s)
  <1> DEFINE body(g) == [s \in SUBSET S |-> IF s = {} THEN 0
                            ELSE LET x == CHOOSE y \in s : TRUE IN 2 ^ x + g[s \ {x}]]
             f == CHOOSE g : g = body(g)
  <1>1. ToNat(S) = f[S]
    BY DEF ToNat, MapThenSumSet, MapThenFoldSet
  <1>2. PICK g : SumsUpTo(g, S, Cardinality(S))
    BY SumExists, FS_CardinalityType
  <1>3. \A s \in SUBSET S : Cardinality(s) <= Cardinality(S)
    BY FS_Subset
  <1>4. g = body(g)
    BY <1>2, <1>3 DEF SumsUpTo, Summed
  <1>5. f = body(f)
    BY <1>4
  <1> HIDE DEF f
  <1>6. \A s \in SUBSET S : f[s] = Summed(f, s)
    BY <1>5 DEF Summed
  <1> QED BY <1>1, <1>6

\* The number of a raw value is an integer.
LEMMA ToNatInt == ASSUME NEW S \in SUBSET Nat, IsFiniteSet(S) PROVE ToNat(S) \in Int
  <1>1. PICK f : ToNat(S) = f[S] /\ \A s \in SUBSET S : f[s] = Summed(f, s)
    BY SumDefined
  <1> DEFINE Bad == {n \in Nat : \E s \in SUBSET S : Cardinality(s) = n /\ f[s] \notin Int}
  <1>2. Bad = {}
    <2> SUFFICES ASSUME Bad # {} PROVE FALSE
      OBVIOUS
    <2>1. PICK n \in Bad : \A k \in Bad : ~(<<k, n>> \in OpToRel(<, Nat))
      BY NatLessThanWellFounded, WFMin
    <2>2. \A k \in Nat : k < n => k \notin Bad
      BY <2>1 DEF OpToRel
    <2>3. PICK s \in SUBSET S : Cardinality(s) = n /\ f[s] \notin Int
      BY <2>1
    <2>4. CASE s = {}
      BY <1>1, <2>3, <2>4 DEF Summed
    <2>5. CASE s # {}
      <3> DEFINE x == CHOOSE y \in s : TRUE
      <3>1. x \in s
        BY <2>5
      <3>2. s \ {x} \in SUBSET S /\ Cardinality(s \ {x}) = n - 1 /\ n - 1 \in Nat
        <4>1. /\ s \ {x} \in SUBSET S /\ Cardinality(s) \in Nat \ {0}
              /\ Cardinality(s \ {x}) = Cardinality(s) - 1
          BY <2>5, <3>1, OneLess
        <4> HIDE DEF x
        <4> QED BY <2>3, <4>1
      <3> HIDE DEF x
      <3>3. f[s \ {x}] \in Int
        BY <2>2, <3>2
      <3>4. 2 ^ x \in Int
        BY <3>1
      <3>5. f[s] = 2 ^ x + f[s \ {x}]
        BY <1>1, <2>5 DEF Summed, x
      <3> QED BY <2>3, <3>3, <3>4, <3>5
    <2> QED BY <2>4, <2>5
  <1>3. Cardinality(S) \in Nat
    BY FS_CardinalityType
  <1> QED BY <1>1, <1>2, <1>3

\* Of a signal of one or two bits, only the raw value without a one bit is zero.
LEMMA ToNatShort ==
    ASSUME NEW S \in SUBSET {0, 1} PROVE ToNat(S) = 0 <=> S = {}
  <1>0. IsFiniteSet(S)
    <2>1. IsFiniteSet({0}) /\ IsFiniteSet({0} \cup {1})
      BY FS_Singleton, FS_AddElement
    <2>2. {0, 1} = {0} \cup {1}
      OBVIOUS
    <2> QED BY <2>1, <2>2, FS_Subset
  <1>1. PICK f : ToNat(S) = f[S] /\ \A s \in SUBSET S : f[s] = Summed(f, s)
    BY <1>0, SumDefined
  <1>2. \A x \in S : 2 ^ x = 1 \/ 2 ^ x = 2
    <2>1. 2 ^ 0 = 1 /\ 2 ^ 1 = 2
      OBVIOUS
    <2> QED BY <2>1
  <1>3. f[{}] = 0
    BY <1>1 DEF Summed
  <1>4. ASSUME NEW x \in S PROVE f[{x}] \in {1, 2}
    <2>1. (CHOOSE y \in {x} : TRUE) = x /\ {x} \ {x} = {} /\ {x} # {}
      OBVIOUS
    <2>2. f[{x}] = 2 ^ x + f[{}]
      BY <1>1, <2>1 DEF Summed
    <2> DEFINE w == 2 ^ x
    <2>3. w = 1 \/ w = 2
      BY <1>2
    <2>4. f[{x}] = w + 0
      BY <1>3, <2>2
    <2> HIDE DEF w
    <2> QED BY <2>3, <2>4
  <1>5. CASE S = {0, 1}
    <2> DEFINE x == CHOOSE y \in S : TRUE
    <2>1. x \in S
      BY <1>5
    <2> HIDE DEF x
    <2>2. PICK z \in S : S \ {x} = {z}
      BY <1>5, <2>1
    <2>3. f[S] = 2 ^ x + f[{z}]
      BY <1>1, <1>5, <2>2 DEF Summed, x
    <2> DEFINE w == 2 ^ x
    <2>4. f[S] = w + f[{z}] /\ (w = 1 \/ w = 2)
      BY <1>2, <2>1, <2>3
    <2> HIDE DEF w
    <2>5. f[S] # 0
      BY <1>4, <2>4
    <2> QED BY <1>1, <1>5, <2>5
  <1>6. S \in {{}, {0}, {1}, {0, 1}}
    OBVIOUS
  <1>7. 0 \notin {1, 2}
    OBVIOUS
  <1> QED BY <1>1, <1>3, <1>4, <1>5, <1>6, <1>7

-----------------------------------------------------------------------------
(* What each message of the table offers the adapter.                      *)

\* The name of row k of message m is no other row's.
Sole(m, k) ==
    \A j \in DOMAIN Messages[m].signals : Messages[m].signals[j].name = Messages[m].signals[k].name => j = k

\* A row the adapter looks for is read right and shares neither name nor bits.
Readable(m, r) ==
    \A k \in DOMAIN Messages[m].signals :
        /\ ReadRow(r, Messages[m].signals[k])
        /\ Messages[m].signals[k].name \in Looked(r) => Alone(m, k) /\ Sole(m, k)

\* An Intel message whose rows fit the reader is read right.
LEMMA SoundReadable ==
    ASSUME NEW m, NEW r, Sound(m), Own(Messages[m].signals), Reads(r, Messages[m].signals)
    PROVE  Readable(m, r)
  <1>1. \A k \in DOMAIN Messages[m].signals : Alone(m, k)
    BY LaidAlone DEF Sound
  <1> QED BY <1>1 DEF Readable, Reads, ReadRow, Own, Sole

\* The two messages in Motorola order.
LEMMA B2TMTable == Shaped("B2TM_Info")
  <1>1. Messages["B2TM_Info"].signals = B2TM /\ Messages["B2TM_Info"].intel = FALSE
    BY SMT DEF Messages, Message
  <1>2. \A k \in DOMAIN B2TM : InFrame(B2TM[k].start, B2TM[k].len)
    BY SMT DEF InFrame, B2TM, Signal, Flag, Level, Code, Field, Temp, Scaled
  <1>3. \A k \in DOMAIN B2TM : Straight(B2TM[k], FALSE) \/ TwoBytes(B2TM[k])
    BY SMT DEF Straight, TwoBytes, B2TM, Signal, Flag, Level, Code, Field, Temp, Scaled
  <1> QED BY <1>1, <1>2, <1>3 DEF Shaped

\* The adapter reads three signals of the thermal message, none of which spans two bytes.
LEMMA TM2BTable == Shaped("TM2B_Info") /\ Readable("TM2B_Info", UpdateFromTm2b)
  <1>1. Messages["TM2B_Info"].signals = TM2B /\ Messages["TM2B_Info"].intel = FALSE
    BY SMT DEF Messages, Message
  <1>2. \A k \in DOMAIN TM2B : InFrame(TM2B[k].start, TM2B[k].len)
    BY SMT DEF InFrame, TM2B, Signal, Flag, Level, Code, Field, Temp, Scaled
  <1>3. \A k \in DOMAIN TM2B : Straight(TM2B[k], FALSE) \/ TwoBytes(TM2B[k])
    BY SMT DEF Straight, TwoBytes, B2TM, TM2B, Signal, Flag, Level, Code, Field, Temp, Scaled
  <1>4. Reads(UpdateFromTm2b, TM2B)
    BY SMTT(60) DEF Reads, ReadRow, Looked, ParsedAsPhysical, Reader, NoNums, UpdateFromTm2b, TM2B,
                 Signal, Flag, Level, Code, Field, Temp, Scaled
  <1>5. \A k \in DOMAIN TM2B : TM2B[k].name \in Looked(UpdateFromTm2b) => k \in {1, 8, 9}
    BY SMT DEF Looked, Reader, NoNums, UpdateFromTm2b, TM2B,
                 Signal, Flag, Level, Code, Field, Temp, Scaled
  <1>6. \A k \in {1, 8, 9} : \A j \in DOMAIN TM2B : TM2B[j].name = TM2B[k].name => j = k
    BY SMTT(60) DEF TM2B, Signal, Flag, Level, Code, Field, Temp, Scaled
  <1>7. \A k \in {1, 8, 9} : Straight(TM2B[k], FALSE)
    BY SMT DEF Straight, TM2B, Signal, Flag, Level, Code, Field, Temp, Scaled
  <1>8. \A k \in {1, 8, 9} : \A j \in DOMAIN TM2B : j # k => Span(TM2B[j], FALSE) \cap Window(TM2B[k]) = {}
    <2>1. \A j \in DOMAIN TM2B : Span(TM2B[j], FALSE) \subseteq
              IF j = 1 THEN 0..1 ELSE IF j = 8 THEN 56..61 ELSE IF j = 9 THEN 62..63 ELSE 2..55
      BY SMT DEF Span, Window, Straight, TM2B, Signal, Flag, Level, Code, Field, Temp, Scaled
    <2>2. /\ TM2B[1].start = 0 /\ TM2B[1].len = 2 /\ TM2B[8].start = 56 /\ TM2B[8].len = 6
          /\ TM2B[9].start = 62 /\ TM2B[9].len = 2
      BY SMT DEF TM2B, Signal, Flag, Level, Code, Field, Temp, Scaled
    <2>3. Window(TM2B[1]) = 0..1 /\ Window(TM2B[8]) = 56..61 /\ Window(TM2B[9]) = 62..63
      BY <2>2 DEF Window
    <2>4. ASSUME NEW k \in {1, 8, 9}, NEW j \in DOMAIN TM2B, j # k,
                 NEW p \in Span(TM2B[j], FALSE), p \in Window(TM2B[k])
          PROVE  FALSE
      <3>1. p \in IF j = 1 THEN 0..1 ELSE IF j = 8 THEN 56..61 ELSE IF j = 9 THEN 62..63 ELSE 2..55
        BY <2>1, <2>4
      <3>2. CASE k = 1
        BY <2>3, <2>4, <3>1, <3>2
      <3>3. CASE k = 8
        BY <2>3, <2>4, <3>1, <3>3
      <3>4. CASE k = 9
        BY <2>3, <2>4, <3>1, <3>4
      <3> QED BY <3>2, <3>3, <3>4
    <2> QED BY <2>4
  <1>9. Shaped("TM2B_Info")
    BY <1>1, <1>2, <1>3 DEF Shaped
  <1>10. \A k \in {1, 8, 9} : Alone("TM2B_Info", k) /\ Sole("TM2B_Info", k)
    BY <1>1, <1>6, <1>7, <1>8 DEF Alone, Sole
  <1>11. Readable("TM2B_Info", UpdateFromTm2b)
    <2>1. \A k \in DOMAIN TM2B : ReadRow(UpdateFromTm2b, TM2B[k])
      BY <1>4 DEF Reads
    <2> QED BY <1>1, <1>5, <1>10, <2>1 DEF Readable
  <1> QED BY <1>9, <1>11

\* The fifteen messages.
LEMMA Names15 ==
    MessageNames = {"V2B_CMD", "B2V_Fult1_32960", "B2V_Fult2", "B2V_ST1", "B2V_ST2", "B2V_ST3",
                    "B2V_ST4", "B2V_ST5", "B2V_ST6", "B2V_ST7", "B2V_ElecEnergy",
                    "B2V_CurrentLimit", "B2TM_Info", "TM2B_Info", "Fire2B_state"}
  BY SMT DEF MessageNames, Messages

\* Every message fits its frame, and the adapter's rows are readable.
LEMMA AllShaped == \A m \in MessageNames : Shaped(m)
  <1>1. \A m \in MessageNames \ {"B2TM_Info", "TM2B_Info"} : Sound(m)
    BY Names15, CmdTable, Fult1Table, Fult2Table, St1Table, ST2Table, ST3Table, ST4Table, ST5Table, ST6Table,
       ST7Table, ElecEnergyTable, CurrentLimitTable, FireTable
  <1> QED BY <1>1, LaidAlone, B2TMTable, TM2BTable DEF Sound

\* Each message the adapter reads has the reader of its canonical name, and fits it.
LEMMA ReadersOf ==
    ASSUME NEW m \in MessageNames, CanonicalMsgName(m) \in DOMAIN Readers
    PROVE  Readable(m, Readers[CanonicalMsgName(m)])
  <1>1. /\ Readers["B2V_Fault1"] = UpdateFromFault1 /\ Readers["B2V_Fault2"] = UpdateFromFault2
        /\ Readers["B2V_ST1"] = UpdateFromSt1 /\ Readers["B2V_ST2"] = UpdateFromSt2
        /\ Readers["B2V_ST3"] = UpdateFromSt3 /\ Readers["B2V_ST4"] = UpdateFromSt4
        /\ Readers["B2V_ST5"] = UpdateFromSt5 /\ Readers["B2V_ST6"] = UpdateFromSt6
        /\ Readers["B2V_ST7"] = UpdateFromSt7 /\ Readers["B2V_ElecEnergy"] = UpdateFromElecEnergy
        /\ Readers["B2V_CurrentLimit"] = UpdateFromCurrentLimit /\ Readers["TM2B_Info"] = UpdateFromTm2b
    BY SMT DEF Readers
  <1>2. "V2B_CMD" \notin DOMAIN Readers /\ "B2TM_Info" \notin DOMAIN Readers
        /\ "Fire2B_state" \notin DOMAIN Readers
    BY SMT DEF Readers
  <1>3. /\ CanonicalMsgName("B2V_Fult1_32960") = "B2V_Fault1" /\ CanonicalMsgName("B2V_Fult2") = "B2V_Fault2"
        /\ \A n \in MessageNames \ {"B2V_Fult1_32960", "B2V_Fult2"} : CanonicalMsgName(n) = n
    BY DEF CanonicalMsgName
  <1>4. CASE m \in {"B2V_Fult1_32960", "B2V_Fult2", "B2V_ST1"}
    BY <1>1, <1>3, <1>4, SoundReadable, Fult1Table, Fult2Table, St1Table
  <1>5. CASE m \in {"B2V_ST2", "B2V_ST3", "B2V_ST4", "B2V_ST5"}
    BY <1>1, <1>3, <1>5, SoundReadable, ST2Table, ST3Table, ST4Table, ST5Table
  <1>6. CASE m \in {"B2V_ST6", "B2V_ST7", "B2V_ElecEnergy", "B2V_CurrentLimit"}
    BY <1>1, <1>3, <1>6, SoundReadable, ST6Table, ST7Table, ElecEnergyTable, CurrentLimitTable
  <1>7. CASE m = "TM2B_Info"
    BY <1>1, <1>3, <1>7, TM2BTable
  <1>8. CASE m \in {"V2B_CMD", "B2TM_Info", "Fire2B_state"}
    BY <1>2, <1>3, <1>8
  <1> QED BY <1>4, <1>5, <1>6, <1>7, <1>8, Names15

\* No command signal is spare: every one has a name of its own.
LEMMA CommandOwn == \A k \in DOMAIN Messages["V2B_CMD"].signals : Sole("V2B_CMD", k) /\ Alone("V2B_CMD", k)
  <1> DEFINE s == Messages["V2B_CMD"].signals
  <1>1. s = V2B_CMD_Orders \o V2B_CMD_Relays \o V2B_CMD_AuxRelays
    BY SMT DEF Messages, Message
  <1> DEFINE Named(x) == \A i \in DOMAIN x : x[i].name # "Reserved"
  <1>2. Named(V2B_CMD_Orders) /\ Named(V2B_CMD_Relays) /\ Named(V2B_CMD_AuxRelays)
    <2>1. Named(V2B_CMD_Orders)
      BY SMT DEF V2B_CMD_Orders, Signal, Flag, Level, Code, Field, Temp, Scaled
    <2>2. Named(V2B_CMD_Relays)
      BY SMT DEF V2B_CMD_Relays, Signal, Flag, Level, Code, Field, Temp, Scaled
    <2>3. Named(V2B_CMD_AuxRelays)
      BY SMT DEF V2B_CMD_AuxRelays, Signal, Flag, Level, Code, Field, Temp, Scaled
    <2> QED BY <2>1, <2>2, <2>3
  <1>3. \A p, q : (\E a, b, c, d : Laid(p, a, b) /\ Laid(q, c, d)) /\ Named(p) /\ Named(q) => Named(p \o q)
    <2> SUFFICES ASSUME NEW p, NEW q, NEW a, NEW b, NEW c, NEW d, Laid(p, a, b), Laid(q, c, d), Named(p), Named(q)
                 PROVE  Named(p \o q)
      OBVIOUS
    <2>1. p \in Seq(Range(p)) /\ q \in Seq(Range(q))
      BY DEF Laid
    <2>2. \A k \in DOMAIN (p \o q) :
          \/ k \in DOMAIN p /\ (p \o q)[k] = p[k]
          \/ k - Len(p) \in DOMAIN q /\ (p \o q)[k] = q[k - Len(p)] /\ k > Len(p)
      BY <2>1, Joined
    <2> QED BY <2>2
  <1>4. Laid(V2B_CMD_Orders \o V2B_CMD_Relays, 0, 48)
    BY V2BCMDOrdersRows, V2BCMDRelaysRows, LaidJoined
  <1> HIDE DEF Named
  <1>5. Named(V2B_CMD_Orders \o V2B_CMD_Relays)
    BY <1>2, <1>3, V2BCMDOrdersRows, V2BCMDRelaysRows
  <1>6. Named(s)
    BY <1>1, <1>2, <1>3, <1>4, <1>5, V2BCMDAuxRelaysRows
  <1>7. \A k \in DOMAIN s : Alone("V2B_CMD", k)
    BY CmdTable, LaidAlone DEF Sound
  <1>8. Own(s)
    BY CmdTable
  <1> QED BY <1>6, <1>7, <1>8 DEF Named, Own, Sole

-----------------------------------------------------------------------------
(* From the frame to the cache.                                            *)

\* Identifiers have 29 bits.
BusId(x) == x \in Nat /\ x <= \h1FFFFFFF

\* The frame on the wire holds the bits of what was sent, and what was taken is what
\* a frame of those bits decodes to.
Carried ==
    /\ wire # NoFrame => got = Nothing
    /\ BusId(wire.id) /\ wire.bits \subseteq 0..63
    /\ sent # Nothing =>
         /\ sent.msg \in MessageNames /\ sent.vals \in Payloads(sent.msg)
         /\ wire # NoFrame => wire.bits = PeerEncodes(sent.msg, sent.vals)
         /\ wire = NoFrame => \E f : /\ f.bits = PeerEncodes(sent.msg, sent.vals)
                                     /\ got = Taken(Parse(f, sent.msg))

\* An identifier made for a battery has 29 bits.
LEMMA RuntimeIdFits ==
    ASSUME NEW m \in MessageNames, NEW i \in 1..4
    PROVE  BusId(RewriteRuntimeId(Messages[m].id, i))
  <1> DEFINE c == CodeOf[m]
             t == ProtoIds[c]
  <1>1. c \in 1..15 /\ Messages[m].id = t
    BY TableCodes
  <1> HIDE DEF c
  <1>2. MsgCodeFromProtoId(t) = c /\ ProtoIdFromMsgCode(c) = t
    BY <1>1, CodeOfProtoId
  <1>3. t \in Nat /\ t # 0
    BY <1>1, ProtoIdFacts
  <1>4. t <= \h1FFFEFFF
    BY <1>1, SMT DEF ProtoIds
  <1> HIDE DEF t
  <1>5. RewriteRuntimeId(t, i) = (t - (t % 4096)) + i * 256 + c
    BY <1>1, <1>2, <1>3 DEF RewriteRuntimeId, IsValidInstance
  <1>6. t % 4096 \in 0..4095
    BY <1>3, SMT
  <1> DEFINE low == t % 4096
  <1>7. low \in 0..4095 /\ low <= t
    BY <1>3, <1>6, SMT
  <1> HIDE DEF low
  <1>8. i * 256 + c \in 0..1039
    BY <1>1
  <1> DEFINE own == i * 256 + c
  <1> HIDE DEF own
  <1>9. BusId((t - low) + own)
    <2>1. own \in 0..1039
      BY <1>8 DEF own
    <2>2. (t - low) + own \in Nat
      BY <1>3, <1>7, <2>1, SMT
    <2>3. (t - low) + own <= t + 1039
      BY <1>3, <1>7, <2>1, SMT
    <2>4. t + 1039 <= \h1FFFFFFF
      BY <1>3, <1>4, SMT
    <2> QED BY <1>3, <2>2, <2>3, <2>4, SMT DEF BusId
  <1>10. i * 256 \in Nat /\ c \in Nat /\ own = i * 256 + c
    BY <1>1 DEF own
  <1>11. (t - low) + i * 256 + c = (t - low) + own
    BY <1>3, <1>7, <1>10, SMT
  <1>12. RewriteRuntimeId(t, i) = (t - low) + own
    BY <1>5, <1>11 DEF low
  <1> QED BY <1>1, <1>9, <1>12

\* A payload fits its message.
LEMMA PayloadFits ==
    ASSUME NEW m \in MessageNames, NEW vals \in Payloads(m) PROVE Fit(Messages[m].signals, vals)
  BY PayloadsAssumption DEF Fit

\* Sending and receiving keep it.
LEMMA CarriedStep == Exchange /\ Carried /\ [Next]_vars => Carried'
  <1> SUFFICES ASSUME Exchange, Carried, [Next]_vars PROVE Carried'
    OBVIOUS
  <1>1. ASSUME NEW i \in Batteries, NEW m \in MessageNames, NEW vals \in Payloads(m), Idle,
               sent' = [msg |-> m, inst |-> i, vals |-> vals],
               wire' = [id |-> RewriteRuntimeId(Messages[m].id, i), bits |-> PeerEncodes(m, vals)],
               got' = got
        PROVE  Carried'
    <2>1. i \in 1..4
      BY BatteriesAssumption
    <2>2. BusId(wire'.id) /\ wire'.id # 0
      BY <1>1, <2>1, RuntimeIdFits, RoutesBack
    <2>3. wire' # NoFrame
      BY <2>2 DEF NoFrame
    <2>4. got' = Nothing
      BY <1>1 DEF Idle, Exchange
    <2>5. wire'.bits = PeerEncodes(m, vals) /\ sent'.msg = m /\ sent'.vals = vals
      BY <1>1
    <2>6. PeerEncodes(m, vals) \subseteq 0..63
      BY AllShaped, PayloadFits, PeerInFrame
    <2> QED BY <2>2, <2>3, <2>4, <2>5, <2>6 DEF Carried
  <1>2. ASSUME NEW i \in Batteries, CommandSend(i) PROVE Carried'
    <2>1. "V2B_CMD" \in MessageNames
      BY Names15
    <2>2. PICK vals \in Payloads("V2B_CMD") :
              sent' = [msg |-> "V2B_CMD", inst |-> i, vals |-> vals] /\ wire' = BuildFrame(i, vals)
      BY <1>2 DEF CommandSend
    <2>3. Packed(vals) = PeerEncodes("V2B_CMD", vals)
      BY <2>1, PayloadFits, CmdTable, PackedAsPeer DEF Sound
    <2>4. Idle /\ got' = got
      BY <1>2 DEF CommandSend
    <2>5. wire' = [id |-> RewriteRuntimeId(Messages["V2B_CMD"].id, i), bits |-> PeerEncodes("V2B_CMD", vals)]
      BY <2>2, <2>3 DEF BuildFrame
    <2> QED BY <1>1, <2>1, <2>2, <2>4, <2>5
  <1>3. ASSUME NEW i \in Batteries, BatterySend(i) PROVE Carried'
    <2>1. PICK m \in MessageNames \ {"V2B_CMD"} : \E vals \in Payloads(m) :
            /\ sent' = [msg |-> m, inst |-> i, vals |-> vals]
            /\ wire' = [id |-> RewriteRuntimeId(Messages[m].id, i), bits |-> PeerEncodes(m, vals)]
      BY <1>3 DEF BatterySend
    <2>2. Idle /\ got' = got
      BY <1>3 DEF BatterySend
    <2> QED BY <1>1, <2>1, <2>2
  <1>4. CASE StraySend
    <2>1. PICK id \in StrayIds : wire' = [id |-> id, bits |-> 0..63]
      BY <1>4 DEF StraySend
    <2>2. sent' = sent /\ got' = got /\ sent = Nothing /\ wire = NoFrame
      BY <1>4 DEF StraySend, Idle
    <2>3. got = Nothing
      BY <2>2 DEF Exchange
    <2>4. wire'.id = id /\ wire'.bits = 0..63
      BY <2>1
    <2>5. BusId(id)
      BY StrayIdsAssumption, SMT DEF BusId
    <2> QED BY <2>2, <2>3, <2>4, <2>5 DEF Carried
  <1>5. CASE Receive
    <2>1. wire # NoFrame /\ wire' = NoFrame /\ sent' = sent
      BY <1>5 DEF Receive
    <2>2. BusId(wire'.id) /\ wire'.bits \subseteq 0..63
      BY <2>1, SMT DEF NoFrame, BusId
    <2>3. CASE sent = Nothing
      BY <2>1, <2>2, <2>3 DEF Carried
    <2>4. CASE sent # Nothing
      <3>1. PICK m \in MessageNames, i \in 1..4 : sent.msg = m /\ wire.id = RewriteRuntimeId(Messages[m].id, i)
        BY <2>1, <2>4 DEF Exchange
      <3>2. FindMessage(wire.id) = {m}
        BY <3>1, RoutesBack
      <3>3. got' = Taken(Parse(wire, m))
        <4>1. \E n \in FindMessage(wire.id) : \E d \in {Parse(wire, n)} : got' = Taken(d)
          BY <1>5, <3>2 DEF Receive, Taken
        <4> QED BY <3>2, <4>1
      <3>4. wire.bits = PeerEncodes(m, sent.vals) /\ sent.vals \in Payloads(m)
        BY <2>1, <2>4, <3>1 DEF Carried
      <3> QED BY <2>1, <2>2, <3>1, <3>3, <3>4 DEF Carried
    <2> QED BY <2>3, <2>4
  <1>6. CASE UNCHANGED vars
    BY <1>6 DEF vars, Carried
  <1> QED BY <1>2, <1>3, <1>4, <1>5, <1>6 DEF Next

\* The rows of a message are numbered.
LEMMA TableIndices == \A m \in MessageNames : DOMAIN Messages[m].signals \subseteq Nat
  <1>1. \A m \in MessageNames \ {"B2TM_Info", "TM2B_Info"} : Sound(m)
    BY Names15, CmdTable, Fult1Table, Fult2Table, St1Table, ST2Table, ST3Table, ST4Table, ST5Table, ST6Table,
       ST7Table, ElecEnergyTable, CurrentLimitTable, FireTable
  <1>2. \A s : Laid(s, 0, 64) => DOMAIN s \subseteq Nat
    BY DEF Laid
  <1>3. DOMAIN Messages["B2TM_Info"].signals \subseteq Nat
    <2>1. Messages["B2TM_Info"].signals = B2TM
      BY SMT DEF Messages, Message
    <2> QED BY <2>1, SMT DEF B2TM
  <1>4. DOMAIN Messages["TM2B_Info"].signals \subseteq Nat
    <2>1. Messages["TM2B_Info"].signals = TM2B
      BY SMT DEF Messages, Message
    <2> QED BY <2>1, SMT DEF TM2B
  <1> QED BY <1>1, <1>2, <1>3, <1>4 DEF Sound

\* A row that shares neither name nor bits comes out of the parser as it was sent.
LEMMA ParsedAlone ==
    ASSUME NEW m \in MessageNames, NEW vals \in Payloads(m), NEW f, f.bits = PeerEncodes(m, vals),
           NEW k \in DOMAIN Messages[m].signals, Alone(m, k), Sole(m, k)
    PROVE  LET d == Parse(f, m)
               row == Messages[m].signals[k]
           IN /\ SignalOf(m, row.name) = row
              /\ IF ParsedAsPhysical(row)
                 THEN row.name \in DOMAIN d.num /\ d.num[row.name] = vals[k]
                 ELSE row.name \notin DOMAIN d.num /\ row.name \in DOMAIN d.value /\ d.value[row.name] = vals[k]
  <1> DEFINE d == Parse(f, m)
             row == Messages[m].signals[k]
             rows == {j \in DOMAIN Messages[m].signals : Messages[m].signals[j].name = row.name}
  <1>1. rows = {k}
    BY DEF Sole
  <1>2. k \in Int
    BY TableIndices
  <1>3. Max({k}) = k /\ Min({k}) = k
    BY <1>2 DEF Max, Min
  <1>4. SignalOf(m, row.name) = row
    <2> DEFINE phys == {j \in rows : ParsedAsPhysical(Messages[m].signals[j])}
    <2>1. phys = {} \/ phys = {k}
      BY <1>1
    <2>2. SignalOf(m, row.name) = Messages[m].signals[IF phys # {} THEN Min(phys) ELSE Max(rows)]
      BY DEF SignalOf
    <2> HIDE DEF phys, rows
    <2> QED
      BY <1>1, <1>3, <2>1, <2>2
  <1>5. row.name \in SignalNames(m)
    BY DEF SignalNames
  <1>6. ExtractBits(f.bits, row.start, row.len) = vals[k]
    BY AllShaped, PayloadFits, ExtractAlone
  <1> HIDE DEF row
  <1> HIDE DEF d
  <1>7. /\ row.name \in DOMAIN d.num <=> ParsedAsPhysical(row)
        /\ row.name \in DOMAIN d.value <=> ~ParsedAsPhysical(row)
    BY <1>4, <1>5 DEF Parse, d
  <1>8. ParsedAsPhysical(row) => d.num[row.name] = ExtractBits(f.bits, row.start, row.len)
    BY <1>4, <1>5 DEF Parse, d
  <1>9. ~ParsedAsPhysical(row) => d.value[row.name] = ExtractBits(f.bits, row.start, row.len)
    BY <1>4, <1>5 DEF Parse, d
  <1> QED BY <1>4, <1>6, <1>7, <1>8, <1>9 DEF row, d

\* A command field, taken apart, is the one that was packed.
LEMMA CommandTaken ==
    ASSUME NEW vals \in Payloads("V2B_CMD"), NEW f, f.bits = PeerEncodes("V2B_CMD", vals), NEW k \in DOMAIN vals
    PROVE  Taken(Parse(f, "V2B_CMD")).raw[Messages["V2B_CMD"].signals[k].name] = vals[k]
  <1> DEFINE d == Parse(f, "V2B_CMD")
             n == Messages["V2B_CMD"].signals[k].name
  <1>1. "V2B_CMD" \in MessageNames
    BY Names15
  <1>2. k \in DOMAIN Messages["V2B_CMD"].signals
    BY <1>1, PayloadFits DEF Fit
  <1>3. \/ n \in DOMAIN d.num /\ d.num[n] = vals[k]
        \/ n \notin DOMAIN d.num /\ n \in DOMAIN d.value /\ d.value[n] = vals[k]
    BY <1>1, <1>2, CommandOwn, ParsedAlone
  <1> HIDE DEF d
  <1>4. Taken(d).raw[n] = IF n \in DOMAIN d.num THEN d.num[n] ELSE d.value[n]
    BY <1>3 DEF Taken
  <1> QED BY <1>3, <1>4 DEF d

\* The reading of row's raw value that the protocol means.
MeantReading(r, row, raw) ==
    IF row.name \in DOMAIN r.nums /\ Invalid(r.nums[row.name], Meant(row, raw), row.den)
    THEN Reading(FALSE, 0)
    ELSE IF row.name \in r.bools
         THEN Reading(TRUE, IF raw = {} THEN 0 ELSE 1)
         ELSE Reading(TRUE, Meant(row, raw))

\* What the adapter's cache holds of a signal it looks for.
LEMMA ReadTaken ==
    ASSUME NEW m \in MessageNames, NEW vals \in Payloads(m), NEW f, f.bits = PeerEncodes(m, vals),
           CanonicalMsgName(m) \in DOMAIN Readers, NEW k \in DOMAIN vals,
           Messages[m].signals[k].name \in Looked(Readers[CanonicalMsgName(m)]),
           Messages[m].signals[k].off >= 0 \/ Messages[m].signals[k].len - 1 \notin vals[k]
    PROVE  LET r == Readers[CanonicalMsgName(m)]
               row == Messages[m].signals[k]
           IN Taken(Parse(f, m)).cache[row.name] = MeantReading(r, row, vals[k])
  <1> DEFINE r == Readers[CanonicalMsgName(m)]
             row == Messages[m].signals[k]
             d == Parse(f, m)
             n == row.name
  <1>1. k \in DOMAIN Messages[m].signals /\ vals[k] \subseteq 0 .. row.len - 1
    BY PayloadFits DEF Fit
  <1>2. ReadRow(r, row) /\ Alone(m, k) /\ Sole(m, k)
    BY <1>1, ReadersOf DEF Readable
  <1>3. /\ SignalOf(m, n) = row
        /\ IF ParsedAsPhysical(row)
           THEN n \in DOMAIN d.num /\ d.num[n] = vals[k]
           ELSE n \notin DOMAIN d.num /\ n \in DOMAIN d.value /\ d.value[n] = vals[k]
    BY <1>1, <1>2, ParsedAlone
  <1>4. d.table = m /\ d.msg = CanonicalMsgName(m)
    BY DEF Parse
  <1>5. IsFiniteSet(vals[k]) /\ vals[k] \in SUBSET Nat
    <2>1. row.len \in Nat
      BY <1>1, AllShaped DEF Shaped, InFrame
    <2>2. IsFiniteSet(0 .. row.len - 1) /\ 0 .. row.len - 1 \subseteq Nat
      BY <2>1, FS_Interval
    <2> QED BY <1>1, <2>2, FS_Subset
  <1>6. ToNat(vals[k]) \in Int
    BY <1>5, ToNatInt
  <1> HIDE DEF d, r, row
  <1>7. RawToPhys(row, vals[k]) = Meant(row, vals[k])
    <2>1. row.off >= 0 \/ row.len - 1 \notin vals[k]
      BY DEF row
    <2>2. row.off \in Int
      BY <1>2 DEF ReadRow
    <2>3. SignExtend(vals[k], row.len) = ToNat(vals[k]) \/ ~(row.off < 0)
      BY <2>1, <2>2 DEF SignExtend
    <2>4. (IF row.off < 0 THEN SignExtend(vals[k], row.len) ELSE ToNat(vals[k])) = ToNat(vals[k])
      BY <2>3
    <2> QED BY <2>4 DEF RawToPhys, Meant
  <1> DEFINE AsInt == IF n \in DOMAIN d.value THEN ToNat(d.value[n]) ELSE RawToPhys(SignalOf(d.table, n), d.num[n])
             AsNum == LET v == RawToPhys(SignalOf(d.table, n), d.num[n])
                      IN IF Invalid(r.nums[n], v, SignalOf(d.table, n).den) THEN Reading(FALSE, 0) ELSE Reading(TRUE, v)
  <1>8. n \in DOMAIN d.value => n \notin DOMAIN d.num
    BY DEF d, Parse
  <1>9. AsInt = Meant(row, vals[k])
    <2>1. CASE ParsedAsPhysical(row)
      BY <1>3, <1>4, <1>7, <1>8, <2>1
    <2>2. CASE ~ParsedAsPhysical(row)
      <3>1. row.num = 1 /\ row.off = 0 /\ row.den \in Int
        BY <1>2, <2>2 DEF ReadRow, r, row
      <3>2. AsInt = ToNat(vals[k])
        BY <1>3, <2>2
      <3> QED BY <1>6, <3>1, <3>2 DEF Meant
    <2> QED BY <2>1, <2>2
  <1>10. Taken(d).cache[n] =
           IF n \in DOMAIN r.nums \cap DOMAIN d.num THEN AsNum
           ELSE IF n \in r.ints THEN Reading(TRUE, AsInt)
           ELSE Reading(TRUE, IF AsInt # 0 THEN 1 ELSE 0)
    <2>1. d.msg \in DOMAIN Readers /\ Readers[d.msg] = r
      BY <1>4 DEF r
    <2>2. n \in (DOMAIN r.nums \cap DOMAIN d.num) \cup r.ints \cup r.bools
      BY <1>2, <1>3 DEF ReadRow, Looked, r, row
    <2>3. Taken(d).cache = ReadSignals(d)
      BY <2>1 DEF Taken
    <2> QED BY <2>1, <2>2, <2>3 DEF ReadSignals
  <1>11. CASE n \in DOMAIN r.nums
    <2>1. n \in DOMAIN d.num /\ d.num[n] = vals[k]
      BY <1>2, <1>3, <1>11 DEF ReadRow
    <2>2. n \notin r.bools
      BY <1>2, <1>11 DEF ReadRow
    <2>3. AsNum = IF Invalid(r.nums[n], Meant(row, vals[k]), row.den) THEN Reading(FALSE, 0)
                  ELSE Reading(TRUE, Meant(row, vals[k]))
      BY <1>3, <1>4, <1>7, <2>1
    <2> QED BY <1>10, <1>11, <2>1, <2>2, <2>3 DEF d, r, row, MeantReading
  <1>12. CASE n \notin DOMAIN r.nums /\ n \in r.ints
    <2>1. n \notin r.bools
      BY <1>2, <1>12 DEF ReadRow
    <2> QED BY <1>9, <1>10, <1>12, <2>1 DEF d, r, row, MeantReading
  <1>13. CASE n \notin DOMAIN r.nums /\ n \notin r.ints
    <2>1. n \in r.bools
      BY <1>13 DEF Looked, r, row
    <2>2. ~ParsedAsPhysical(row) /\ row.len <= 2
      BY <1>2, <2>1 DEF ReadRow
    <2>3. row.len \in Nat \ {0}
      BY <1>1, AllShaped DEF Shaped, InFrame, row
    <2>4. vals[k] \in SUBSET {0, 1}
      BY <1>1, <2>2, <2>3 DEF row
    <2>5. AsInt = ToNat(vals[k])
      BY <1>3, <2>2
    <2>6. AsInt # 0 <=> vals[k] # {}
      BY <2>4, <2>5, ToNatShort
    <2> QED BY <1>10, <1>13, <2>1, <2>6 DEF d, r, row, MeantReading
  <1> QED BY <1>11, <1>12, <1>13

\* A frame holds a 29-bit identifier and eight bytes.
THEOREM TypeCorrect == Spec => []TypeOK
  <1>1. Init => Exchange /\ Carried
    BY SMT DEF Init, Exchange, Carried, NoFrame, BusId
  <1>2. Exchange /\ Carried => TypeOK
    BY SMT DEF Exchange, Carried, TypeOK, BusId
  <1> QED BY <1>1, <1>2, ExchangeStep, CarriedStep, PTL DEF Spec

\* A command, whatever its fields hold, is read by the table as BmsTx packed it.
THEOREM CommandAsBuiltAlways == Spec => []CommandAsBuilt
  <1>1. Init => Exchange /\ Carried
    BY SMT DEF Init, Exchange, Carried, NoFrame, BusId
  <1>2. Carried => CommandAsBuilt
    <2> SUFFICES ASSUME Carried, Received, sent.msg = "V2B_CMD", NEW k \in DOMAIN sent.vals
                 PROVE  got.raw[Messages["V2B_CMD"].signals[k].name] = sent.vals[k]
      BY DEF CommandAsBuilt
    <2>1. sent.vals \in Payloads("V2B_CMD") /\ \E f : /\ f.bits = PeerEncodes("V2B_CMD", sent.vals)
                                                      /\ got = Taken(Parse(f, "V2B_CMD"))
      BY DEF Carried, Received
    <2> QED BY <2>1, CommandTaken
  <1> QED BY <1>1, <1>2, ExchangeStep, CarriedStep, PTL DEF Spec

\* Whatever a message carries, the adapter's cache holds of each signal it looks for
\* the value the protocol means (readNum_, readInt_, readBool_).
THEOREM ReadsWhatWasSentAlways == Spec => []ReadsWhatWasSent
  <1>1. Init => Exchange /\ Carried
    BY SMT DEF Init, Exchange, Carried, NoFrame, BusId
  <1>2. Carried => ReadsWhatWasSent
    <2> SUFFICES ASSUME Carried, Received, got.msg \in DOMAIN Readers,
                        NEW k \in DOMAIN sent.vals,
                        Messages[sent.msg].signals[k].name \in Looked(Readers[got.msg]),
                        \/ Messages[sent.msg].signals[k].off >= 0
                        \/ Messages[sent.msg].signals[k].len - 1 \notin sent.vals[k]
                 PROVE  ReadAsMeant(Readers[got.msg], Messages[sent.msg].signals[k], sent.vals[k])
      BY DEF ReadsWhatWasSent, SignalsRead, Looked
    <2>1. PICK f : f.bits = PeerEncodes(sent.msg, sent.vals) /\ got = Taken(Parse(f, sent.msg))
      BY DEF Carried, Received
    <2>2. sent.msg \in MessageNames /\ sent.vals \in Payloads(sent.msg)
      BY DEF Carried, Received
    <2>3. got.msg = CanonicalMsgName(sent.msg)
      BY <2>1 DEF Taken, Parse
    <2> DEFINE m == sent.msg
               vals == sent.vals
               r == Readers[CanonicalMsgName(m)]
               row == Messages[m].signals[k]
    <2>4. CanonicalMsgName(m) \in DOMAIN Readers /\ row.name \in Looked(r)
      BY <2>3
    <2>5. Taken(Parse(f, m)).cache[row.name] = MeantReading(r, row, vals[k])
      BY <2>1, <2>2, <2>4, ReadTaken
    <2> QED BY <2>1, <2>3, <2>5 DEF ReadAsMeant, MeantReading
  <1> QED BY <1>1, <1>2, ExchangeStep, CarriedStep, PTL DEF Spec
=============================================================================
