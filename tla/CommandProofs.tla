---------------------------- MODULE CommandProofs -----------------------------
(***************************************************************************)
(* Theorems about CommandLink, for bytes of every width, every xor, every  *)
(* set of calls and of bytes that killed clients may leave behind: types   *)
(* (LineIsTyped) from the assumptions on the constants alone, and the      *)
(* matching of calls and answers if the badge is attended and quick, and   *)
(* what is left behind is the beginning of a command that answers without  *)
(* data (Mild) and calls are answered with a truthful length (Fitting).    *)
(*                                                                         *)
(* The argument: the bytes in cmd_buf and on the line, one behind the      *)
(* other, are always a call as it was written (InFrame), a leftover        *)
(* completed by the zeros of init (InLeftover), one reset (InReset), or    *)
(* nothing; and nothing while anything but init and a killed client's      *)
(* successor goes on.  The badge answers once, when the last byte is       *)
(* taken, and by then the client has asked for nothing else.               *)
(***************************************************************************)
EXTENDS CommandLink, SequenceTheorems, LoopLemmas

-----------------------------------------------------------------------------
(* Bytes *)

(* What is known of bytes *)
LEMMA Bytes ==
    /\ ByteMod \in Nat /\ ByteMod >= 8
    /\ \A a, b \in Byte : ByteXor(a, b) \in Byte
    /\ \A n \in 0 .. 7 : n \in Byte
    /\ \A x : x \in Byte <=> x \in Nat /\ x < ByteMod
<1>1. ByteMod \in Nat /\ ByteMod >= 8  BY CommandsAssumption
<1>2. \A a, b \in Byte : ByteXor(a, b) \in Byte  BY CommandsAssumption
<1> QED BY <1>1, <1>2 DEF Byte

(* The states of the loop of cmd_crc *)
Xors(bytes, f) ==
    f = [i \in 0 .. Len(bytes) |-> IF i = 0 THEN 0 ELSE ByteXor(f[i - 1], bytes[i])]

(* A checksum is a byte *)
LEMMA CrcIsByte ==
    ASSUME NEW bytes \in Seq(Byte)
    PROVE  Crc(bytes) \in Byte
<1> DEFINE N == Len(bytes)
           g == [i \in 1 .. N |-> [s \in Byte |-> ByteXor(s, bytes[i])]]
<1>1. N \in Nat /\ \A i \in 1 .. N : bytes[i] \in Byte  OBVIOUS
<1>2. g \in [1 .. N -> [Byte -> Byte]]
  <2>1. \A i \in 1 .. N : \A s \in Byte : ByteXor(s, bytes[i]) \in Byte  BY <1>1, Bytes
  <2> QED BY <2>1
<1>3. 0 \in Byte  BY Bytes
<1>4. \A i \in 1 .. N : \A s \in Byte : g[i][s] = ByteXor(s, bytes[i])  OBVIOUS
<1> HIDE DEF N, g
<1>5. PICK f \in [0 .. N -> Byte] : Goes(N, 0, g, f)
  BY <1>1, <1>2, <1>3, Recursion
<1> USE DEF Goes
<1>6. \A i \in 0 .. N : f[i] = IF i = 0 THEN 0 ELSE ByteXor(f[i - 1], bytes[i])
  <2> SUFFICES ASSUME NEW i \in 0 .. N, i # 0 PROVE f[i] = ByteXor(f[i - 1], bytes[i])
    BY <1>5
  <2>1. i \in 1 .. N /\ i - 1 \in 0 .. N  BY <1>1
  <2> QED BY <1>4, <1>5, <2>1
<1>7. Xors(bytes, f)
  <2>1. f = [i \in 0 .. N |-> f[i]]  OBVIOUS
  <2>2. f = [i \in 0 .. N |-> IF i = 0 THEN 0 ELSE ByteXor(f[i - 1], bytes[i])]
    BY <1>6, <2>1, Zenon
  <2> QED BY <2>2 DEF Xors, N
<1> DEFINE h == CHOOSE e : Xors(bytes, e)
<1>8. Xors(bytes, h)  BY <1>7
<1>9. Crc(bytes) = h[Len(bytes)]  BY DEF Crc, Xors
<1> HIDE DEF h
<1>10. h[0] = 0 /\ \A i \in 1 .. N : h[i] = ByteXor(h[i - 1], bytes[i])
  <2>1. \A i \in 0 .. N : h[i] = IF i = 0 THEN 0 ELSE ByteXor(h[i - 1], bytes[i])
    BY <1>8, Zenon DEF Xors, N
  <2>2. 0 \in 0 .. N /\ \A i \in 1 .. N : i \in 0 .. N /\ i # 0  BY <1>1
  <2> QED BY <2>1, <2>2
<1> DEFINE T == {n \in Nat : n <= N => h[n] \in Byte}
<1>11. 0 \in T  BY <1>3, <1>10
<1>12. ASSUME NEW n \in Nat, n \in T PROVE n + 1 \in T
  <2> SUFFICES ASSUME n + 1 <= N PROVE h[n + 1] \in Byte
    OBVIOUS
  <2>1. h[n] \in Byte /\ n + 1 \in 1 .. N /\ (n + 1) - 1 = n  BY <1>1, <1>12
  <2>2. h[n + 1] = ByteXor(h[n], bytes[n + 1])  BY <1>10, <2>1
  <2> QED BY <1>1, <2>1, <2>2, Bytes
<1> HIDE DEF T
<1>13. N \in T  BY <1>1, <1>11, <1>12, SetInduction
<1> QED BY <1>9, <1>13 DEF T, N

(* The checksum of no bytes *)
LEMMA CrcOfNone == Crc(<<>>) = 0
<1> DEFINE h == CHOOSE e : Xors(<<>>, e)
<1>1. Len(<<>>) = 0  OBVIOUS
<1>2. Xors(<<>>, [i \in 0 .. 0 |-> 0])
  <2>1. \A i \in 0 .. 0 : i = 0  OBVIOUS
  <2>2. [i \in 0 .. 0 |-> 0] = [i \in 0 .. 0 |->
            IF i = 0 THEN 0 ELSE ByteXor([j \in 0 .. 0 |-> 0][i - 1], <<>>[i])]
    BY <2>1
  <2> QED BY <1>1, <2>2, Zenon DEF Xors
<1>3. Xors(<<>>, h)  BY <1>2
<1>4. Crc(<<>>) = h[Len(<<>>)]  BY DEF Crc, Xors
<1> HIDE DEF h
<1>5. \A i \in 0 .. Len(<<>>) : h[i] = IF i = 0 THEN 0 ELSE ByteXor(h[i - 1], <<>>[i])
  BY <1>3, Zenon DEF Xors
<1>6. h[0] = 0
  <2>1. 0 \in 0 .. Len(<<>>)  BY <1>1
  <2> QED BY <1>5, <2>1
<1> QED BY <1>1, <1>4, <1>6

-----------------------------------------------------------------------------
(* Answers *)

(* A response: its length field is a byte, and no more than there is *)
Good(r) ==
    /\ r \in [type : Byte, data : Seq(Byte), len : Byte]
    /\ Len(r.data) < ByteMod /\ r.len <= 1 + Len(r.data)

(* The length of a response wraps when it has ByteMod - 1 bytes of data *)
LEMMA ResponseIs ==
    ASSUME NEW t \in Byte, NEW d \in Seq(Byte), Len(d) < ByteMod
    PROVE  /\ Good(Response(t, d))
           /\ Response(t, d).type = t /\ Response(t, d).data = d
           /\ Response(t, d).len = IF 1 + Len(d) = ByteMod THEN 0 ELSE 1 + Len(d)
<1> DEFINE n == Len(d)
<1>1. n \in Nat /\ 1 + n <= ByteMod /\ ByteMod \in Nat /\ ByteMod >= 8  BY Bytes
<1>2. (1 + n) % ByteMod = IF 1 + n = ByteMod THEN 0 ELSE 1 + n
  <2>1. CASE 1 + n = ByteMod  BY <1>1, <2>1
  <2>2. CASE 1 + n < ByteMod  BY <1>1, <2>2
  <2> QED BY <1>1, <2>1, <2>2
<1>3. (1 + n) % ByteMod \in Byte /\ (1 + n) % ByteMod <= 1 + n
  <2>1. PICK m : m = (1 + n) % ByteMod  OBVIOUS
  <2> HIDE DEF n
  <2>2. m = IF 1 + n = ByteMod THEN 0 ELSE 1 + n  BY <1>2, <2>1
  <2>3. m \in Nat /\ m < ByteMod /\ m <= 1 + n  BY <1>1, <2>2
  <2>4. m \in Byte /\ m <= 1 + n  BY <2>3, Bytes
  <2> QED BY <2>1, <2>4
<1> HIDE DEF n
<1>4. Response(t, d) = [type |-> t, data |-> d, len |-> (1 + n) % ByteMod]  BY DEF Response, n
<1> QED BY <1>2, <1>3, <1>4 DEF Good, n

(* Answers with n bytes from the wire *)
LEMMA WireDataIs ==
    ASSUME NEW n \in Byte
    PROVE  WireData(n) # {} /\ \A r \in WireData(n) : Good(r)
<1>1. n \in Nat /\ n < ByteMod /\ RESP_OK \in Byte  BY Bytes DEF RESP_OK
<1>2. Wire \subseteq Byte /\ Wire # {}  BY CommandsAssumption
<1>3. [1 .. n -> Wire] # {}
  <2>1. PICK w \in Wire : TRUE  BY <1>2
  <2>2. [i \in 1 .. n |-> w] \in [1 .. n -> Wire]  OBVIOUS
  <2> QED BY <2>2
<1>4. ASSUME NEW d \in [1 .. n -> Wire] PROVE Good(Response(RESP_OK, d))
  <2>1. d \in [1 .. n -> Byte]  BY <1>2
  <2>2. d \in Seq(Byte)  BY <1>1, <2>1
  <2>3. DOMAIN d = 1 .. n  OBVIOUS
  <2>4. Len(d) = n  BY <1>1, <2>2, <2>3
  <2> QED BY <1>1, <2>2, <2>4, ResponseIs
<1> QED BY <1>3, <1>4 DEF WireData

(* Answers without data *)
LEMMA DoneIs ==
    \A S \in {Done, Invalid, ExecErr} : S # {} /\ \A r \in S : Good(r)
<1>1. \A t \in 0 .. 7 : Good(Response(t, <<>>))
  <2>1. <<>> \in Seq(Byte) /\ Len(<<>>) < ByteMod  BY Bytes
  <2> QED BY <2>1, Bytes, ResponseIs
<1>2. /\ Good(Response(RESP_OK, <<>>)) /\ Good(Response(RESP_INVALID_CMD, <<>>))
      /\ Good(Response(RESP_EXEC_ERR, <<>>))
  BY <1>1 DEF RESP_OK, RESP_INVALID_CMD, RESP_EXEC_ERR
<1> QED BY <1>2 DEF Done, Invalid, ExecErr

(* A handler always finds a parameter, in the payload or behind it *)
LEMMA ParamIs ==
    ASSUME NEW p \in Seq(Byte), NEW i \in Nat, i >= 1
    PROVE  Param(p, i) # {} /\ Param(p, i) \subseteq Byte
<1>1. Byte # {}  BY Bytes
<1>2. i <= Len(p) => i \in 1 .. Len(p)  OBVIOUS
<1> QED BY <1>1, <1>2 DEF Param

(* Of an SPI transfer as well *)
LEMMA StoredIs ==
    ASSUME NEW n \in Byte, NEW r \in WireData(n)
    PROVE  Good(Stored(r))
<1>1. Good(r)  BY WireDataIs
<1>2. CASE Len(r.data) = ByteMod - 1
  <2>1. PICK l : l = Last(r.data)  OBVIOUS
  <2>2. l \in Byte
    <3>1. r.data \in Seq(Byte) /\ Len(r.data) \in 1 .. Len(r.data)  BY <1>1, <1>2, Bytes DEF Good
    <3> QED BY <2>1, <3>1 DEF Last
  <2>3. Stored(r) = [r EXCEPT !.len = l]  BY <1>2, <2>1 DEF Stored
  <2>4. /\ Stored(r) \in [type : Byte, data : Seq(Byte), len : Byte]
        /\ Stored(r).len = l /\ Stored(r).data = r.data
    BY <1>1, <2>2, <2>3 DEF Good
  <2>5. l <= 1 + (ByteMod - 1)  BY <2>2, Bytes
  <2> QED BY <1>1, <1>2, <2>4, <2>5 DEF Good
<1>3. CASE Len(r.data) # ByteMod - 1  BY <1>1, <1>3 DEF Stored
<1> QED BY <1>2, <1>3

(* What the handlers of I2C and SPI commands may answer *)
LEMMA I2cIs ==
    ASSUME NEW p \in Seq(Byte)
    PROVE  I2cResponses(p) # {} /\ \A r \in I2cResponses(p) : Good(r)
<1> DEFINE F(op, alen) ==
      CASE op = 2 -> Done \cup ExecErr
        [] op # 2 /\ alen > 4 -> Invalid
        [] op = 0 /\ alen <= 4 -> ExecErr \cup UNION {WireData(n) : n \in Param(p, 5 + alen)}
        [] op = 1 /\ alen <= 4 -> Done \cup ExecErr
        [] OTHER -> Invalid
<1>1. I2cResponses(p) = UNION {F(op, alen) : op \in Param(p, 2), alen \in Param(p, 4)}
  BY DEF I2cResponses
<1>2. ASSUME NEW op \in Byte, NEW alen \in Byte
      PROVE  F(op, alen) # {} /\ \A r \in F(op, alen) : Good(r)
  <2>1. /\ Done # {} /\ Invalid # {} /\ ExecErr # {}
        /\ \A r \in Done \cup Invalid \cup ExecErr : Good(r)
    BY DoneIs
  <2>2. alen \in Nat  BY Bytes
  <2>3. CASE op = 0 /\ alen <= 4
    <3>1. 5 + alen \in Nat /\ 5 + alen >= 1  BY <2>2
    <3>2. \A n \in Param(p, 5 + alen) : n \in Byte  BY <3>1, ParamIs
    <3>3. \A r \in UNION {WireData(n) : n \in Param(p, 5 + alen)} : Good(r)
      BY <3>2, WireDataIs
    <3>4. F(op, alen) = ExecErr \cup UNION {WireData(n) : n \in Param(p, 5 + alen)}
      BY <2>2, <2>3
    <3> HIDE DEF F
    <3> QED BY <2>1, <3>3, <3>4
  <2>4. CASE ~(op = 0 /\ alen <= 4)
    <3>1. F(op, alen) \in {Done \cup ExecErr, Invalid}  BY <2>2, <2>4
    <3> HIDE DEF F
    <3> QED BY <2>1, <3>1
  <2> QED BY <2>3, <2>4
<1> HIDE DEF F
<1>3. Param(p, 2) # {} /\ Param(p, 4) # {} /\ Param(p, 2) \subseteq Byte /\ Param(p, 4) \subseteq Byte
  BY ParamIs
<1> QED BY <1>1, <1>2, <1>3

LEMMA SpiIs ==
    ASSUME NEW p \in Seq(Byte)
    PROVE  SpiResponses(p) # {} /\ \A r \in SpiResponses(p) : Good(r)
<1> DEFINE F(op) ==
      CASE op = 0 -> Done
        [] op = 1 -> {Stored(r) : r \in UNION {WireData(n) : n \in Param(p, 3)}}
        [] OTHER -> Invalid
<1>1. SpiResponses(p) = UNION {F(op) : op \in Param(p, 2)}  BY DEF SpiResponses
<1>2. ASSUME NEW op \in Byte PROVE F(op) # {} /\ \A r \in F(op) : Good(r)
  <2>1. Done # {} /\ Invalid # {} /\ \A r \in Done \cup Invalid : Good(r)  BY DoneIs
  <2>2. CASE op = 1
    <3>1. Param(p, 3) # {} /\ \A n \in Param(p, 3) : n \in Byte  BY ParamIs
    <3>2. UNION {WireData(n) : n \in Param(p, 3)} # {}  BY <3>1, WireDataIs
    <3>3. \A r \in UNION {WireData(n) : n \in Param(p, 3)} : Good(Stored(r))
      BY <3>1, StoredIs
    <3>4. F(op) = {Stored(r) : r \in UNION {WireData(n) : n \in Param(p, 3)}}  BY <2>2
    <3> HIDE DEF F
    <3> QED BY <3>2, <3>3, <3>4
  <2>3. CASE op # 1
    <3>1. F(op) \in {Done, Invalid}  BY <2>3
    <3> HIDE DEF F
    <3> QED BY <2>1, <3>1
  <2> QED BY <2>2, <2>3
<1> HIDE DEF F
<1>3. Param(p, 2) # {} /\ Param(p, 2) \subseteq Byte  BY ParamIs
<1> QED BY <1>1, <1>2, <1>3

(* A command that is executed is answered, whatever it holds *)
LEMMA ResponsesAre ==
    ASSUME NEW p \in Seq(Byte)
    PROVE  Responses(p) # {} /\ \A r \in Responses(p) : Good(r)
<1>1. ASSUME NEW most \in Nat
      PROVE  Up(p, most) # {} /\ \A r \in Up(p, most) : Good(r)
  <2>1. Param(p, 2) # {}  BY ParamIs
  <2> QED BY <2>1, DoneIs DEF Up
<1>2. 1 \in Byte  BY Bytes
<1>3. UartResponses # {} /\ \A r \in UartResponses : Good(r)
  <2>1. 0 .. UartBytes \subseteq Byte /\ 1 \in 0 .. UartBytes  BY Bytes DEF UartBytes
  <2>2. \A n \in 0 .. UartBytes : WireData(n) # {} /\ \A r \in WireData(n) : Good(r)
    BY <2>1, WireDataIs
  <2> QED BY <2>1, <2>2 DEF UartResponses
<1>4. BtnResponses # {} /\ \A r \in BtnResponses : Good(r)
  BY <1>2, WireDataIs DEF BtnResponses
<1>5. Responses(p) \in {UartResponses, I2cResponses(p), SpiResponses(p), Up(p, 1), Up(p, 3),
                        BtnResponses, Invalid}
  BY DEF Responses
<1>6. 1 \in Nat /\ 3 \in Nat  OBVIOUS
<1> QED BY <1>1, <1>3, <1>4, <1>5, <1>6, I2cIs, SpiIs, DoneIs

(* So is what is complete, too long, or asks for a reset *)
LEMMA AnswersAre ==
    ASSUME NEW buf \in Seq(Byte), buf # <<>>
    PROVE  /\ \A r \in Answers(buf) : Good(r)
           /\ Answers(buf) = {} <=> ~Overflown(buf) /\ ~ResetAsked(buf) /\ ~Complete(buf)
<1>1. /\ Good(Response(RESP_OVERFLOW, <<>>)) /\ Good(Response(RESP_RESET, <<>>))
      /\ Good(Response(RESP_CRC_ERR, <<>>))
  <2>1. <<>> \in Seq(Byte) /\ Len(<<>>) < ByteMod  BY Bytes
  <2>2. /\ RESP_OVERFLOW \in Byte /\ RESP_RESET \in Byte /\ RESP_CRC_ERR \in Byte
    BY Bytes DEF RESP_OVERFLOW, RESP_RESET, RESP_CRC_ERR
  <2> QED BY <2>1, <2>2, ResponseIs
<1>2. ASSUME ~Overflown(buf), ~ResetAsked(buf), Complete(buf)
      PROVE  Responses(Payload(buf)) # {} /\ \A r \in Responses(Payload(buf)) : Good(r)
  <2>1. buf[1] \in Nat  BY Bytes
  <2>2. \A i \in 2 .. buf[1] + 1 : i \in 1 .. Len(buf)  BY <1>2, <2>1 DEF Complete
  <2>3. \A i \in 2 .. buf[1] + 1 : buf[i] \in Byte  BY <2>2
  <2>4. 2 \in Int /\ buf[1] + 1 \in Int  BY <2>1
  <2>5. Payload(buf) \in Seq(Byte)  BY <2>3, <2>4, SubSeqProperties DEF Payload
  <2> QED BY <2>5, ResponsesAre
<1> QED BY <1>1, <1>2 DEF Answers

-----------------------------------------------------------------------------
(* What is sent *)

(* The payload of a response: as many bytes as the length field says *)
Told(r) == SubSeq(<<r.type>> \o r.data, 1, r.len)
Written(r) == <<r.len>> \o Told(r) \o <<Crc(Told(r))>>

LEMMA ToldIs ==
    ASSUME NEW r, Good(r)
    PROVE  /\ Told(r) \in Seq(Byte) /\ Len(Told(r)) = r.len
           /\ Crc(Told(r)) \in Byte
           /\ r.len >= 1 => Told(r)[1] = r.type
           /\ r.len = 1 + Len(r.data) => Told(r) = <<r.type>> \o r.data
<1> DEFINE all == <<r.type>> \o r.data
<1>1. r.type \in Byte /\ r.data \in Seq(Byte) /\ r.len \in Byte /\ r.len <= 1 + Len(r.data)
  BY DEF Good
<1>2. <<r.type>> \in Seq(Byte) /\ Len(<<r.type>>) = 1 /\ <<r.type>>[1] = r.type  BY <1>1
<1>3. all \in Seq(Byte) /\ Len(all) = 1 + Len(r.data) /\ all[1] = r.type
  <2>1. /\ all \in Seq(Byte) /\ Len(all) = Len(<<r.type>>) + Len(r.data)
        /\ \A i \in 1 .. Len(<<r.type>>) + Len(r.data) :
             all[i] = IF i <= Len(<<r.type>>) THEN <<r.type>>[i] ELSE r.data[i - Len(<<r.type>>)]
    BY <1>1, <1>2, ConcatProperties
  <2>2. Len(r.data) \in Nat  BY <1>1
  <2> HIDE DEF all
  <2>3. 1 \in 1 .. 1 + Len(r.data)  BY <2>2
  <2>4. all[1] = <<r.type>>[1]  BY <1>2, <2>1, <2>3
  <2> QED BY <1>2, <2>1, <2>4
<1> HIDE DEF all
<1>4. r.len \in Nat  BY <1>1, Bytes
<1>5. \A i \in 1 .. r.len : all[i] \in Byte
  <2>1. \A i \in 1 .. r.len : i \in 1 .. Len(all)  BY <1>1, <1>3, <1>4
  <2> QED BY <1>3, <2>1, ElementOfSeq
<1>6. /\ SubSeq(all, 1, r.len) \in Seq(Byte)
      /\ Len(SubSeq(all, 1, r.len)) = IF 1 <= r.len THEN r.len - 1 + 1 ELSE 0
      /\ \A i \in 1 .. r.len - 1 + 1 : SubSeq(all, 1, r.len)[i] = all[1 + i - 1]
  BY <1>4, <1>5, SubSeqProperties
<1>7. Told(r) = SubSeq(all, 1, r.len)  BY DEF Told, all
<1>8. Told(r) \in Seq(Byte)  BY <1>6, <1>7
<1>9. Len(Told(r)) = r.len  BY <1>4, <1>6, <1>7
<1>10. ASSUME r.len >= 1 PROVE Told(r)[1] = r.type
  <2>1. 1 \in 1 .. r.len - 1 + 1 /\ 1 + 1 - 1 = 1  BY <1>4, <1>10
  <2> QED BY <1>3, <1>6, <1>7, <2>1
<1>11. ASSUME r.len = 1 + Len(r.data) PROVE Told(r) = <<r.type>> \o r.data
  <2>1. SubSeq(all, 1, Len(all)) = all  BY <1>3, SubSeqFull
  <2> QED BY <1>3, <1>7, <1>11, <2>1 DEF all
<1> QED BY <1>8, <1>9, <1>10, <1>11, CrcIsByte

(* Sent is length, payload and checksum, unless the number of bytes wraps *)
LEMMA SentIs ==
    ASSUME NEW r, Good(r)
    PROVE  /\ Sent(r) \in Seq(Byte)
           /\ r.len <= ByteMod - 3 => Sent(r) = <<r.len>> \o (Told(r) \o <<Crc(Told(r))>>)
           /\ r.len = ByteMod - 2 => Sent(r) = <<>>
           /\ r.len = ByteMod - 1 => Sent(r) = <<r.len>>
<1> DEFINE w == Written(r)
<1>1. r.len \in Byte /\ r.len \in Nat /\ r.len < ByteMod /\ ByteMod \in Nat /\ ByteMod >= 8
  BY Bytes DEF Good
<1>2. /\ Told(r) \in Seq(Byte) /\ Len(Told(r)) = r.len
      /\ <<Crc(Told(r))>> \in Seq(Byte) /\ Len(<<Crc(Told(r))>>) = 1
      /\ <<r.len>> \in Seq(Byte) /\ Len(<<r.len>>) = 1
  <2>1. Told(r) \in Seq(Byte) /\ Len(Told(r)) = r.len /\ Crc(Told(r)) \in Byte  BY ToldIs
  <2>2. \A b \in Byte : <<b>> \in Seq(Byte) /\ Len(<<b>>) = 1  OBVIOUS
  <2> QED BY <1>1, <2>1, <2>2
<1>3. /\ Told(r) \o <<Crc(Told(r))>> \in Seq(Byte)
      /\ w = <<r.len>> \o (Told(r) \o <<Crc(Told(r))>>)
  BY <1>2, ConcatProperties, ConcatAssociative DEF Written
<1>4. w \in Seq(Byte) /\ Len(w) = r.len + 2 /\ w[1] = r.len
  <2>1. Len(Told(r) \o <<Crc(Told(r))>>) = r.len + 1  BY <1>2, ConcatProperties
  <2> DEFINE body == Told(r) \o <<Crc(Told(r))>>
  <2>2. body \in Seq(Byte) /\ Len(body) = r.len + 1 /\ w = <<r.len>> \o body  BY <1>3, <2>1
  <2> HIDE DEF body, w
  <2>3. /\ w \in Seq(Byte) /\ Len(w) = Len(<<r.len>>) + Len(body)
        /\ \A i \in 1 .. Len(<<r.len>>) + Len(body) :
             w[i] = IF i <= Len(<<r.len>>) THEN <<r.len>>[i] ELSE body[i - Len(<<r.len>>)]
    BY <1>2, <2>2, ConcatProperties
  <2>4. 1 \in 1 .. 1 + (r.len + 1) /\ 1 + (r.len + 1) = r.len + 2  BY <1>1
  <2>5. w[1] = <<r.len>>[1]  BY <1>2, <2>2, <2>3, <2>4
  <2> QED BY <1>2, <2>2, <2>3, <2>4, <2>5
<1>5. PICK n : n = (r.len + 2) % ByteMod  OBVIOUS
<1>6. n = IF r.len + 2 < ByteMod THEN r.len + 2 ELSE r.len + 2 - ByteMod
  <2>1. CASE r.len + 2 < ByteMod  BY <1>1, <1>5, <2>1
  <2>2. CASE r.len = ByteMod - 2  BY <1>1, <1>5, <2>2
  <2>3. CASE r.len = ByteMod - 1  BY <1>1, <1>5, <2>3
  <2> QED BY <1>1, <2>1, <2>2, <2>3
<1>7. Sent(r) = SubSeq(w, 1, n)  BY <1>5 DEF Sent, Written, Told
<1> HIDE DEF w
<1>8. n \in 0 .. Len(w)  BY <1>1, <1>4, <1>6
<1>9. \A i \in 1 .. n : w[i] \in Byte
  <2>1. \A i \in 1 .. n : i \in 1 .. Len(w)  BY <1>4, <1>8
  <2> QED BY <1>4, <2>1, ElementOfSeq
<1>10. n \in Int  BY <1>1, <1>6
<1>11. /\ SubSeq(w, 1, n) \in Seq(Byte)
       /\ Len(SubSeq(w, 1, n)) = IF 1 <= n THEN n - 1 + 1 ELSE 0
       /\ \A i \in 1 .. n - 1 + 1 : SubSeq(w, 1, n)[i] = w[1 + i - 1]
  BY <1>9, <1>10, SubSeqProperties
<1>12. ASSUME r.len <= ByteMod - 3
       PROVE  Sent(r) = <<r.len>> \o (Told(r) \o <<Crc(Told(r))>>)
  <2>1. n = Len(w)  BY <1>1, <1>4, <1>6, <1>12
  <2> QED BY <1>3, <1>4, <1>7, <2>1, SubSeqFull
<1>13. ASSUME r.len = ByteMod - 2 PROVE Sent(r) = <<>>
  <2>1. n < 1  BY <1>1, <1>6, <1>13
  <2> QED BY <1>7, <1>10, <2>1, SubSeqEmpty
<1>14. ASSUME r.len = ByteMod - 1 PROVE Sent(r) = <<r.len>>
  <2>1. n = 1  BY <1>1, <1>6, <1>14
  <2>2. 1 \in 1 .. n - 1 + 1 /\ 1 + 1 - 1 = 1  BY <2>1
  <2>3. Sent(r) \in Seq(Byte) /\ Len(Sent(r)) = 1 /\ Sent(r)[1] = r.len
    BY <1>4, <1>7, <1>11, <2>1, <2>2
  <2>4. <<r.len>> \in Seq(Byte) /\ Len(<<r.len>>) = 1  BY <1>1
  <2>5. \A i \in 1 .. 1 : i = 1  OBVIOUS
  <2> QED BY <2>3, <2>4, <2>5, SeqEqual
<1> QED BY <1>7, <1>11, <1>12, <1>13, <1>14

(* What is sent begins with its length *)
LEMMA SentHead ==
    ASSUME NEW r, Good(r), Sent(r) # <<>>
    PROVE  Head(Sent(r)) = r.len /\ r.len <= ByteMod - 1 /\ r.len # ByteMod - 2
<1>1. r.len \in Nat /\ r.len < ByteMod /\ ByteMod \in Nat  BY Bytes DEF Good
<1>2. CASE r.len <= ByteMod - 3
  <2>1. PICK body : body = Told(r) \o <<Crc(Told(r))>>  OBVIOUS
  <2>2. body \in Seq(Byte)
    <3>1. Told(r) \in Seq(Byte) /\ Crc(Told(r)) \in Byte  BY ToldIs
    <3>2. \A b \in Byte : <<b>> \in Seq(Byte)  OBVIOUS
    <3> QED BY <2>1, <3>1, <3>2, ConcatProperties
  <2>3. Sent(r) = <<r.len>> \o body  BY <1>2, <2>1, SentIs
  <2>4. Head(Sent(r)) = r.len  BY <1>1, <2>2, <2>3
  <2> QED BY <1>1, <1>2, <2>4
<1>3. CASE r.len = ByteMod - 2  BY <1>3, SentIs
<1>4. CASE r.len = ByteMod - 1
  <2>1. Sent(r) = <<r.len>>  BY <1>4, SentIs
  <2> QED BY <1>1, <1>4, <2>1
<1> QED BY <1>1, <1>2, <1>3, <1>4

-----------------------------------------------------------------------------
(* The line *)

LEMMA MinOfTwo ==
    ASSUME NEW a \in Nat, NEW b \in Nat
    PROVE  Min({a, b}) = IF a <= b THEN a ELSE b
<1> DEFINE m == IF a <= b THEN a ELSE b
<1>1. m \in {a, b} /\ \A y \in {a, b} : m <= y  OBVIOUS
<1>2. \A x \in {a, b} : (\A y \in {a, b} : x <= y) => x = m  OBVIOUS
<1> HIDE DEF m
<1>3. Min({a, b}) = m  BY <1>1, <1>2 DEF Min
<1> QED BY <1>3 DEF m

(* What a read returns, and what it leaves *)
LEMMA ArrivedIs ==
    ASSUME tx \in Seq(Byte), NEW n \in Nat
    PROVE  /\ Arrived(n) \in Seq(Byte)
           /\ Len(Arrived(n)) = IF n <= Len(tx) THEN n ELSE Len(tx)
           /\ \A i \in 1 .. Len(Arrived(n)) : Arrived(n)[i] = tx[i]
<1>1. PICK m : m = Min({n, Len(tx)})  OBVIOUS
<1>2. m = IF n <= Len(tx) THEN n ELSE Len(tx)  BY <1>1, MinOfTwo
<1>3. m \in Nat /\ m <= Len(tx)  BY <1>2
<1>4. \A i \in 1 .. m : tx[i] \in Byte  BY <1>3
<1>5. Arrived(n) = SubSeq(tx, 1, m)  BY <1>1 DEF Arrived
<1>6. /\ SubSeq(tx, 1, m) \in Seq(Byte)
      /\ Len(SubSeq(tx, 1, m)) = IF 1 <= m THEN m - 1 + 1 ELSE 0
      /\ \A i \in 1 .. m - 1 + 1 : SubSeq(tx, 1, m)[i] = tx[1 + i - 1]
  BY <1>3, <1>4, SubSeqProperties
<1>7. Len(Arrived(n)) = m  BY <1>3, <1>5, <1>6
<1>8. ASSUME NEW i \in 1 .. m PROVE Arrived(n)[i] = tx[i]
  <2>1. i \in 1 .. m - 1 + 1 /\ 1 + i - 1 = i  BY <1>3
  <2> QED BY <1>5, <1>6, <2>1
<1> QED BY <1>2, <1>5, <1>6, <1>7, <1>8

(* A read of as much as there is takes all; one of a byte takes the first *)
LEMMA ReadIs ==
    ASSUME tx \in Seq(Byte), NEW n \in Nat, Read(n)
    PROVE  /\ tx' \in Seq(Byte)
           /\ Len(tx) <= n => Arrived(n) = tx /\ tx' = <<>>
           /\ n = 1 /\ tx # <<>> => Arrived(1) # <<>> /\ tx' = Tail(tx)
<1>1. PICK m : m = Len(Arrived(n))  OBVIOUS
<1>2. m \in Nat /\ m <= Len(tx) /\ (Len(tx) <= n => m = Len(tx)) /\ (n <= Len(tx) => m = n)
  BY <1>1, ArrivedIs
<1>3. tx' = SubSeq(tx, m + 1, Len(tx))  BY <1>1 DEF Read
<1>4. \A i \in m + 1 .. Len(tx) : tx[i] \in Byte  BY <1>2
<1>5. tx' \in Seq(Byte)  BY <1>2, <1>3, <1>4, SubSeqProperties
<1>6. ASSUME Len(tx) <= n PROVE Arrived(n) = tx /\ tx' = <<>>
  <2>1. m = Len(tx)  BY <1>2, <1>6
  <2>2. Arrived(n) \in Seq(Byte) /\ Len(Arrived(n)) = Len(tx)
        /\ \A i \in 1 .. Len(Arrived(n)) : Arrived(n)[i] = tx[i]
    BY <1>1, <2>1, ArrivedIs
  <2>3. Arrived(n) = tx  BY <2>2, SeqEqual
  <2>4. tx' = <<>>  BY <1>2, <1>3, <2>1, SubSeqEmpty
  <2> QED BY <2>3, <2>4
<1>7. ASSUME n = 1, tx # <<>> PROVE Arrived(1) # <<>> /\ tx' = Tail(tx)
  <2>1. Len(tx) \in Nat /\ Len(tx) >= 1  BY <1>7, EmptySeq
  <2>2. m = 1  BY <1>2, <1>7, <2>1
  <2>3. tx' = SubSeq(tx, 2, Len(tx))  BY <1>3, <2>2
  <2>4. Len(<<>>) = 0  OBVIOUS
  <2>5. Len(Arrived(1)) = 1  BY <1>1, <1>7, <2>2, Zenon
  <2>6. Arrived(1) # <<>>
    <3>1. PICK a : a = Arrived(1)  OBVIOUS
    <3>2. Len(a) = 1  BY <2>5, <3>1
    <3>3. Len(a) # Len(<<>>)  BY <2>4, <3>2
    <3>4. a # <<>>  BY <3>3, Zenon
    <3> QED BY <3>1, <3>4
  <2> QED BY <1>7, <2>3, <2>6, TailIsSubSeq
<1> QED BY <1>5, <1>6, <1>7

(* A command as it is written *)
LEMMA FrameIs ==
    ASSUME NEW p \in Calls
    PROVE  /\ p \in Seq(Byte) /\ p # <<>> /\ Len(p) \in Nat /\ Len(p) < ByteMod /\ Len(p) >= 1
           /\ Frame(p) \in Seq(Byte) /\ Len(Frame(p)) = Len(p) + 2
           /\ Frame(p)[1] = Len(p) /\ Frame(p)[Len(p) + 2] = Crc(p)
           /\ \A i \in 1 .. Len(p) : Frame(p)[i + 1] = p[i]
<1>1. p \in Seq(Byte) /\ p # <<>> /\ Len(p) \in Byte  BY LinkAssumption
<1>2. PICK n : n = Len(p)  OBVIOUS
<1>3. n \in Nat /\ n < ByteMod /\ n >= 1  BY <1>1, <1>2, Bytes, EmptySeq
<1>4. PICK x : x = Crc(p)  OBVIOUS
<1>5. x \in Byte  BY <1>1, <1>4, CrcIsByte
<1>6. <<n>> \in Seq(Byte) /\ Len(<<n>>) = 1 /\ <<n>>[1] = n
      /\ <<x>> \in Seq(Byte) /\ Len(<<x>>) = 1 /\ <<x>>[1] = x
  BY <1>1, <1>2, <1>5
<1>7. PICK h : h = <<n>> \o p  OBVIOUS
<1>8. /\ h \in Seq(Byte) /\ Len(h) = 1 + n
      /\ \A i \in 1 .. 1 + n : h[i] = IF i <= 1 THEN <<n>>[i] ELSE p[i - 1]
  BY <1>1, <1>2, <1>6, <1>7, ConcatProperties
<1>9. PICK w : w = h \o <<x>>  OBVIOUS
<1>10. /\ w \in Seq(Byte) /\ Len(w) = (1 + n) + 1
       /\ \A i \in 1 .. (1 + n) + 1 : w[i] = IF i <= 1 + n THEN h[i] ELSE <<x>>[i - (1 + n)]
  BY <1>6, <1>8, <1>9, ConcatProperties
<1>11. Frame(p) = w  BY <1>2, <1>4, <1>7, <1>9 DEF Frame
<1>12. w[1] = n
  <2>1. 1 \in 1 .. (1 + n) + 1 /\ 1 \in 1 .. 1 + n  BY <1>3
  <2> QED BY <1>6, <1>8, <1>10, <2>1
<1>13. w[n + 2] = x
  <2>1. n + 2 \in 1 .. (1 + n) + 1 /\ ~(n + 2 <= 1 + n) /\ (n + 2) - (1 + n) = 1  BY <1>3
  <2> QED BY <1>6, <1>10, <2>1
<1>14. ASSUME NEW i \in 1 .. n PROVE w[i + 1] = p[i]
  <2>1. /\ i + 1 \in 1 .. (1 + n) + 1 /\ i + 1 \in 1 .. 1 + n /\ i + 1 <= 1 + n
        /\ ~(i + 1 <= 1) /\ (i + 1) - 1 = i
    BY <1>3
  <2> QED BY <1>8, <1>10, <2>1
<1>15. (1 + n) + 1 = n + 2  BY <1>3
<1> QED BY <1>1, <1>2, <1>3, <1>4, <1>10, <1>11, <1>12, <1>13, <1>14, <1>15

(* Answers without data *)
Plain == {Response(t, <<>>) : t \in Byte}

(* They are three bytes *)
LEMMA PlainIs ==
    ASSUME NEW r \in Plain
    PROVE  Good(r) /\ Sent(r) \in Seq(Byte) /\ Len(Sent(r)) = 3
<1>1. PICK t \in Byte : r = Response(t, <<>>)  BY DEF Plain
<1>2. PICK d : d = <<>>  OBVIOUS
<1>3. d \in Seq(Byte) /\ Len(d) = 0 /\ 0 < ByteMod /\ 1 + 0 # ByteMod /\ 1 <= ByteMod - 3
  BY <1>2, Bytes
<1>4. Good(Response(t, d)) /\ Response(t, d).len = IF 1 + Len(d) = ByteMod THEN 0 ELSE 1 + Len(d)
  BY <1>3, ResponseIs
<1>5. Good(r) /\ r.len = 1  BY <1>1, <1>2, <1>3, <1>4
<1>6. PICK told, x : told = Told(r) /\ x = Crc(told)  OBVIOUS
<1>7. told \in Seq(Byte) /\ Len(told) = 1 /\ x \in Byte  BY <1>5, <1>6, ToldIs
<1>8. Sent(r) = <<r.len>> \o (told \o <<x>>) /\ Sent(r) \in Seq(Byte)
  BY <1>3, <1>5, <1>6, SentIs
<1>9. Sent(r) = << 1 >> \o (told \o <<x>>)  BY <1>5, <1>8
<1>10. <<x>> \in Seq(Byte) /\ Len(<<x>>) = 1 /\ 1 \in Byte  BY <1>7, Bytes
<1>11. told \o <<x>> \in Seq(Byte) /\ Len(told \o <<x>>) = 2
  <2>1. PICK z : z = <<x>>  OBVIOUS
  <2>2. z \in Seq(Byte) /\ Len(z) = 1  BY <1>10, <2>1
  <2>3. told \o z \in Seq(Byte) /\ Len(told \o z) = 2  BY <1>7, <2>2, ConcatProperties
  <2> QED BY <2>1, <2>3
<1>12. << 1 >> \in Seq(Byte) /\ Len(<< 1 >>) = 1  BY <1>10
<1>13. Len(Sent(r)) = 3  BY <1>9, <1>11, <1>12, ConcatProperties
<1> QED BY <1>5, <1>8, <1>13

(* The answer to a reset is one of them *)
LEMMA ResetRespIs ==
    /\ Response(RESP_RESET, <<>>) \in Plain
    /\ ResetResp \in Seq(Byte) /\ Len(ResetResp) = 3
<1>1. RESP_RESET \in Byte  BY Bytes DEF RESP_RESET
<1>2. Response(RESP_RESET, <<>>) \in Plain  BY <1>1 DEF Plain
<1>3. PICK r : r = Response(RESP_RESET, <<>>)  OBVIOUS
<1>4. Sent(r) \in Seq(Byte) /\ Len(Sent(r)) = 3  BY <1>2, <1>3, PlainIs
<1> QED BY <1>2, <1>3, <1>4 DEF ResetResp

-----------------------------------------------------------------------------
(* Types *)

Started == TypeOK /\ (c \in {"discard", "ack"} => trials < ByteMod)

(* The badge takes a byte *)
Filled == Append(cmd_buf, Head(rx))

(* A turn of the loop of app_command_func *)
LEMMA TakeIs ==
    ASSUME BadgeTypeOK, Take
    PROVE  /\ Filled \in Seq(Byte) /\ Filled # <<>> /\ rx # <<>> /\ rx' = Tail(rx)
           /\ app = "command" /\ app' = app
           /\ Len(Filled) = Len(cmd_buf) + 1
           /\ Filled \o Tail(rx) = cmd_buf \o rx
           /\ \/ Answers(Filled) = {} /\ cmd_buf' = Filled /\ UNCHANGED <<tx, log>>
              \/ \E r \in Answers(Filled) :
                   /\ cmd_buf' = <<>> /\ tx' = tx \o Sent(r)
                   /\ log' = IF Handled(Filled)
                               THEN Append(log, [payload |-> Payload(Filled), answer |-> r])
                               ELSE log
<1>1. rx # <<>> /\ rx' = Tail(rx) /\ app = "command" /\ app' = app  BY DEF Take
<1>2. cmd_buf \in Seq(Byte) /\ rx \in Seq(Byte)  BY DEF BadgeTypeOK
<1>3. Head(rx) \in Byte /\ Tail(rx) \in Seq(Byte)  BY <1>1, <1>2, HeadTailProperties
<1>4. Filled \in Seq(Byte) /\ Filled # <<>> /\ Len(Filled) = Len(cmd_buf) + 1
  BY <1>2, <1>3, AppendProperties DEF Filled
<1>5. Filled \o Tail(rx) = cmd_buf \o rx
  <2>1. Filled = cmd_buf \o <<Head(rx)>>  BY <1>2, <1>3, AppendIsConcat DEF Filled
  <2>2. PICK h, tl : h = Head(rx) /\ tl = Tail(rx)  OBVIOUS
  <2>3. h \in Byte /\ tl \in Seq(Byte) /\ <<h>> \in Seq(Byte)  BY <1>3, <2>2
  <2>4. rx = <<h>> \o tl
    <3>1. rx # <<>> /\ rx \in Seq(Byte) /\ h = Head(rx) /\ tl = Tail(rx)  BY <1>1, <1>2, <2>2
    <3>2. Len(rx) \in Nat /\ Len(rx) >= 1  BY <3>1, EmptySeq
    <3>3. Len(tl) = Len(rx) - 1 /\ \A i \in 1 .. Len(tl) : tl[i] = rx[i + 1]
      BY <3>1, HeadTailProperties
    <3>4. h = rx[1]  BY <3>1
    <3>5. PICK w : w = <<h>> \o tl  OBVIOUS
    <3>6. Len(<<h>>) = 1 /\ <<h>>[1] = h  OBVIOUS
    <3>7. /\ w \in Seq(Byte) /\ Len(w) = 1 + Len(tl)
          /\ \A i \in 1 .. 1 + Len(tl) : w[i] = IF i <= 1 THEN <<h>>[i] ELSE tl[i - 1]
      BY <2>3, <3>5, <3>6, ConcatProperties
    <3>8. ASSUME NEW i \in 1 .. Len(rx) PROVE rx[i] = w[i]
      <4>1. CASE i = 1
        <5>1. 1 \in 1 .. 1 + Len(tl)  BY <3>2, <3>3
        <5>2. w[1] = <<h>>[1]  BY <3>7, <5>1
        <5> QED BY <3>4, <3>6, <4>1, <5>2
      <4>2. CASE i # 1
        <5>1. i \in 1 .. 1 + Len(tl) /\ ~(i <= 1) /\ i - 1 \in 1 .. Len(tl) /\ (i - 1) + 1 = i
          BY <3>2, <3>3, <4>2
        <5>2. w[i] = tl[i - 1] /\ tl[i - 1] = rx[(i - 1) + 1]  BY <3>3, <3>7, <5>1
        <5> QED BY <5>1, <5>2
      <4> QED BY <4>1, <4>2
    <3>9. Len(rx) = Len(w)  BY <3>2, <3>3, <3>7
    <3> QED BY <3>1, <3>5, <3>7, <3>8, <3>9, SeqEqual
  <2>5. (cmd_buf \o <<h>>) \o tl = cmd_buf \o (<<h>> \o tl)  BY <1>2, <2>3, ConcatAssociative
  <2> QED BY <2>1, <2>2, <2>4, <2>5
<1>6. \/ Answers(Filled) = {} /\ cmd_buf' = Filled /\ UNCHANGED <<tx, log>>
      \/ \E r \in Answers(Filled) :
           /\ cmd_buf' = <<>> /\ tx' = tx \o Sent(r)
           /\ log' = IF Handled(Filled)
                       THEN Append(log, [payload |-> Payload(Filled), answer |-> r])
                       ELSE log
  BY DEF Take, Filled
<1> QED BY <1>1, <1>4, <1>5, <1>6

(* The buffer is reset before it is full *)
LEMMA TakeTypes ==
    ASSUME BadgeTypeOK, Take
    PROVE  BadgeTypeOK'
<1>1. Filled \in Seq(Byte) /\ Filled # <<>> /\ rx # <<>> /\ rx' = Tail(rx) /\ app' = app
      /\ Len(Filled) = Len(cmd_buf) + 1
  BY TakeIs
<1>2. Len(cmd_buf) \in Nat /\ Len(cmd_buf) < CMD_BUF_SIZE /\ CMD_BUF_SIZE \in Nat /\ CMD_BUF_SIZE > 0
  BY Bytes DEF BadgeTypeOK, CMD_BUF_SIZE
<1>3. (app \in {"menu", "command"} /\ rx \in Seq(Byte))'
  BY <1>1, HeadTailProperties DEF BadgeTypeOK
<1>4. CASE Answers(Filled) = {} /\ cmd_buf' = Filled /\ UNCHANGED <<tx, log>>
  <2>1. ~Overflown(Filled)  BY <1>1, <1>4, AnswersAre
  <2>2. Len(Filled) < CMD_BUF_SIZE  BY <1>1, <1>2, <2>1 DEF Overflown
  <2> QED BY <1>1, <1>3, <1>4, <2>2 DEF BadgeTypeOK
<1>5. CASE \E r \in Answers(Filled) : cmd_buf' = <<>> /\ tx' = tx \o Sent(r)
  <2>1. PICK r \in Answers(Filled) : cmd_buf' = <<>> /\ tx' = tx \o Sent(r)  BY <1>5
  <2>2. Good(r)  BY <1>1, AnswersAre
  <2>3. tx' \in Seq(Byte)  BY <2>1, <2>2, SentIs, ConcatProperties DEF BadgeTypeOK
  <2>4. cmd_buf' \in Seq(Byte) /\ Len(cmd_buf') = 0  BY <2>1
  <2> QED BY <1>2, <1>3, <2>3, <2>4 DEF BadgeTypeOK
<1> QED BY <1>4, <1>5, TakeIs

(* What the client takes for a good answer has a type and a checksum *)
LEMMA AcceptedIs ==
    ASSUME NEW r \in Seq(Byte), Accepted(r)
    PROVE  /\ Len(r) \in Nat /\ Len(r) >= 2
           /\ Front(r) \in Seq(Byte) /\ Front(r) # <<>> /\ Tail(Front(r)) \in Seq(Byte)
<1>1. r # <<>> /\ Crc(Front(r)) = r[Len(r)] /\ r[1] = 2
  BY DEF Accepted, Last, RESP_OK
<1>2. Len(r) \in Nat /\ Len(r) >= 1  BY <1>1, EmptySeq
<1>3. PICK n : n = Len(r) - 1  OBVIOUS
<1>4. n \in Nat /\ n < Len(r)  BY <1>2, <1>3
<1>5. \A i \in 1 .. n : r[i] \in Byte  BY <1>4
<1>6. Front(r) = SubSeq(r, 1, n)  BY <1>3 DEF Front
<1>7. Front(r) \in Seq(Byte) /\ (Len(r) >= 2 => Len(Front(r)) = n)
  BY <1>3, <1>4, <1>5, <1>6, SubSeqProperties
<1>8. ASSUME Len(r) = 1 PROVE FALSE
  <2>1. n < 1  BY <1>3, <1>8
  <2>2. Front(r) = <<>>  BY <1>4, <1>6, <2>1, SubSeqEmpty
  <2>3. Crc(Front(r)) = 0  BY <2>2, CrcOfNone, Zenon
  <2> QED BY <1>1, <1>8, <2>3
<1>9. Len(r) >= 2
  <2>1. PICK l : l = Len(r)  OBVIOUS
  <2>2. l # 1  BY <1>8, <2>1
  <2>3. l \in Nat /\ l >= 1  BY <1>2, <2>1
  <2>4. l >= 2  BY <2>2, <2>3
  <2> QED BY <2>1, <2>4
<1>10. Front(r) # <<>>
  <2>1. PICK e : e = Front(r)  OBVIOUS
  <2>2. Len(e) = n /\ n # 0 /\ Len(<<>>) = 0  BY <1>3, <1>7, <1>9, <2>1
  <2>3. Len(e) # Len(<<>>)  BY <2>2
  <2>4. e # <<>>  BY <2>3, Zenon
  <2> QED BY <2>1, <2>4
<1>11. Tail(Front(r)) \in Seq(Byte)  BY <1>7, <1>10, HeadTailProperties
<1> QED BY <1>2, <1>7, <1>9, <1>10, <1>11

(* What the client writes is bytes *)
LEMMA WriteIs ==
    ASSUME rx \in Seq(Byte), NEW bytes \in Seq(Byte), Write(bytes)
    PROVE  rx' \in Seq(Byte)
BY ConcatProperties DEF Write

LEMMA ResetIsByte == <<TYPE_RESET>> \in Seq(Byte)
<1>1. TYPE_RESET \in Byte  BY Bytes DEF TYPE_RESET
<1> QED BY <1>1

(* Every step keeps the types.  The client gives up before trials wraps;   *)
(* and it takes no answer apart that has no type to take off.              *)
LEMMA StepTypes ==
    ASSUME Started, [Next]_vars
    PROVE  Started'
<1> USE DEF Started, TypeOK, Resting
<1>1. ByteMod \in Nat /\ ByteMod >= 8  BY Bytes
<1>2. CASE UNCHANGED vars
  BY <1>2 DEF BadgeTypeOK, vars, badgeVars, clientVars
<1>3. CASE Badge
  <2>1. BadgeTypeOK'  BY <1>3, TakeTypes DEF Badge
  <2> QED BY <1>3, <2>1 DEF Badge, clientVars
<1>4. CASE InitDiscard
  <2>1. tx' \in Seq(Byte)  BY <1>4, ResetRespIs, ReadIs DEF InitDiscard, BadgeTypeOK
  <2> QED BY <1>4, <2>1 DEF InitDiscard, BadgeTypeOK
<1>5. CASE InitAck
  <2>1. tx' \in Seq(Byte)  BY <1>5, ResetRespIs, ReadIs DEF InitAck, BadgeTypeOK
  <2>2. CASE c' = "ready" /\ UNCHANGED <<rx, trials>>
    BY <1>5, <2>1, <2>2 DEF InitAck, BadgeTypeOK
  <2>3. CASE /\ Write(<<TYPE_RESET>>) /\ trials' = trials + 1
             /\ c' = IF trials' = ByteMod THEN "raised" ELSE "ack"
    <3>1. rx' \in Seq(Byte)  BY <2>3, WriteIs, ResetIsByte DEF BadgeTypeOK
    <3>2. trials' \in 0 .. ByteMod /\ (c' = "ack" => trials' < ByteMod)
      BY <1>1, <1>5, <2>3 DEF InitAck
    <3>3. c' \in {"raised", "ack"}  BY <2>3
    <3> QED BY <1>5, <2>1, <3>1, <3>2, <3>3 DEF InitAck, BadgeTypeOK
  <2> QED BY <1>5, <2>2, <2>3 DEF InitAck
<1>6. CASE GetHead
  <2>1. tx' \in Seq(Byte)  BY <1>6, ReadIs DEF GetHead, BadgeTypeOK
  <2>2. need' \in 0 .. ByteMod
    <3>1. CASE Arrived(1) = <<>>  BY <1>6, <3>1 DEF GetHead
    <3>2. CASE Arrived(1) # <<>>
      <4>1. tx # <<>>
        <5>1. SUFFICES ASSUME tx = <<>> PROVE FALSE  OBVIOUS
        <5>2. Len(tx) <= 1  BY <5>1
        <5>3. Arrived(1) = tx  BY <1>6, <5>2, ReadIs DEF GetHead, BadgeTypeOK
        <5> QED BY <3>2, <5>1, <5>3
      <4>2. Head(tx) \in Byte  BY <4>1, HeadTailProperties DEF BadgeTypeOK
      <4>3. PICK h : h = Head(tx)  OBVIOUS
      <4>4. h + 1 \in 0 .. ByteMod  BY <1>1, <4>2, <4>3, Bytes
      <4> QED BY <1>6, <3>2, <4>3, <4>4 DEF GetHead
    <3> QED BY <3>1, <3>2
  <2>3. c' \in {"raised", "body"}  BY <1>6 DEF GetHead
  <2> QED BY <1>6, <2>1, <2>2, <2>3 DEF GetHead, BadgeTypeOK
<1>7. CASE GetBody
  <2>1. need \in Nat  BY <1>1
  <2>2. tx' \in Seq(Byte)  BY <1>7, <2>1, ReadIs DEF GetBody, BadgeTypeOK
  <2>3. Arrived(need) \in Seq(Byte)  BY <2>1, ArrivedIs DEF BadgeTypeOK
  <2>4. got' \in Seq(Byte)  BY <1>7, <2>3, AcceptedIs DEF GetBody
  <2>5. need' \in 0 .. ByteMod  BY <1>1, <1>7 DEF GetBody
  <2>6. c' \in {"ok", "raised"}  BY <1>7 DEF GetBody
  <2> QED BY <1>7, <2>2, <2>4, <2>5, <2>6 DEF GetBody, BadgeTypeOK
<1>8. CASE InitCall
  <2>1. rx' \in Seq(Byte)  BY <1>8, WriteIs, ResetIsByte DEF InitCall, BadgeTypeOK
  <2>2. tx' \in Seq(Byte)
    <3>1. tx' = <<>> \/ tx' = tx  BY <1>8 DEF InitCall
    <3>2. <<>> \in Seq(Byte) /\ tx \in Seq(Byte)  BY DEF BadgeTypeOK
    <3> QED BY <3>1, <3>2
  <2>3. 0 \in 0 .. ByteMod /\ 0 < ByteMod /\ <<>> \in Seq(Byte)  BY <1>1
  <2> QED BY <1>8, <2>1, <2>2, <2>3 DEF InitCall, BadgeTypeOK
<1>9. CASE Call
  <2>1. call' \in Calls /\ Write(Frame(call'))  BY <1>9 DEF Call
  <2>2. PICK p \in Calls : p = call'  BY <2>1
  <2>3. rx' \in Seq(Byte)  BY <2>1, <2>2, FrameIs, WriteIs DEF BadgeTypeOK
  <2>4. <<>> \in Seq(Byte)  OBVIOUS
  <2> QED BY <1>9, <2>1, <2>3, <2>4 DEF Call, BadgeTypeOK
<1>10. CASE Kill
  <2>1. rx' \in Seq(Byte)
    <3>1. CASE UNCHANGED rx  BY <3>1 DEF BadgeTypeOK
    <3>2. CASE \E sent \in Leftovers : Write(sent)
      <4>1. PICK sent \in Leftovers : Write(sent)  BY <3>2
      <4>2. sent \in Seq(Byte)  BY LinkAssumption
      <4> QED BY <4>1, <4>2, WriteIs DEF BadgeTypeOK
    <3> QED BY <1>10, <3>1, <3>2 DEF Kill
  <2>2. 0 \in 0 .. ByteMod /\ <<>> \in Seq(Byte)  BY <1>1
  <2> QED BY <1>10, <2>1, <2>2 DEF Kill, BadgeTypeOK
<1>11. CASE User
  <2>1. cmd_buf' \in Seq(Byte) /\ Len(cmd_buf') < CMD_BUF_SIZE
    <3>1. CASE cmd_buf' = cmd_buf  BY <3>1 DEF BadgeTypeOK
    <3>2. CASE cmd_buf' = <<>>
      <4>1. cmd_buf' \in Seq(Byte) /\ Len(cmd_buf') = 0  BY <3>2
      <4> QED BY <1>1, <4>1 DEF CMD_BUF_SIZE
    <3> QED BY <1>11, <3>1, <3>2 DEF User, Enter, Leave
  <2>2. app' \in {"menu", "command"} /\ UNCHANGED <<rx, tx, log>> /\ UNCHANGED clientVars
    BY <1>11 DEF User, Enter, Leave
  <2> QED BY <2>1, <2>2 DEF BadgeTypeOK, clientVars
<1> QED BY <1>2, <1>3, <1>4, <1>5, <1>6, <1>7, <1>8, <1>9, <1>10, <1>11
        DEF Next, Client

(* Types hold at the start *)
LEMMA InitTypes == Init => Started
<1>1. ByteMod \in Nat /\ ByteMod >= 8  BY Bytes
<1>2. SUFFICES ASSUME Init PROVE Started  OBVIOUS
<1>3. 0 \in 0 .. ByteMod /\ <<>> \in Seq(Byte) /\ Len(<<>>) = 0  BY <1>1
<1>4. BadgeTypeOK
  BY <1>1, <1>2, <1>3 DEF Init, BadgeInit, BadgeTypeOK, CMD_BUF_SIZE
<1> QED BY <1>2, <1>3, <1>4 DEF Init, Started, TypeOK, Resting

(* The variables of client and badge keep their types: cmd_buf never       *)
(* reaches CMD_BUF_SIZE between bytes, trials stays within a byte's worth  *)
THEOREM LineIsTyped == Spec => []TypeOK
<1>1. Started => TypeOK  BY DEF Started
<1> QED BY <1>1, InitTypes, StepTypes, PTL DEF Spec

-----------------------------------------------------------------------------
(* The invariant *)

(* s, followed by zeros up to n bytes *)
Padded(s, n) == [i \in 1 .. n |-> IF i <= Len(s) THEN s[i] ELSE 0]
Whole(s)     == Padded(s, s[1] + 2)

(* What a killed client leaves is the beginning of a command whose answer   *)
(* has no data even if the zeros of init complete it, and that does not    *)
(* fill the length byte                                                    *)
Mild ==
    \A s \in Leftovers : s # <<>> =>
        /\ s[1] \in 1 .. ByteMod - 2 /\ Len(s) <= s[1] + 2
        /\ Answers(Whole(s)) \subseteq Plain

(* The length of an answer is that of its data: not so for an SPI transfer  *)
(* of 255 bytes, which spi_transfer of the client never asks for           *)
Fitting == \A p \in Calls : \A r \in Responses(p) : r.len = (1 + Len(r.data)) % ByteMod

(* The user stays while the client is at work *)
AppInv == app = "menu" => c \in Resting /\ rx = <<>>

(* What is on its way to the badge: a call, a leftover with the zeros that  *)
(* complete it, a reset, or nothing                                        *)
InFrame(p) ==
    p \in Calls /\ rx # <<>> /\ cmd_buf \o rx = Frame(p)
InLeftover(s) ==
    /\ s \in Leftovers \ {<<>>} /\ Len(cmd_buf) < s[1] + 2
    /\ \E n \in Len(s) .. s[1] + 2 : cmd_buf \o rx = Padded(s, n)
InReset == cmd_buf = <<>> /\ rx = <<0>>
Idle == cmd_buf = <<>> /\ rx = <<>>
Clean == Idle /\ tx = <<>>

(* After a client was killed there may be any one of these *)
NewInv ==
    c = "new" =>
        \/ Idle \/ InReset
        \/ \E p \in Calls : InFrame(p)
        \/ \E s \in Leftovers : InLeftover(s)

(* init: there is never more than one answer, it is three bytes, and there  *)
(* are trials left for the one that acknowledges a reset                   *)
InitInv ==
    c \in {"discard", "ack"} =>
        /\ c = "discard" => trials = 0
        /\ call = <<>>
        /\ \/ /\ tx = <<>> /\ \E s \in Leftovers : InLeftover(s)
              /\ trials + 2 <= Len(cmd_buf) + Len(rx)
           \/ tx = <<>> /\ InReset /\ trials < ByteMod
           \/ c = "ack" /\ Clean /\ trials = 0
           \/ Idle /\ trials < ByteMod - 1 /\ \E r \in Plain : tx = Sent(r)
           \/ Idle /\ trials < ByteMod /\ tx = ResetResp

(* r is the answer to the call, which was handled or overflowed *)
Logged(r) ==
    \/ log = <<>> /\ Len(call) = ByteMod - 1 /\ r = Response(RESP_OVERFLOW, <<>>)
    \/ log = <<[payload |-> call, answer |-> r]>> /\ r \in Responses(call)

(* A call: it is on its way, or its answer is and nothing else *)
CallInv ==
    /\ c \in {"head", "body", "ok", "raised"} => call \in Calls
    /\ c = "head" =>
          \/ InFrame(call) /\ tx = <<>> /\ log = <<>>
          \/ \E r \in Responses(call) \cup {Response(RESP_OVERFLOW, <<>>)} :
                Idle /\ tx = Sent(r) /\ Logged(r)
    /\ c = "body" =>
          \E r \in Responses(call) \cup {Response(RESP_OVERFLOW, <<>>)} :
              /\ Idle /\ Logged(r) /\ Sent(r) # <<>>
              /\ tx = Tail(Sent(r)) /\ need = r.len + 1

(* Between calls there is nothing on the line *)
RestInv == c \in {"ready", "ok", "raised"} => Clean

LinkInv ==
    /\ AppInv /\ NewInv /\ InitInv /\ CallInv /\ RestInv
    /\ CallAnswered /\ RaisesForAReason

-----------------------------------------------------------------------------
(* Beginnings of what was written *)

(* The elements of a concatenation *)
LEMMA ConcatParts ==
    ASSUME NEW a \in Seq(Byte), NEW b \in Seq(Byte)
    PROVE  /\ a \o b \in Seq(Byte) /\ Len(a) \in Nat /\ Len(b) \in Nat
           /\ Len(a \o b) = Len(a) + Len(b)
           /\ \A i \in 1 .. Len(a) : (a \o b)[i] = a[i]
           /\ \A i \in 1 .. Len(b) : (a \o b)[Len(a) + i] = b[i]
           /\ b = <<>> => a \o b = a
           /\ a = <<>> => a \o b = b
           /\ Len(b) = 0 => b = <<>>
<1>1. /\ a \o b \in Seq(Byte) /\ Len(a \o b) = Len(a) + Len(b)
      /\ \A i \in 1 .. Len(a) + Len(b) : (a \o b)[i] = IF i <= Len(a) THEN a[i] ELSE b[i - Len(a)]
  BY ConcatProperties
<1>2. Len(a) \in Nat /\ Len(b) \in Nat  OBVIOUS
<1>3. \A i \in 1 .. Len(a) : (a \o b)[i] = a[i]
  <2>1. \A i \in 1 .. Len(a) : i \in 1 .. Len(a) + Len(b) /\ i <= Len(a)  BY <1>2
  <2> QED BY <1>1, <2>1
<1>4. ASSUME NEW i \in 1 .. Len(b) PROVE (a \o b)[Len(a) + i] = b[i]
  <2>1. Len(a) + i \in 1 .. Len(a) + Len(b) /\ ~(Len(a) + i <= Len(a)) /\ (Len(a) + i) - Len(a) = i
    BY <1>2
  <2> QED BY <1>1, <2>1
<1>5. b = <<>> => a \o b = a  BY ConcatEmptySeq
<1>6. a = <<>> => a \o b = b  BY ConcatEmptySeq
<1>7. Len(b) = 0 => b = <<>>  BY EmptySeq
<1> QED BY <1>1, <1>2, <1>3, <1>4, <1>5, <1>6, <1>7

(* A sequence completed by zeros, and by one more *)
LEMMA PaddedIs ==
    ASSUME NEW s \in Seq(Byte), NEW n \in Nat
    PROVE  /\ Padded(s, n) \in Seq(Byte) /\ Len(Padded(s, n)) = n
           /\ \A i \in 1 .. n : Padded(s, n)[i] = IF i <= Len(s) THEN s[i] ELSE 0
<1>1. Len(s) \in Nat /\ 0 \in Byte  BY Bytes
<1>2. \A i \in 1 .. n : (IF i <= Len(s) THEN s[i] ELSE 0) \in Byte
  <2> TAKE i \in 1 .. n
  <2>1. CASE i <= Len(s)
    <3>1. i \in 1 .. Len(s)  BY <1>1, <2>1
    <3> QED BY <2>1, <3>1, ElementOfSeq
  <2>2. CASE ~(i <= Len(s))  BY <1>1, <2>2
  <2> QED BY <2>1, <2>2
<1>3. Padded(s, n) \in [1 .. n -> Byte]  BY <1>2 DEF Padded
<1>4. PICK q : q = Padded(s, n)  OBVIOUS
<1>5. q \in [1 .. n -> Byte]  BY <1>3, <1>4
<1>6. q \in Seq(Byte)  BY <1>5
<1>7. DOMAIN q = 1 .. n  BY <1>5
<1>8. Len(q) = n  BY <1>6, <1>7
<1>9. \A i \in 1 .. n : Padded(s, n)[i] = IF i <= Len(s) THEN s[i] ELSE 0  BY DEF Padded
<1> QED BY <1>4, <1>6, <1>8, <1>9

LEMMA PaddedGrows ==
    ASSUME NEW s \in Seq(Byte), NEW n \in Nat
    PROVE  /\ Padded(s, Len(s)) = s
           /\ n >= Len(s) => Padded(s, n) \o << 0 >> = Padded(s, n + 1)
<1>1. Len(s) \in Nat  OBVIOUS
<1>2. Padded(s, Len(s)) = s
  <2>1. PICK q : q = Padded(s, Len(s))  OBVIOUS
  <2>2. q \in Seq(Byte) /\ Len(q) = Len(s)
        /\ \A i \in 1 .. Len(s) : q[i] = IF i <= Len(s) THEN s[i] ELSE 0
    BY <1>1, <2>1, PaddedIs
  <2>3. \A i \in 1 .. Len(q) : q[i] = s[i]  BY <1>1, <2>2
  <2>4. q = s  BY <2>2, <2>3, SeqEqual
  <2> QED BY <2>1, <2>4
<1>3. ASSUME n >= Len(s) PROVE Padded(s, n) \o << 0 >> = Padded(s, n + 1)
  <2>1. PICK a, b, z : a = Padded(s, n) /\ b = Padded(s, n + 1) /\ z = << 0 >>  OBVIOUS
  <2>2. a \in Seq(Byte) /\ Len(a) = n /\ \A i \in 1 .. n : a[i] = IF i <= Len(s) THEN s[i] ELSE 0
    BY <2>1, PaddedIs
  <2>3. /\ b \in Seq(Byte) /\ Len(b) = n + 1
        /\ \A i \in 1 .. n + 1 : b[i] = IF i <= Len(s) THEN s[i] ELSE 0
    <3>1. PICK m \in Nat : m = n + 1  OBVIOUS
    <3>2. b = Padded(s, m)  BY <2>1, <3>1
    <3>3. b \in Seq(Byte) /\ Len(b) = m /\ \A i \in 1 .. m : b[i] = IF i <= Len(s) THEN s[i] ELSE 0
      BY <3>2, PaddedIs
    <3> QED BY <3>1, <3>3
  <2>4. z \in Seq(Byte) /\ Len(z) = 1 /\ z[1] = 0
    <3>1. 0 \in Byte  BY Bytes
    <3> QED BY <2>1, <3>1
  <2>5. PICK w : w = a \o z  OBVIOUS
  <2>6. /\ w \in Seq(Byte) /\ Len(w) = n + 1 /\ \A i \in 1 .. n : w[i] = a[i]
        /\ \A i \in 1 .. 1 : w[n + i] = z[i]
    <3>1. /\ a \o z \in Seq(Byte) /\ Len(a \o z) = Len(a) + Len(z)
          /\ \A i \in 1 .. Len(a) : (a \o z)[i] = a[i]
          /\ \A i \in 1 .. Len(z) : (a \o z)[Len(a) + i] = z[i]
      BY <2>2, <2>4, ConcatParts
    <3>2. /\ w \in Seq(Byte) /\ Len(w) = Len(a) + Len(z)
          /\ \A i \in 1 .. Len(a) : w[i] = a[i]
          /\ \A i \in 1 .. Len(z) : w[Len(a) + i] = z[i]
      BY <2>5, <3>1, Zenon
    <3> QED BY <2>2, <2>4, <3>2
  <2>7. w[n + 1] = 0
    <3>1. 1 \in 1 .. 1  OBVIOUS
    <3> QED BY <2>4, <2>6, <3>1
  <2>8. ASSUME NEW i \in 1 .. Len(w) PROVE w[i] = b[i]
    <3>1. i \in 1 .. n + 1  BY <2>6
    <3>2. CASE i = n + 1
      <4>1. ~(i <= Len(s))  BY <1>1, <1>3, <3>2
      <4>2. b[i] = 0  BY <2>3, <3>1, <4>1
      <4> QED BY <2>7, <3>2, <4>2
    <3>3. CASE i # n + 1
      <4>1. i \in 1 .. n  BY <3>1, <3>3
      <4>2. w[i] = a[i]  BY <2>6, <4>1
      <4>3. a[i] = IF i <= Len(s) THEN s[i] ELSE 0  BY <2>2, <4>1
      <4>4. b[i] = IF i <= Len(s) THEN s[i] ELSE 0  BY <2>3, <3>1
      <4> QED BY <4>2, <4>3, <4>4
    <3> QED BY <3>2, <3>3
  <2>9. w = b  BY <2>3, <2>6, <2>8, SeqEqual
  <2> QED BY <2>1, <2>5, <2>9
<1> QED BY <1>2, <1>3

(* A buffer that lacks bytes of what its first byte announces gets no      *)
(* answer; the last of them brings one                                     *)
LEMMA Announced ==
    ASSUME NEW buf \in Seq(Byte), buf # <<>>, buf[1] >= 1, Len(buf) <= buf[1] + 2
    PROVE  /\ Len(buf) < buf[1] + 2 => Answers(buf) = {}
           /\ Len(buf) = buf[1] + 2 => Answers(buf) # {}
           /\ ~ResetAsked(buf)
<1>1. Len(buf) \in Nat /\ Len(buf) >= 1  BY EmptySeq
<1>2. PICK h : h = buf[1]  OBVIOUS
<1>3. h \in Nat /\ h < ByteMod /\ ByteMod \in Nat
  <2>1. 1 \in 1 .. Len(buf)  BY <1>1
  <2>2. buf[1] \in Byte  BY <2>1, ElementOfSeq
  <2> QED BY <1>2, <2>2, Bytes
<1>4. ~ResetAsked(buf)
  <2>1. PICK z : z = <<TYPE_RESET>>  OBVIOUS
  <2>2. z[1] = 0  BY <2>1 DEF TYPE_RESET
  <2>3. h >= 1  BY <1>2
  <2>4. buf[1] # z[1]  BY <1>2, <2>2, <2>3
  <2>5. buf # z  BY <2>4, Zenon
  <2> QED BY <2>1, <2>5 DEF ResetAsked
<1>5. ASSUME Len(buf) < h + 2 PROVE ~Overflown(buf) /\ ~Complete(buf)
  BY <1>1, <1>2, <1>3, <1>5 DEF Overflown, Complete, CMD_BUF_SIZE
<1>6. ASSUME Len(buf) = h + 2 PROVE Complete(buf)
  BY <1>1, <1>2, <1>3, <1>6 DEF Complete
<1> QED BY <1>2, <1>4, <1>5, <1>6, AnswersAre

(* A call: answered when its last byte is taken, by its own answers unless *)
(* it fills the length byte                                                *)
LEMMA FrameTaken ==
    ASSUME NEW p \in Calls, NEW buf \in Seq(Byte), buf # <<>>,
           NEW t \in Seq(Byte), buf \o t = Frame(p)
    PROVE  /\ t # <<>> => Answers(buf) = {}
           /\ t = <<>> =>
                /\ Answers(buf) = IF Len(p) = ByteMod - 1 THEN {Response(RESP_OVERFLOW, <<>>)}
                                                          ELSE Responses(p)
                /\ Handled(buf) <=> Len(p) # ByteMod - 1
                /\ Payload(buf) = p
<1>1. PICK n : n = Len(p)  OBVIOUS
<1>2. /\ p \in Seq(Byte) /\ n \in Nat /\ n < ByteMod /\ n >= 1
      /\ Frame(p) \in Seq(Byte) /\ Len(Frame(p)) = n + 2
      /\ Frame(p)[1] = n /\ Frame(p)[n + 2] = Crc(p)
      /\ \A i \in 1 .. n : Frame(p)[i + 1] = p[i]
  BY <1>1, FrameIs
<1>3. /\ Len(buf) \in Nat /\ Len(t) \in Nat /\ Len(buf \o t) = Len(buf) + Len(t)
      /\ \A i \in 1 .. Len(buf) : (buf \o t)[i] = buf[i]
      /\ Len(t) = 0 => t = <<>>
      /\ t = <<>> => buf \o t = buf
  BY ConcatParts
<1>4. Len(buf) >= 1 /\ 1 \in 1 .. Len(buf)  BY <1>3, EmptySeq
<1>5. buf[1] = n  BY <1>2, <1>3, <1>4
<1>6. Len(buf) <= n + 2 /\ (t # <<>> => Len(buf) < n + 2)
  <2>1. Len(buf) + Len(t) = n + 2  BY <1>2, <1>3
  <2> QED BY <1>2, <1>3, <2>1
<1>7. ASSUME t # <<>> PROVE Answers(buf) = {}
  <2>1. buf[1] >= 1 /\ Len(buf) <= buf[1] + 2 /\ Len(buf) < buf[1] + 2
    BY <1>2, <1>5, <1>6, <1>7
  <2> QED BY <2>1, Announced
<1>8. ASSUME t = <<>>
      PROVE  /\ Answers(buf) = IF Len(p) = ByteMod - 1 THEN {Response(RESP_OVERFLOW, <<>>)}
                                                       ELSE Responses(p)
             /\ Handled(buf) <=> Len(p) # ByteMod - 1
             /\ Payload(buf) = p
  <2>1. buf = Frame(p)  BY <1>3, <1>8
  <2>2. Len(buf) = n + 2  BY <1>2, <2>1
  <2>3. ~ResetAsked(buf)
    <3>1. buf[1] >= 1 /\ Len(buf) <= buf[1] + 2  BY <1>2, <1>5, <2>2
    <3> QED BY <3>1, Announced
  <2>4. ByteMod \in Nat  BY Bytes
  <2>5. Overflown(buf) <=> n = ByteMod - 1
    BY <1>2, <2>2, <2>4 DEF Overflown, CMD_BUF_SIZE
  <2>6. Complete(buf)  BY <1>2, <1>5, <2>2 DEF Complete
  <2>7. Payload(buf) = p
    <3>1. PICK m : m = n + 1  OBVIOUS
    <3>2. m \in Int /\ 2 \in Int /\ m - 2 + 1 = n /\ 2 <= m  BY <1>2, <3>1
    <3>3. \A i \in 2 .. m : i \in 1 .. Len(buf)  BY <1>2, <2>2, <3>1
    <3>4. \A i \in 2 .. m : buf[i] \in Byte  BY <3>3, ElementOfSeq
    <3>5. /\ SubSeq(buf, 2, m) \in Seq(Byte)
          /\ Len(SubSeq(buf, 2, m)) = m - 2 + 1
          /\ \A i \in 1 .. m - 2 + 1 : SubSeq(buf, 2, m)[i] = buf[2 + i - 1]
      BY <3>2, <3>4, SubSeqProperties
    <3>6. \A i \in 1 .. n : 2 + i - 1 = i + 1  OBVIOUS
    <3>7. \A i \in 1 .. n : SubSeq(buf, 2, m)[i] = p[i]
      BY <1>2, <2>1, <3>2, <3>5, <3>6
    <3>8. SubSeq(buf, 2, m) = p  BY <1>1, <1>2, <3>2, <3>5, <3>7, SeqEqual
    <3> QED BY <1>5, <3>1, <3>8 DEF Payload
  <2>8. CrcMatches(buf)
    <3>1. buf[n + 2] = Crc(p)  BY <1>2, <2>1
    <3> QED BY <1>5, <2>7, <3>1, Zenon DEF CrcMatches
  <2>9. Handled(buf) <=> Len(p) # ByteMod - 1
    BY <1>1, <2>3, <2>5, <2>6, <2>8 DEF Handled
  <2>10. ASSUME n = ByteMod - 1 PROVE Answers(buf) = {Response(RESP_OVERFLOW, <<>>)}
    <3>1. Overflown(buf)  BY <2>5, <2>10
    <3> QED BY <3>1, Zenon DEF Answers
  <2>11. ASSUME n # ByteMod - 1 PROVE Answers(buf) = Responses(p)
    <3>1. ~Overflown(buf)  BY <2>5, <2>11
    <3> QED BY <2>3, <2>6, <2>7, <2>8, <3>1, Zenon DEF Answers
  <2> QED BY <1>1, <2>7, <2>9, <2>10, <2>11, Zenon
<1> QED BY <1>7, <1>8

(* What a killed client has left, completed by resets: answered when as    *)
(* much is there as its first byte announces                               *)
LEMMA LeftoverTaken ==
    ASSUME Mild, NEW s \in Leftovers, s # <<>>,
           NEW buf \in Seq(Byte), buf # <<>>, NEW t \in Seq(Byte),
           NEW n \in Len(s) .. s[1] + 2, buf \o t = Padded(s, n)
    PROVE  /\ Len(buf) <= s[1] + 2 /\ Len(buf) + Len(t) = n
           /\ Len(buf) < s[1] + 2 => Answers(buf) = {}
           /\ Len(buf) = s[1] + 2 => t = <<>> /\ Answers(buf) # {} /\ Answers(buf) \subseteq Plain
<1>1. s \in Seq(Byte)  BY LinkAssumption
<1>2. PICK h : h = s[1]  OBVIOUS
<1>3. h \in 1 .. ByteMod - 2 /\ Len(s) <= h + 2 /\ Answers(Whole(s)) \subseteq Plain
  BY <1>2 DEF Mild
<1>4. ByteMod \in Nat /\ h \in Nat /\ h >= 1  BY <1>3, Bytes
<1>5. Len(s) \in Nat /\ Len(s) >= 1  BY <1>1, EmptySeq
<1>6. n \in Nat /\ n <= h + 2 /\ n >= Len(s) /\ n >= 1  BY <1>2, <1>4, <1>5
<1>7. PICK q : q = Padded(s, n)  OBVIOUS
<1>8. /\ q \in Seq(Byte) /\ Len(q) = n
      /\ \A i \in 1 .. n : q[i] = IF i <= Len(s) THEN s[i] ELSE 0
  BY <1>1, <1>6, <1>7, PaddedIs
<1>9. q[1] = h
  <2>1. 1 \in 1 .. n /\ 1 <= Len(s)  BY <1>5, <1>6
  <2> QED BY <1>2, <1>8, <2>1
<1>10. /\ Len(buf) \in Nat /\ Len(t) \in Nat /\ Len(buf \o t) = Len(buf) + Len(t)
       /\ \A i \in 1 .. Len(buf) : (buf \o t)[i] = buf[i]
       /\ Len(t) = 0 => t = <<>>
       /\ t = <<>> => buf \o t = buf
  BY ConcatParts
<1>11. Len(buf) >= 1 /\ 1 \in 1 .. Len(buf)  BY <1>10, EmptySeq
<1>12. buf[1] = h  BY <1>7, <1>9, <1>10, <1>11
<1>13. Len(buf) + Len(t) = n  BY <1>7, <1>8, <1>10
<1>14. Len(buf) <= h + 2 /\ (Len(buf) = h + 2 => Len(t) = 0 /\ n = h + 2)
  BY <1>4, <1>6, <1>10, <1>13
<1>15. ASSUME Len(buf) < h + 2 PROVE Answers(buf) = {}
  <2>1. buf[1] >= 1 /\ Len(buf) <= buf[1] + 2 /\ Len(buf) < buf[1] + 2
    BY <1>4, <1>12, <1>14, <1>15
  <2> QED BY <2>1, Announced
<1>16. ASSUME Len(buf) = h + 2
       PROVE  t = <<>> /\ Answers(buf) # {} /\ Answers(buf) \subseteq Plain
  <2>1. t = <<>> /\ n = h + 2  BY <1>10, <1>14, <1>16
  <2>2. buf = Padded(s, n)  BY <1>10, <2>1
  <2>3. Padded(s, n) = Whole(s)  BY <1>2, <2>1, Zenon DEF Whole
  <2>4. Answers(buf) \subseteq Plain  BY <1>3, <2>2, <2>3, Zenon
  <2>5. Answers(buf) # {}
    <3>1. buf[1] >= 1 /\ Len(buf) = buf[1] + 2 /\ Len(buf) <= buf[1] + 2
      BY <1>4, <1>12, <1>14, <1>16
    <3> QED BY <3>1, Announced
  <2> QED BY <2>1, <2>4, <2>5
<1> QED BY <1>2, <1>13, <1>14, <1>15, <1>16

(* A reset at the beginning of a command is answered *)
LEMMA ResetTaken ==
    ASSUME NEW buf, buf = << 0 >>
    PROVE  Answers(buf) = {Response(RESP_RESET, <<>>)}
<1>1. Len(buf) = 1 /\ ByteMod \in Nat /\ ByteMod >= 8  BY Bytes
<1>2. ~Overflown(buf)  BY <1>1 DEF Overflown, CMD_BUF_SIZE
<1>3. ResetAsked(buf)  BY Zenon DEF ResetAsked, TYPE_RESET
<1> QED BY <1>2, <1>3, Zenon DEF Answers

(* What a call reads after the length: payload and checksum, or nothing *)
LEMMA BodyIs ==
    ASSUME NEW r, Good(r), Sent(r) # <<>>
    PROVE  /\ Tail(Sent(r)) \in Seq(Byte) /\ Len(Tail(Sent(r))) <= r.len + 1
           /\ r.len <= ByteMod - 3 => Tail(Sent(r)) = Told(r) \o <<Crc(Told(r))>>
           /\ r.len > ByteMod - 3 => Tail(Sent(r)) = <<>>
<1>1. r.len \in Nat /\ r.len < ByteMod /\ ByteMod \in Nat  BY Bytes DEF Good
<1>2. r.len <= ByteMod - 3 \/ r.len = ByteMod - 1  BY <1>1, SentHead
<1>3. PICK told, x : told = Told(r) /\ x = Crc(told)  OBVIOUS
<1>4. told \in Seq(Byte) /\ Len(told) = r.len /\ x \in Byte  BY <1>3, ToldIs
<1>5. <<x>> \in Seq(Byte) /\ Len(<<x>>) = 1  BY <1>4
<1>6. PICK b : b = told \o <<x>>  OBVIOUS
<1>7. b \in Seq(Byte) /\ Len(b) = r.len + 1  BY <1>4, <1>5, <1>6, ConcatProperties
<1>8. PICK l \in Byte : l = r.len  BY DEF Good
<1>9. CASE r.len <= ByteMod - 3
  <2>1. Sent(r) = <<r.len>> \o (Told(r) \o <<Crc(Told(r))>>)  BY <1>9, SentIs
  <2>2. Sent(r) = <<l>> \o b  BY <1>3, <1>6, <1>8, <2>1
  <2>3. Tail(<<l>> \o b) = b  BY <1>7
  <2> QED BY <1>1, <1>3, <1>6, <1>7, <1>9, <2>2, <2>3
<1>10. CASE r.len = ByteMod - 1
  <2>1. Sent(r) = <<l>>  BY <1>8, <1>10, SentIs
  <2>2. Tail(<<l>>) = <<>>  OBVIOUS
  <2>3. <<>> \in Seq(Byte) /\ Len(<<>>) = 0  OBVIOUS
  <2> QED BY <1>1, <1>10, <2>1, <2>2, <2>3
<1> QED BY <1>2, <1>9, <1>10

-----------------------------------------------------------------------------
(* The badge takes the bytes of the client *)

(* A call is taken byte by byte; the last brings its answer *)
LEMMA TakeFrame ==
    ASSUME BadgeTypeOK, Take, NEW p, InFrame(p)
    PROVE  \/ InFrame(p)' /\ UNCHANGED <<tx, log>>
           \/ /\ Idle'
              /\ \E r \in IF Len(p) = ByteMod - 1 THEN {Response(RESP_OVERFLOW, <<>>)}
                                                  ELSE Responses(p) :
                   /\ tx' = tx \o Sent(r)
                   /\ log' = IF Len(p) = ByteMod - 1
                               THEN log ELSE Append(log, [payload |-> p, answer |-> r])
<1>1. PICK t : t = Tail(rx)  OBVIOUS
<1>2. /\ Filled \in Seq(Byte) /\ Filled # <<>> /\ rx # <<>> /\ rx' = t
      /\ Filled \o t = cmd_buf \o rx
  BY <1>1, TakeIs
<1>3. t \in Seq(Byte)  BY <1>1, <1>2, HeadTailProperties DEF BadgeTypeOK
<1>4. p \in Calls /\ Filled \o t = Frame(p)  BY <1>2 DEF InFrame
<1>5. \/ Answers(Filled) = {} /\ cmd_buf' = Filled /\ UNCHANGED <<tx, log>>
      \/ \E r \in Answers(Filled) :
           /\ cmd_buf' = <<>> /\ tx' = tx \o Sent(r)
           /\ log' = IF Handled(Filled)
                       THEN Append(log, [payload |-> Payload(Filled), answer |-> r])
                       ELSE log
  BY TakeIs
<1>6. CASE t # <<>>
  <2>1. Answers(Filled) = {}  BY <1>2, <1>3, <1>4, <1>6, FrameTaken
  <2>2. cmd_buf' = Filled /\ UNCHANGED <<tx, log>>  BY <1>5, <2>1
  <2>3. InFrame(p)'  BY <1>2, <1>4, <1>6, <2>2, Zenon DEF InFrame
  <2> QED BY <2>2, <2>3
<1>7. CASE t = <<>>
  <2>1. /\ Answers(Filled) = IF Len(p) = ByteMod - 1 THEN {Response(RESP_OVERFLOW, <<>>)}
                                                     ELSE Responses(p)
        /\ Handled(Filled) <=> Len(p) # ByteMod - 1
        /\ Payload(Filled) = p
    BY <1>2, <1>3, <1>4, <1>7, FrameTaken
  <2>2. p \in Seq(Byte)  BY <1>4, FrameIs
  <2>3. Answers(Filled) # {}  BY <2>1, <2>2, ResponsesAre
  <2>4. PICK r \in Answers(Filled) :
           /\ cmd_buf' = <<>> /\ tx' = tx \o Sent(r)
           /\ log' = IF Handled(Filled)
                       THEN Append(log, [payload |-> Payload(Filled), answer |-> r])
                       ELSE log
    BY <1>5, <2>3
  <2>5. log' = IF Len(p) = ByteMod - 1 THEN log ELSE Append(log, [payload |-> p, answer |-> r])
    BY <2>1, <2>4, Zenon
  <2>6. Idle'  BY <1>2, <1>7, <2>4 DEF Idle
  <2> QED BY <2>1, <2>4, <2>5, <2>6, Zenon
<1> QED BY <1>6, <1>7

(* So is a leftover *)
LEMMA TakeLeftover ==
    ASSUME Mild, BadgeTypeOK, Take, NEW s, InLeftover(s)
    PROVE  \/ /\ InLeftover(s)' /\ UNCHANGED <<tx, log>>
              /\ (Len(cmd_buf) + Len(rx))' = Len(cmd_buf) + Len(rx)
           \/ /\ Idle' /\ \E r \in Plain : tx' = tx \o Sent(r)
              /\ Len(cmd_buf) + Len(rx) <= ByteMod
<1>1. PICK t : t = Tail(rx)  OBVIOUS
<1>2. /\ Filled \in Seq(Byte) /\ Filled # <<>> /\ rx # <<>> /\ rx' = t
      /\ Filled \o t = cmd_buf \o rx /\ Len(Filled) = Len(cmd_buf) + 1
  BY <1>1, TakeIs
<1>3. t \in Seq(Byte) /\ cmd_buf \in Seq(Byte) /\ rx \in Seq(Byte)
  BY <1>1, <1>2, HeadTailProperties DEF BadgeTypeOK
<1>4. s \in Leftovers /\ s # <<>> /\ Len(cmd_buf) < s[1] + 2  BY DEF InLeftover
<1>5. PICK n \in Len(s) .. s[1] + 2 : cmd_buf \o rx = Padded(s, n)  BY DEF InLeftover
<1>6. Filled \o t = Padded(s, n)  BY <1>2, <1>5
<1>7. /\ Len(Filled) <= s[1] + 2 /\ Len(Filled) + Len(t) = n
      /\ Len(Filled) < s[1] + 2 => Answers(Filled) = {}
      /\ Len(Filled) = s[1] + 2 =>
           t = <<>> /\ Answers(Filled) # {} /\ Answers(Filled) \subseteq Plain
  BY <1>2, <1>3, <1>4, <1>5, <1>6, LeftoverTaken
<1>8. s[1] \in 1 .. ByteMod - 2 /\ ByteMod \in Nat  BY <1>4, Bytes DEF Mild
<1>9. PICK l : l = Len(Filled)  OBVIOUS
<1>10. l \in Nat /\ Len(t) \in Nat /\ Len(cmd_buf) \in Nat /\ Len(rx) \in Nat  BY <1>2, <1>3, <1>9
<1>11. \/ Answers(Filled) = {} /\ cmd_buf' = Filled /\ UNCHANGED <<tx, log>>
       \/ \E r \in Answers(Filled) : cmd_buf' = <<>> /\ tx' = tx \o Sent(r)
  BY TakeIs
<1>12. Len(cmd_buf) + Len(rx) = l + Len(t)
  <2>1. Len(cmd_buf \o rx) = Len(cmd_buf) + Len(rx)  BY <1>3, ConcatParts
  <2>2. Len(Filled \o t) = Len(Filled) + Len(t)  BY <1>2, <1>3, ConcatParts
  <2> QED BY <1>2, <1>9, <2>1, <2>2
<1>13. CASE l < s[1] + 2
  <2>1. Answers(Filled) = {}  BY <1>7, <1>9, <1>13
  <2>2. cmd_buf' = Filled /\ UNCHANGED <<tx, log>>  BY <1>11, <2>1
  <2>3. InLeftover(s)'
    <3>1. cmd_buf' \o rx' = Padded(s, n)  BY <1>2, <1>6, <2>2
    <3>2. Len(cmd_buf') < s[1] + 2  BY <1>9, <1>13, <2>2
    <3> QED BY <1>4, <3>1, <3>2 DEF InLeftover
  <2>4. (Len(cmd_buf) + Len(rx))' = l + Len(t)  BY <1>2, <1>9, <2>2
  <2> QED BY <1>12, <2>2, <2>3, <2>4
<1>14. CASE l = s[1] + 2
  <2>1. t = <<>> /\ Answers(Filled) # {} /\ Answers(Filled) \subseteq Plain  BY <1>7, <1>9, <1>14
  <2>2. PICK r \in Answers(Filled) : cmd_buf' = <<>> /\ tx' = tx \o Sent(r)  BY <1>11, <2>1
  <2>3. Idle'  BY <1>2, <2>1, <2>2 DEF Idle
  <2>4. Len(t) = 0  BY <2>1
  <2>5. Len(cmd_buf) + Len(rx) <= ByteMod  BY <1>8, <1>12, <1>14, <2>4
  <2> QED BY <2>1, <2>2, <2>3, <2>5
<1>15. l < s[1] + 2 \/ l = s[1] + 2  BY <1>7, <1>8, <1>9, <1>10
<1> QED BY <1>13, <1>14, <1>15

(* A reset is answered at once *)
LEMMA TakeReset ==
    ASSUME BadgeTypeOK, Take, InReset
    PROVE  Idle' /\ tx' = tx \o ResetResp
<1>1. cmd_buf = <<>> /\ rx = << 0 >>  BY DEF InReset
<1>2. Filled = << 0 >>  BY <1>1 DEF Filled
<1>3. Answers(Filled) = {Response(RESP_RESET, <<>>)}  BY <1>2, ResetTaken
<1>4. PICK r \in Answers(Filled) : cmd_buf' = <<>> /\ tx' = tx \o Sent(r)  BY <1>3, TakeIs
<1>5. rx' = <<>>  BY <1>1, TakeIs
<1>6. tx' = tx \o ResetResp  BY <1>3, <1>4, Zenon DEF ResetResp
<1> QED BY <1>4, <1>5, <1>6 DEF Idle

(* What the badge then sends to a line with nothing on it *)
LEMMA OnEmptyLine ==
    ASSUME NEW bytes \in Seq(Byte), tx = <<>>
    PROVE  tx \o bytes = bytes
BY ConcatEmptySeq

(* The badge keeps the invariant *)
LEMMA TakeKeeps ==
    ASSUME Mild, Started, LinkInv, Badge
    PROVE  LinkInv'
<1>1. BadgeTypeOK /\ Take /\ UNCHANGED <<c, trials, call, need, got>>
  BY DEF Started, TypeOK, Badge, clientVars
<1>2. rx # <<>> /\ app = "command" /\ app' = app  BY <1>1, TakeIs
<1>3. ~Idle /\ ~Clean  BY <1>2 DEF Idle, Clean
<1>4. c \notin {"ready", "ok", "raised", "body"}
  BY <1>3 DEF LinkInv, RestInv, CallInv
<1>5. AppInv' /\ RestInv' /\ CallAnswered' /\ RaisesForAReason'
  BY <1>1, <1>2, <1>4 DEF AppInv, RestInv, CallAnswered, RaisesForAReason
<1>6. NewInv'
  <2> SUFFICES ASSUME c = "new"
               PROVE  Idle' \/ (\E p \in Calls : InFrame(p)') \/ (\E s \in Leftovers : InLeftover(s)')
    BY <1>1, Zenon DEF NewInv
  <2>1. CASE InReset  BY <1>1, <2>1, TakeReset
  <2>2. CASE \E p \in Calls : InFrame(p)  BY <1>1, <2>2, TakeFrame
  <2>3. CASE \E s \in Leftovers : InLeftover(s)  BY <1>1, <2>3, TakeLeftover
  <2> QED BY <1>3, <2>1, <2>2, <2>3 DEF LinkInv, NewInv
<1>7. InitInv'
  <2> SUFFICES ASSUME c \in {"discard", "ack"}
               PROVE  \/ /\ (tx = <<>>)' /\ \E s \in Leftovers : InLeftover(s)'
                         /\ (trials + 2 <= Len(cmd_buf) + Len(rx))'
                      \/ Idle' /\ trials < ByteMod - 1 /\ \E r \in Plain : tx' = Sent(r)
                      \/ Idle' /\ trials < ByteMod /\ tx' = ResetResp
    BY <1>1, Zenon DEF InitInv, LinkInv
  <2>1. CASE /\ tx = <<>> /\ \E s \in Leftovers : InLeftover(s)
             /\ trials + 2 <= Len(cmd_buf) + Len(rx)
    <3>1. PICK s \in Leftovers : InLeftover(s)  BY <2>1
    <3>2. CASE /\ InLeftover(s)' /\ UNCHANGED <<tx, log>>
               /\ (Len(cmd_buf) + Len(rx))' = Len(cmd_buf) + Len(rx)
      BY <1>1, <2>1, <3>2
    <3>3. CASE /\ Idle' /\ \E r \in Plain : tx' = tx \o Sent(r)
               /\ Len(cmd_buf) + Len(rx) <= ByteMod
      <4>1. PICK r \in Plain : tx' = tx \o Sent(r)  BY <3>3
      <4>2. tx' = Sent(r)  BY <2>1, <4>1, PlainIs, OnEmptyLine
      <4>3. PICK m : m = Len(cmd_buf) + Len(rx)  OBVIOUS
      <4>4. m \in Nat  BY <1>1, <4>3 DEF BadgeTypeOK
      <4>5. trials + 2 <= m /\ m <= ByteMod  BY <2>1, <3>3, <4>3
      <4>6. trials \in Nat /\ ByteMod \in Nat  BY Bytes DEF Started, TypeOK
      <4>7. trials < ByteMod - 1  BY <4>4, <4>5, <4>6
      <4> QED BY <3>3, <4>1, <4>2, <4>7
    <3> QED BY <1>1, <3>1, <3>2, <3>3, TakeLeftover
  <2>2. CASE tx = <<>> /\ InReset /\ trials < ByteMod
    <3>1. Idle' /\ tx' = tx \o ResetResp  BY <1>1, <2>2, TakeReset
    <3>2. tx' = ResetResp  BY <2>2, <3>1, ResetRespIs, OnEmptyLine
    <3> QED BY <2>2, <3>1, <3>2
  <2> QED BY <1>3, <2>1, <2>2 DEF LinkInv, InitInv
<1>8. CallInv'
  <2> SUFFICES ASSUME c = "head"
               PROVE  \/ InFrame(call)' /\ (tx = <<>> /\ log = <<>>)'
                      \/ \E r \in Responses(call) \cup {Response(RESP_OVERFLOW, <<>>)} :
                           Idle' /\ tx' = Sent(r) /\ Logged(r)'
    BY <1>1, <1>4, Zenon DEF CallInv, LinkInv
  <2>1. call \in Calls /\ InFrame(call) /\ tx = <<>> /\ log = <<>>
    BY <1>3 DEF LinkInv, CallInv
  <2>2. CASE InFrame(call)' /\ UNCHANGED <<tx, log>>  BY <1>1, <2>1, <2>2 DEF InFrame
  <2>3. CASE /\ Idle'
             /\ \E r \in IF Len(call) = ByteMod - 1 THEN {Response(RESP_OVERFLOW, <<>>)}
                                                    ELSE Responses(call) :
                  /\ tx' = tx \o Sent(r)
                  /\ log' = IF Len(call) = ByteMod - 1
                              THEN log ELSE Append(log, [payload |-> call, answer |-> r])
    <3>1. PICK r \in IF Len(call) = ByteMod - 1 THEN {Response(RESP_OVERFLOW, <<>>)}
                                                ELSE Responses(call) :
             /\ tx' = tx \o Sent(r)
             /\ log' = IF Len(call) = ByteMod - 1
                         THEN log ELSE Append(log, [payload |-> call, answer |-> r])
      BY <2>3
    <3>2. Good(r)
      <4>1. call \in Seq(Byte)  BY <2>1, FrameIs
      <4>2. RESP_OVERFLOW \in Byte  BY Bytes DEF RESP_OVERFLOW
      <4>3. Good(Response(RESP_OVERFLOW, <<>>))  BY <4>2, PlainIs DEF Plain
      <4> QED BY <3>1, <4>1, <4>3, ResponsesAre
    <3>3. tx' = Sent(r)  BY <2>1, <3>1, <3>2, SentIs, OnEmptyLine
    <3>4. Logged(r)'
      <4>1. CASE Len(call) = ByteMod - 1  BY <1>1, <2>1, <3>1, <4>1, Zenon DEF Logged
      <4>2. CASE Len(call) # ByteMod - 1
        <5>1. PICK e : e = [payload |-> call, answer |-> r]  OBVIOUS
        <5>2. Append(<<>>, e) = <<e>>  OBVIOUS
        <5>3. log' = <<e>> /\ r \in Responses(call)  BY <2>1, <3>1, <4>2, <5>1, <5>2, Zenon
        <5> QED BY <1>1, <5>1, <5>3, Zenon DEF Logged
      <4> QED BY <4>1, <4>2
    <3>5. r \in Responses(call) \cup {Response(RESP_OVERFLOW, <<>>)}  BY <3>1
    <3> QED BY <2>3, <3>3, <3>4, <3>5
  <2> QED BY <1>1, <2>1, <2>2, <2>3, TakeFrame
<1> QED BY <1>5, <1>6, <1>7, <1>8 DEF LinkInv

-----------------------------------------------------------------------------
(* The client initialises the badge *)

(* Nobody is slow and nobody is absent: a read that finds nothing finds    *)
(* nothing on its way either                                               *)
LEMMA Waits ==
    ASSUME Env = {}, NEW n, Read(n), app = "command"
    PROVE  Len(tx) >= n \/ rx = <<>>
BY DEF Read, LateAnswer, Quiet

(* A write on an empty line *)
LEMMA Appended ==
    ASSUME NEW bytes \in Seq(Byte), Write(bytes), rx = <<>>
    PROVE  rx' = bytes
BY ConcatEmptySeq DEF Write

(* A reset more completes a leftover by a byte *)
LEMMA LeftoverGrows ==
    ASSUME Mild, BadgeTypeOK, NEW s \in Leftovers, InLeftover(s), rx = <<>>,
           rx' = << 0 >>, cmd_buf' = cmd_buf
    PROVE  /\ InLeftover(s)' /\ Len(cmd_buf) \in Nat /\ Len(cmd_buf) >= 1
           /\ Len(cmd_buf) < ByteMod
           /\ (Len(cmd_buf) + Len(rx))' = Len(cmd_buf) + 1
<1>1. s \in Seq(Byte) /\ s # <<>> /\ Len(s) \in Nat /\ Len(s) >= 1
  <2>1. s \in Seq(Byte) /\ s # <<>>  BY LinkAssumption DEF InLeftover
  <2> QED BY <2>1, EmptySeq
<1>2. s[1] \in 1 .. ByteMod - 2 /\ ByteMod \in Nat  BY <1>1, Bytes DEF Mild
<1>3. Len(cmd_buf) < s[1] + 2  BY DEF InLeftover
<1>4. PICK n \in Len(s) .. s[1] + 2 : cmd_buf \o rx = Padded(s, n)  BY DEF InLeftover
<1>5. cmd_buf \in Seq(Byte)  BY DEF BadgeTypeOK
<1>6. n \in Nat /\ n >= Len(s)  BY <1>1, <1>2
<1>7. cmd_buf = Padded(s, n)  BY <1>4, <1>5, ConcatEmptySeq
<1>8. Len(cmd_buf) = n  BY <1>1, <1>6, <1>7, PaddedIs
<1>9. cmd_buf \o << 0 >> = Padded(s, n + 1)  BY <1>1, <1>6, <1>7, PaddedGrows
<1>10. n + 1 \in Len(s) .. s[1] + 2  BY <1>1, <1>2, <1>3, <1>6, <1>8
<1>11. InLeftover(s)'  BY <1>1, <1>3, <1>9, <1>10 DEF InLeftover
<1>12. Len(<< 0 >>) = 1  OBVIOUS
<1> QED BY <1>1, <1>2, <1>3, <1>6, <1>8, <1>11, <1>12

(* init keeps the invariant: its first reset, the answer it drops, and what it
   reads until a reset is acknowledged *)
LEMMA InitCallKeeps ==
    ASSUME Env = {}, Mild, Started, LinkInv, InitCall
    PROVE  LinkInv'
<1>1. /\ c \in Resting /\ app = "command" /\ app' = app /\ cmd_buf' = cmd_buf
      /\ c' = "discard" /\ trials' = 0 /\ call' = <<>>
      /\ Write(<<TYPE_RESET>>)
      /\ IF c = "new" THEN Quiet /\ tx' = <<>> ELSE UNCHANGED tx
  BY DEF InitCall
<1>2. /\ AppInv' /\ NewInv' /\ CallInv' /\ RestInv' /\ CallAnswered' /\ RaisesForAReason'
  BY <1>1 DEF AppInv, NewInv, CallInv, RestInv, CallAnswered, RaisesForAReason
<1>3. /\ c \in {"ready", "ok", "raised"} => Clean
      /\ c = "new" => rx = <<>>
  BY <1>1 DEF LinkInv, RestInv, Quiet, Resting
<1>4. rx = <<>> /\ tx' = <<>>  BY <1>1, <1>3 DEF Clean, Idle, Resting
<1>5. rx' = << 0 >>  BY <1>1, <1>4, Appended, ResetIsByte DEF TYPE_RESET
<1>6. ByteMod \in Nat /\ 0 < ByteMod  BY Bytes
<1>7. CASE cmd_buf = <<>>
  <2>1. InReset'  BY <1>1, <1>5, <1>7 DEF InReset
  <2> QED BY <1>1, <1>2, <1>4, <1>6, <2>1 DEF LinkInv, InitInv
<1>8. CASE \E s \in Leftovers : InLeftover(s)
  <2>1. PICK s \in Leftovers : InLeftover(s)  BY <1>8
  <2>2. /\ InLeftover(s)' /\ Len(cmd_buf) \in Nat /\ Len(cmd_buf) >= 1
        /\ (Len(cmd_buf) + Len(rx))' = Len(cmd_buf) + 1
    BY <1>1, <1>4, <1>5, <2>1, LeftoverGrows DEF Started, TypeOK
  <2>3. (trials + 2 <= Len(cmd_buf) + Len(rx))'  BY <1>1, <2>2
  <2> QED BY <1>1, <1>2, <1>4, <2>1, <2>2, <2>3 DEF LinkInv, InitInv
<1>9. cmd_buf = <<>> \/ \E s \in Leftovers : InLeftover(s)
  <2>1. CASE c = "new"
    <3>1. ~InReset /\ \A p : ~InFrame(p)
      <4>1. rx # << 0 >>  BY <1>4
      <4> QED BY <1>4, <4>1 DEF InReset, InFrame
    <3> QED BY <2>1, <3>1 DEF LinkInv, NewInv, Idle
  <2>2. CASE c # "new"  BY <1>1, <1>3, <2>2 DEF Clean, Idle, Resting
  <2> QED BY <2>1, <2>2
<1> QED BY <1>7, <1>8, <1>9

(* While init waits, the user is there *)
LEMMA Attended ==
    ASSUME Started, LinkInv, c \notin Resting
    PROVE  app = "command"
BY DEF Started, TypeOK, BadgeTypeOK, LinkInv, AppInv

LEMMA InitDiscardKeeps ==
    ASSUME Env = {}, Started, LinkInv, InitDiscard
    PROVE  LinkInv'
<1>1. /\ c = "discard" /\ Read(Len(ResetResp)) /\ c' = "ack"
      /\ UNCHANGED <<app, cmd_buf, rx, log, trials, call, need, got>>
  BY DEF InitDiscard
<1>2. app = "command"  BY <1>1, Attended DEF Resting
<1>3. tx \in Seq(Byte) /\ ResetResp \in Seq(Byte) /\ Len(ResetResp) = 3
  BY ResetRespIs DEF Started, TypeOK, BadgeTypeOK
<1>4. Len(tx) >= 3 \/ rx = <<>>  BY <1>1, <1>2, <1>3, Waits
<1>5. Len(tx) <= 3 => tx' = <<>>  BY <1>1, <1>3, ReadIs
<1>6. /\ AppInv' /\ NewInv' /\ CallInv' /\ RestInv' /\ CallAnswered' /\ RaisesForAReason'
  BY <1>1, <1>2 DEF AppInv, NewInv, CallInv, RestInv, CallAnswered, RaisesForAReason
<1>7. trials = 0 /\ call = <<>>  BY <1>1 DEF LinkInv, InitInv
<1>8. CASE /\ tx = <<>> /\ \E s \in Leftovers : InLeftover(s)
           /\ trials + 2 <= Len(cmd_buf) + Len(rx)
  <2>1. Len(tx) = 0  BY <1>8
  <2>2. tx' = <<>>  BY <1>5, <2>1
  <2>3. \E s \in Leftovers : InLeftover(s)'  BY <1>1, <1>8 DEF InLeftover
  <2> QED BY <1>1, <1>6, <1>7, <1>8, <2>2, <2>3 DEF LinkInv, InitInv
<1>9. CASE tx = <<>> /\ InReset
  <2>1. Len(tx) = 0 /\ rx # <<>>  BY <1>9 DEF InReset
  <2> QED BY <1>4, <2>1
<1>10. CASE Idle /\ (tx = ResetResp \/ \E r \in Plain : tx = Sent(r))
  <2>1. Len(tx) = 3  BY <1>3, <1>10, PlainIs
  <2>2. tx' = <<>>  BY <1>5, <2>1
  <2>3. Clean'  BY <1>1, <1>10, <2>2 DEF Clean, Idle
  <2> QED BY <1>1, <1>6, <1>7, <2>3 DEF LinkInv, InitInv
<1> QED BY <1>1, <1>8, <1>9, <1>10 DEF LinkInv, InitInv

LEMMA InitAckKeeps ==
    ASSUME Env = {}, Mild, Started, LinkInv, InitAck
    PROVE  LinkInv'
<1>1. /\ c = "ack" /\ Read(Len(ResetResp))
      /\ IF Arrived(Len(ResetResp)) = ResetResp
           THEN c' = "ready" /\ UNCHANGED <<rx, trials>>
           ELSE /\ Write(<<TYPE_RESET>>)
                /\ trials' = trials + 1
                /\ c' = IF trials' = ByteMod THEN "raised" ELSE "ack"
      /\ UNCHANGED <<app, cmd_buf, log, call, need, got>>
  BY DEF InitAck
<1>2. app = "command"  BY <1>1, Attended DEF Resting
<1>3. tx \in Seq(Byte) /\ ResetResp \in Seq(Byte) /\ Len(ResetResp) = 3
  BY ResetRespIs DEF Started, TypeOK, BadgeTypeOK
<1>4. Len(tx) >= 3 \/ rx = <<>>  BY <1>1, <1>2, <1>3, Waits
<1>5. Len(tx) <= 3 => tx' = <<>> /\ Arrived(Len(ResetResp)) = tx  BY <1>1, <1>3, ReadIs
<1>6. call = <<>>  BY <1>1 DEF LinkInv, InitInv
<1>7. c' \in {"ready", "raised", "ack"} /\ call' = <<>> /\ app' = "command"
  BY <1>1, <1>2, <1>6
<1>8. /\ AppInv' /\ NewInv' /\ RaisesForAReason' /\ CallAnswered'
  BY <1>7 DEF AppInv, NewInv, CallAnswered, RaisesForAReason
<1>9. trials \in Nat /\ ByteMod \in Nat /\ ByteMod >= 8  BY Bytes DEF Started, TypeOK
<1>10. ASSUME rx = <<>>, tx' = <<>>, Arrived(Len(ResetResp)) # ResetResp, trials + 1 < ByteMod
       PROVE  c' = "ack" /\ trials' = trials + 1 /\ rx' = << 0 >>
  <2>1. Write(<<TYPE_RESET>>) /\ trials' = trials + 1
        /\ c' = IF trials' = ByteMod THEN "raised" ELSE "ack"
    BY <1>1, <1>10
  <2>2. rx' = << 0 >>  BY <1>10, <2>1, Appended, ResetIsByte DEF TYPE_RESET
  <2>3. c' = "ack"  BY <1>9, <1>10, <2>1
  <2> QED BY <2>1, <2>2, <2>3
<1>11. CASE /\ tx = <<>> /\ \E s \in Leftovers : InLeftover(s)
            /\ trials + 2 <= Len(cmd_buf) + Len(rx)
  <2>1. PICK s \in Leftovers : InLeftover(s)  BY <1>11
  <2>2. Len(tx) = 0  BY <1>11
  <2>3. rx = <<>> /\ tx' = <<>> /\ Arrived(Len(ResetResp)) = tx  BY <1>4, <1>5, <2>2
  <2>4. Arrived(Len(ResetResp)) # ResetResp
    <3>1. Len(tx) # Len(ResetResp)  BY <1>3, <2>2
    <3> QED BY <2>3, <3>1
  <2>5. rx' = << 0 >>  BY <1>1, <2>3, <2>4, Appended, ResetIsByte DEF TYPE_RESET
  <2>6. /\ InLeftover(s)' /\ Len(cmd_buf) \in Nat /\ Len(cmd_buf) < ByteMod
        /\ (Len(cmd_buf) + Len(rx))' = Len(cmd_buf) + 1
    BY <1>1, <2>1, <2>3, <2>5, LeftoverGrows DEF Started, TypeOK
  <2>7. Len(rx) = 0  BY <2>3
  <2>8. trials + 2 <= Len(cmd_buf)  BY <1>11, <2>6, <2>7
  <2>9. trials + 1 < ByteMod  BY <1>9, <2>6, <2>8
  <2>10. c' = "ack" /\ trials' = trials + 1  BY <1>10, <2>3, <2>4, <2>9
  <2>11. (trials + 2 <= Len(cmd_buf) + Len(rx))'  BY <1>9, <2>6, <2>8, <2>10
  <2>12. InitInv'  BY <1>6, <1>7, <2>1, <2>3, <2>6, <2>10, <2>11 DEF InitInv
  <2>13. CallInv' /\ RestInv'  BY <2>10 DEF CallInv, RestInv
  <2> QED BY <1>8, <2>12, <2>13 DEF LinkInv
<1>12. CASE tx = <<>> /\ InReset
  <2>1. Len(tx) = 0 /\ rx # <<>>  BY <1>12 DEF InReset
  <2> QED BY <1>4, <2>1
<1>13. CASE Idle /\ trials < ByteMod - 1
            /\ (tx = <<>> \/ tx = ResetResp \/ \E r \in Plain : tx = Sent(r))
  <2>1. Len(tx) <= 3
    <3>1. CASE tx = <<>>
      <4>1. Len(tx) = 0  BY <3>1
      <4> QED BY <4>1
    <3>2. CASE tx = ResetResp
      <4>1. Len(tx) = 3  BY <1>3, <3>2
      <4> QED BY <4>1
    <3>3. CASE \E r \in Plain : tx = Sent(r)
      <4>1. Len(tx) = 3  BY <3>3, PlainIs
      <4> QED BY <4>1
    <3> QED BY <1>13, <3>1, <3>2, <3>3
  <2>2. rx = <<>> /\ tx' = <<>>  BY <1>5, <1>13, <2>1 DEF Idle
  <2>3. CASE Arrived(Len(ResetResp)) = ResetResp
    <3>1. c' = "ready" /\ Clean'  BY <1>1, <1>13, <2>2, <2>3 DEF Clean, Idle
    <3>2. InitInv' /\ CallInv' /\ RestInv'  BY <3>1 DEF InitInv, CallInv, RestInv
    <3> QED BY <1>8, <3>2 DEF LinkInv
  <2>4. CASE Arrived(Len(ResetResp)) # ResetResp
    <3>1. trials + 1 < ByteMod  BY <1>9, <1>13
    <3>2. c' = "ack" /\ trials' = trials + 1 /\ rx' = << 0 >>  BY <1>10, <2>2, <2>4, <3>1
    <3>3. InReset'  BY <1>1, <1>13, <3>2 DEF InReset, Idle
    <3>4. trials' < ByteMod  BY <3>1, <3>2
    <3>5. InitInv'  BY <1>6, <1>7, <2>2, <3>2, <3>3, <3>4 DEF InitInv
    <3>6. CallInv' /\ RestInv'  BY <3>2 DEF CallInv, RestInv
    <3> QED BY <1>8, <3>5, <3>6 DEF LinkInv
  <2> QED BY <2>3, <2>4
<1>14. CASE Idle /\ tx = ResetResp
  <2>1. Len(tx) = 3  BY <1>3, <1>14
  <2>2. tx' = <<>> /\ Arrived(Len(ResetResp)) = ResetResp
    <3>1. tx' = <<>> /\ Arrived(Len(ResetResp)) = tx  BY <1>5, <2>1
    <3> QED BY <1>14, <3>1
  <2>3. c' = "ready" /\ Clean'  BY <1>1, <1>14, <2>2 DEF Clean, Idle
  <2>4. InitInv' /\ CallInv' /\ RestInv'  BY <2>3 DEF InitInv, CallInv, RestInv
  <2> QED BY <1>8, <2>4 DEF LinkInv
<1>15. 0 < ByteMod - 1  BY <1>9
<1> QED BY <1>1, <1>11, <1>12, <1>13, <1>14, <1>15 DEF LinkInv, InitInv, Clean

-----------------------------------------------------------------------------
(* The client calls *)

(* The answers a call may get *)
Theirs == Responses(call) \cup {Response(RESP_OVERFLOW, <<>>)}

(* They are responses *)
LEMMA TheirsAre ==
    ASSUME call \in Calls, NEW r \in Theirs
    PROVE  Good(r)
<1>1. call \in Seq(Byte)  BY FrameIs
<1>2. RESP_OVERFLOW \in Byte  BY Bytes DEF RESP_OVERFLOW
<1>3. Good(Response(RESP_OVERFLOW, <<>>))  BY <1>2, PlainIs DEF Plain
<1> QED BY <1>1, <1>3, ResponsesAre DEF Theirs

(* The answer to a call says how long it is, or is too long to say *)
LEMMA Truthful ==
    ASSUME Fitting, call \in Calls, NEW r \in Responses(call)
    PROVE  /\ Good(r)
           /\ r.len = IF 1 + Len(r.data) = ByteMod THEN 0 ELSE 1 + Len(r.data)
<1>1. r \in Theirs /\ Good(r)  BY TheirsAre DEF Theirs
<1>2. PICK n : n = Len(r.data)  OBVIOUS
<1>3. n \in Nat /\ n < ByteMod /\ ByteMod \in Nat /\ ByteMod >= 8  BY <1>1, <1>2, Bytes DEF Good
<1>4. r.len = (1 + n) % ByteMod  BY <1>2 DEF Fitting
<1>5. (1 + n) % ByteMod = IF 1 + n = ByteMod THEN 0 ELSE 1 + n
  <2>1. CASE 1 + n = ByteMod  BY <1>3, <2>1
  <2>2. CASE 1 + n < ByteMod  BY <1>3, <2>2
  <2> QED BY <1>3, <2>1, <2>2
<1> QED BY <1>1, <1>2, <1>4, <1>5

(* A payload with its checksum, taken apart *)
LEMMA WithoutCrc ==
    ASSUME NEW told \in Seq(Byte), NEW x \in Byte
    PROVE  /\ told \o <<x>> \in Seq(Byte) /\ told \o <<x>> # <<>>
           /\ Front(told \o <<x>>) = told /\ Last(told \o <<x>>) = x
           /\ Len(told) >= 1 => (told \o <<x>>)[1] = told[1]
<1>1. PICK z : z = <<x>>  OBVIOUS
<1>2. z \in Seq(Byte) /\ Len(z) = 1 /\ z[1] = x  BY <1>1
<1>3. PICK w : w = told \o z  OBVIOUS
<1>4. PICK n : n = Len(told)  OBVIOUS
<1>5. /\ w \in Seq(Byte) /\ n \in Nat /\ Len(w) = n + 1
      /\ \A i \in 1 .. n : w[i] = told[i]
      /\ \A i \in 1 .. 1 : w[n + i] = x
  <2>1. /\ told \o z \in Seq(Byte) /\ Len(told \o z) = Len(told) + Len(z) /\ Len(told) \in Nat
        /\ \A i \in 1 .. Len(told) : (told \o z)[i] = told[i]
        /\ \A i \in 1 .. Len(z) : (told \o z)[Len(told) + i] = z[i]
    BY <1>2, ConcatParts
  <2>2. \A i \in 1 .. 1 : i = 1  OBVIOUS
  <2> QED BY <1>2, <1>3, <1>4, <2>1, <2>2
<1>6. Last(w) = x
  <2>1. 1 \in 1 .. 1  OBVIOUS
  <2> QED BY <1>5, <2>1 DEF Last
<1>7. Front(w) = told
  <2>1. \A i \in 1 .. n : i \in 1 .. Len(w)  BY <1>5
  <2>2. \A i \in 1 .. n : w[i] \in Byte  BY <1>5, <2>1, ElementOfSeq
  <2>3. /\ SubSeq(w, 1, n) \in Seq(Byte)
        /\ Len(SubSeq(w, 1, n)) = IF 1 <= n THEN n - 1 + 1 ELSE 0
        /\ \A i \in 1 .. n - 1 + 1 : SubSeq(w, 1, n)[i] = w[1 + i - 1]
    BY <1>5, <2>2, SubSeqProperties
  <2>4. Len(SubSeq(w, 1, n)) = n  BY <1>5, <2>3
  <2>5. ASSUME NEW i \in 1 .. n PROVE SubSeq(w, 1, n)[i] = told[i]
    <3>1. i \in 1 .. n - 1 + 1 /\ 1 + i - 1 = i  BY <1>5
    <3> QED BY <1>5, <2>3, <3>1
  <2>6. SubSeq(w, 1, n) = told  BY <1>4, <2>3, <2>4, <2>5, SeqEqual
  <2>7. Len(w) - 1 = n  BY <1>5
  <2> QED BY <2>6, <2>7 DEF Front
<1>8. w # <<>>
  <2>1. Len(w) # Len(<<>>)  BY <1>5
  <2> QED BY <2>1, Zenon
<1>9. n >= 1 => w[1] = told[1]  BY <1>5
<1> QED BY <1>1, <1>3, <1>4, <1>5, <1>6, <1>7, <1>8, <1>9

(* A call starts on a clean line *)
LEMMA CallKeeps ==
    ASSUME Env = {}, LinkInv, Call
    PROVE  LinkInv'
<1>1. /\ c \in Resting \ {"new"} /\ app = "command" /\ app' = app
      /\ call' \in Calls /\ Write(Frame(call')) /\ c' = "head" /\ log' = <<>>
      /\ cmd_buf' = cmd_buf /\ tx' = tx
  BY DEF Call
<1>2. cmd_buf = <<>> /\ rx = <<>> /\ tx = <<>>
  BY <1>1 DEF Resting, LinkInv, RestInv, Clean, Idle
<1>3. PICK p \in Calls : p = call'  BY <1>1
<1>4. Frame(p) \in Seq(Byte) /\ Len(Frame(p)) >= 3  BY FrameIs
<1>5. Write(Frame(p))  BY <1>1, <1>3
<1>6. rx' = Frame(p)  BY <1>2, <1>4, <1>5, Appended
<1>7. rx' # <<>>
  <2>1. Len(rx') # Len(<<>>)  BY <1>4, <1>6
  <2> QED BY <2>1, Zenon
<1>8. cmd_buf' \o rx' = Frame(p)  BY <1>1, <1>2, <1>4, <1>6, ConcatEmptySeq
<1>9. InFrame(call)'  BY <1>1, <1>3, <1>7, <1>8 DEF InFrame
<1>10. CallInv'  BY <1>1, <1>2, <1>9 DEF CallInv
<1> QED BY <1>1, <1>10 DEF LinkInv, AppInv, NewInv, InitInv, RestInv, CallAnswered, RaisesForAReason

(* _get_resp reads the length *)
LEMMA GetHeadKeeps ==
    ASSUME Env = {}, Fitting, Started, LinkInv, GetHead
    PROVE  LinkInv'
<1>1. /\ c = "head" /\ Read(1)
      /\ IF Arrived(1) = <<>>
           THEN c' = "raised" /\ UNCHANGED need
           ELSE c' = "body" /\ need' = Head(tx) + 1
      /\ UNCHANGED <<app, cmd_buf, rx, log, trials, call, got>>
  BY DEF GetHead
<1>2. app = "command"  BY <1>1, Attended DEF Resting
<1>3. Len(tx) >= 1 \/ rx = <<>>  BY <1>1, <1>2, Waits
<1>4. call \in Calls  BY <1>1 DEF LinkInv, CallInv
<1>5. ~(InFrame(call) /\ tx = <<>>)
  <2>1. SUFFICES ASSUME rx # <<>>, tx = <<>> PROVE FALSE  BY DEF InFrame
  <2>2. Len(tx) = 0  BY <2>1
  <2> QED BY <1>3, <2>1, <2>2
<1>6. PICK r \in Theirs : Idle /\ tx = Sent(r) /\ Logged(r)
  BY <1>1, <1>5 DEF LinkInv, CallInv, Theirs
<1>7. Good(r)  BY <1>4, TheirsAre
<1>8. tx \in Seq(Byte)  BY DEF Started, TypeOK, BadgeTypeOK
<1>9. Idle' /\ Logged(r)'  BY <1>1, <1>6, Zenon DEF Idle, Logged
<1>10. CASE Sent(r) = <<>>
  <2>1. Len(tx) = 0  BY <1>6, <1>10
  <2>2. Arrived(1) = <<>> /\ tx' = <<>>  BY <1>1, <1>6, <1>8, <1>10, <2>1, ReadIs
  <2>3. c' = "raised" /\ Clean'  BY <1>1, <1>9, <2>2 DEF Clean
  <2>4. r.len = ByteMod - 2
    <3>1. r.len \in Nat /\ r.len < ByteMod /\ ByteMod \in Nat /\ r.len \in Byte
      BY <1>7, Bytes DEF Good
    <3>2. ASSUME r.len <= ByteMod - 3 PROVE FALSE
      <4>1. PICK l, told, x : l = r.len /\ told = Told(r) /\ x = Crc(told)  OBVIOUS
      <4>2. told \in Seq(Byte) /\ x \in Byte /\ l \in Byte  BY <1>7, <3>1, <4>1, ToldIs
      <4>3. told \o <<x>> \in Seq(Byte)  BY <4>2, WithoutCrc
      <4>4. <<l>> \in Seq(Byte) /\ Len(<<l>>) = 1  BY <4>2
      <4>5. Sent(r) = <<l>> \o (told \o <<x>>)  BY <1>7, <3>2, <4>1, SentIs
      <4>6. <<l>> = <<>>  BY <1>10, <4>3, <4>4, <4>5, ConcatEqualIffEmpty
      <4> QED BY <4>6
    <3>3. ASSUME r.len = ByteMod - 1 PROVE FALSE
      <4>1. Sent(r) = <<r.len>>  BY <1>7, <3>3, SentIs
      <4> QED BY <1>10, <4>1
    <3> QED BY <3>1, <3>2, <3>3
  <2>5. RaisesForAReason'
    <3>1. CASE log = <<>> /\ Len(call) = ByteMod - 1
      BY <1>1, <3>1 DEF RaisesForAReason
    <3>2. CASE log = <<[payload |-> call, answer |-> r]>> /\ r \in Responses(call)
      <4>1. PICK n : n = Len(r.data)  OBVIOUS
      <4>2. n \in Nat /\ ByteMod \in Nat /\ ByteMod >= 8
            /\ r.len = IF 1 + n = ByteMod THEN 0 ELSE 1 + n
        BY <1>4, <1>7, <3>2, <4>1, Truthful, Bytes DEF Good
      <4>3. n + 1 >= ByteMod - 2  BY <2>4, <4>2
      <4>4. log' = <<[payload |-> call', answer |-> r]>>  BY <1>1, <3>2
      <4>5. Len(log') = 1 /\ log'[1].payload = call' /\ log'[1].answer = r  BY <4>4
      <4> QED BY <4>1, <4>3, <4>5 DEF RaisesForAReason
    <3> QED BY <1>6, <3>1, <3>2 DEF Logged
  <2> QED BY <1>1, <1>2, <1>4, <2>3, <2>5
          DEF LinkInv, AppInv, NewInv, InitInv, CallInv, RestInv, CallAnswered
<1>11. CASE Sent(r) # <<>>
  <2>1. Arrived(1) # <<>> /\ tx' = Tail(Sent(r))  BY <1>1, <1>6, <1>8, <1>11, ReadIs
  <2>2. c' = "body" /\ need' = r.len + 1  BY <1>1, <1>6, <1>7, <1>11, <2>1, SentHead
  <2>3. CallInv'
    <3>1. r \in Responses(call)' \cup {Response(RESP_OVERFLOW, <<>>)}  BY <1>1 DEF Theirs
    <3> QED BY <1>1, <1>4, <1>9, <1>11, <2>1, <2>2, <3>1 DEF CallInv
  <2> QED BY <1>2, <1>1, <2>2, <2>3
          DEF LinkInv, AppInv, NewInv, InitInv, RestInv, CallAnswered, RaisesForAReason
<1> QED BY <1>10, <1>11

(* _get_resp reads the rest, and it is the answer to the call or none *)
LEMMA GetBodyKeeps ==
    ASSUME Fitting, Started, LinkInv, GetBody
    PROVE  LinkInv'
<1>1. /\ c = "body" /\ Read(need)
      /\ IF Accepted(Arrived(need))
           THEN c' = "ok" /\ got' = Tail(Front(Arrived(need)))
           ELSE c' = "raised" /\ UNCHANGED got
      /\ UNCHANGED <<app, cmd_buf, rx, log, trials, call>>
  BY DEF GetBody
<1>2. app = "command" /\ call \in Calls
  BY <1>1, Attended DEF Resting, LinkInv, CallInv
<1>3. PICK r \in Theirs :
         Idle /\ Logged(r) /\ Sent(r) # <<>> /\ tx = Tail(Sent(r)) /\ need = r.len + 1
  BY <1>1 DEF LinkInv, CallInv, Theirs
<1>4. Good(r)  BY <1>2, TheirsAre
<1>5. PICK told, x : told = Told(r) /\ x = Crc(told)  OBVIOUS
<1>6. told \in Seq(Byte) /\ Len(told) = r.len /\ x \in Byte
      /\ (r.len >= 1 => told[1] = r.type)
      /\ (r.len = 1 + Len(r.data) => told = <<r.type>> \o r.data)
  BY <1>4, <1>5, ToldIs
<1>7. /\ Len(tx) <= need
      /\ r.len <= ByteMod - 3 => tx = told \o <<x>>
      /\ r.len > ByteMod - 3 => tx = <<>>
  BY <1>3, <1>4, <1>5, BodyIs
<1>8. /\ r.len \in Nat /\ r.len < ByteMod /\ ByteMod \in Nat /\ ByteMod >= 8
      /\ r.type \in Byte /\ r.data \in Seq(Byte)
  BY <1>4, Bytes DEF Good
<1>9. need \in Nat  BY <1>3, <1>8
<1>10. tx \in Seq(Byte)  BY DEF Started, TypeOK, BadgeTypeOK
<1>11. Arrived(need) = tx /\ tx' = <<>>  BY <1>1, <1>7, <1>9, <1>10, ReadIs
<1>12. Clean'  BY <1>1, <1>3, <1>11 DEF Clean, Idle
<1>13. c' \in {"ok", "raised"}  BY <1>1
<1>14. AppInv' /\ NewInv' /\ InitInv' /\ CallInv' /\ RestInv'
  BY <1>1, <1>2, <1>12, <1>13 DEF AppInv, NewInv, InitInv, CallInv, RestInv
<1>15. CASE Accepted(tx)
  <2>1. c' = "ok" /\ got' = Tail(Front(tx))  BY <1>1, <1>11, <1>15
  <2>2. tx # <<>> /\ Front(tx) # <<>> /\ tx[1] = RESP_OK
    BY <1>10, <1>15, AcceptedIs DEF Accepted
  <2>3. r.len <= ByteMod - 3 /\ tx = told \o <<x>>  BY <1>7, <1>8, <2>2
  <2>4. Front(tx) = told /\ (Len(told) >= 1 => tx[1] = told[1])  BY <1>6, <2>3, WithoutCrc
  <2>5. r.len >= 1
    <3>1. told # <<>>  BY <2>2, <2>4
    <3>2. Len(told) # 0  BY <1>6, <3>1, EmptySeq
    <3> QED BY <1>6, <1>8, <3>2
  <2>6. r.type = RESP_OK  BY <1>6, <2>2, <2>4, <2>5
  <2>7. log = <<[payload |-> call, answer |-> r]>> /\ r \in Responses(call)
    <3>1. CASE r = Response(RESP_OVERFLOW, <<>>)
      <4>1. r.type = RESP_OVERFLOW  BY <3>1 DEF Response
      <4> QED BY <2>6, <4>1 DEF RESP_OK, RESP_OVERFLOW
    <3> QED BY <1>3, <3>1 DEF Logged
  <2>8. PICK d, n : d = r.data /\ n = Len(d)  OBVIOUS
  <2>9. n \in Nat /\ r.len = IF 1 + n = ByteMod THEN 0 ELSE 1 + n
    BY <1>2, <1>8, <2>7, <2>8, Truthful
  <2>10. r.len = 1 + n  BY <1>8, <2>5, <2>9
  <2>11. told = <<r.type>> \o d  BY <1>6, <2>8, <2>10
  <2>12. Tail(told) = d
    <3>1. PICK t \in Byte : t = r.type  BY <1>8
    <3>2. d \in Seq(Byte)  BY <1>8, <2>8
    <3>3. Tail(<<t>> \o d) = d  BY <3>2
    <3> QED BY <2>11, <3>1, <3>3
  <2>13. got' = r.data  BY <2>1, <2>4, <2>8, <2>12
  <2>14. r = Response(RESP_OK, r.data)
    <3>1. (1 + n) % ByteMod = 1 + n  BY <1>8, <2>3, <2>9, <2>10
    <3>2. r.len = (1 + Len(r.data)) % ByteMod  BY <2>8, <2>10, <3>1
    <3>3. r = [type |-> r.type, data |-> r.data, len |-> r.len]  BY <1>4 DEF Good
    <3> QED BY <2>6, <3>2, <3>3, Zenon DEF Response
  <2>15. log' = <<[payload |-> call', answer |-> Response(RESP_OK, got')]>>
    BY <1>1, <2>7, <2>13, <2>14, Zenon
  <2> QED BY <1>14, <2>1, <2>15 DEF LinkInv, CallAnswered, RaisesForAReason
<1>16. CASE ~Accepted(tx)
  <2>1. c' = "raised"  BY <1>1, <1>11, <1>16
  <2>2. RaisesForAReason'
    <3>1. CASE log = <<>> /\ Len(call) = ByteMod - 1
      BY <1>1, <3>1 DEF RaisesForAReason
    <3>2. CASE log = <<[payload |-> call, answer |-> r]>> /\ r \in Responses(call)
      <4>1. PICK n : n = Len(r.data)  OBVIOUS
      <4>2. n \in Nat /\ r.len = IF 1 + n = ByteMod THEN 0 ELSE 1 + n
        BY <1>2, <1>8, <3>2, <4>1, Truthful
      <4>3. r.type # RESP_OK \/ n + 1 >= ByteMod - 2
        <5>1. SUFFICES ASSUME r.type = RESP_OK, n + 1 < ByteMod - 2 PROVE FALSE
          BY <1>8, <4>2
        <5>2. r.len = 1 + n /\ r.len <= ByteMod - 3 /\ r.len >= 1  BY <1>8, <4>2, <5>1
        <5>3. tx = told \o <<x>> /\ told[1] = RESP_OK /\ Len(told) >= 1
          BY <1>6, <1>7, <5>1, <5>2
        <5>4. tx # <<>> /\ Front(tx) = told /\ Last(tx) = x /\ tx[1] = told[1]
          BY <1>6, <5>3, WithoutCrc
        <5>5. Accepted(tx)  BY <1>5, <5>3, <5>4, Zenon DEF Accepted
        <5> QED BY <1>16, <5>5
      <4>4. log' = <<[payload |-> call', answer |-> r]>>  BY <1>1, <3>2
      <4>5. Len(log') = 1 /\ log'[1].payload = call' /\ log'[1].answer = r  BY <4>4
      <4> QED BY <4>1, <4>3, <4>5 DEF RaisesForAReason
    <3> QED BY <1>3, <3>1, <3>2 DEF Logged
  <2> QED BY <1>14, <2>1, <2>2 DEF LinkInv, CallAnswered
<1> QED BY <1>15, <1>16

-----------------------------------------------------------------------------
(* The client is killed; the user comes and goes *)

(* A client that is killed leaves one thing behind *)
LEMMA KillKeeps ==
    ASSUME Env = {}, Mild, Started, LinkInv, Kill
    PROVE  LinkInv'
<1>1. /\ c # "new" /\ app = "command" /\ app' = app /\ cmd_buf' = cmd_buf
      /\ c' = "new" /\ call' = <<>>
      /\ (c \in Resting /\ \E sent \in Leftovers : Write(sent)) \/ UNCHANGED rx
  BY DEF Kill
<1>2. /\ AppInv' /\ InitInv' /\ CallInv' /\ RestInv' /\ CallAnswered' /\ RaisesForAReason'
  BY <1>1 DEF AppInv, InitInv, CallInv, RestInv, CallAnswered, RaisesForAReason
<1>3. c \in Resting => cmd_buf = <<>> /\ rx = <<>>
  BY <1>1 DEF Resting, LinkInv, RestInv, Clean, Idle
<1>4. CASE c \in Resting /\ \E sent \in Leftovers : Write(sent)
  <2>1. PICK s \in Leftovers : Write(s)  BY <1>4
  <2>2. s \in Seq(Byte)  BY LinkAssumption
  <2>3. rx' = s /\ cmd_buf' = <<>>  BY <1>1, <1>3, <1>4, <2>1, <2>2, Appended
  <2>4. CASE s = <<>>  BY <1>2, <2>3, <2>4 DEF LinkInv, NewInv, Idle
  <2>5. CASE s # <<>>
    <3>1. s[1] \in 1 .. ByteMod - 2 /\ Len(s) <= s[1] + 2 /\ ByteMod \in Nat
      BY <2>5, Bytes DEF Mild
    <3>2. Len(s) \in Nat  BY <2>2
    <3>3. Len(s) \in Len(s) .. s[1] + 2 /\ 0 < s[1] + 2  BY <3>1, <3>2
    <3>4. cmd_buf' \o rx' = Padded(s, Len(s))  BY <2>2, <2>3, ConcatEmptySeq, PaddedGrows
    <3>5. Len(cmd_buf') = 0  BY <2>3
    <3>6. InLeftover(s)'  BY <2>5, <3>3, <3>4, <3>5 DEF InLeftover
    <3> QED BY <1>2, <3>6 DEF LinkInv, NewInv
  <2> QED BY <2>4, <2>5
<1>5. CASE UNCHANGED rx
  <2>1. Idle \/ InReset \/ (\E p \in Calls : InFrame(p)) \/ \E s \in Leftovers : InLeftover(s)
    <3>1. CASE c \in Resting  BY <1>3, <3>1 DEF Idle
    <3>2. CASE c \in {"discard", "ack"}  BY <3>2 DEF LinkInv, InitInv, Clean
    <3>3. CASE c \in {"head", "body"}  BY <3>3 DEF LinkInv, CallInv
    <3> QED BY <3>1, <3>2, <3>3 DEF Started, TypeOK
  <2>2. NewInv'  BY <1>1, <1>5, <2>1 DEF NewInv, Idle, InReset, InFrame, InLeftover
  <2> QED BY <1>2, <2>2 DEF LinkInv
<1> QED BY <1>1, <1>4, <1>5

(* The user comes and goes between calls only *)
LEMMA UserKeeps ==
    ASSUME Env = {}, LinkInv, User
    PROVE  LinkInv'
<1>1. UNCHANGED <<c, trials, call, need, got, rx, tx, log>>
  BY DEF User, Enter, Leave, clientVars
<1>2. /\ c \in Resting /\ rx = <<>>
      /\ \/ app' = "command" /\ cmd_buf' = <<>>
         \/ app' = "menu" /\ cmd_buf' = cmd_buf
  BY DEF User, Enter, Leave, LinkInv, AppInv
<1>3. AppInv' /\ InitInv' /\ CallInv' /\ CallAnswered' /\ RaisesForAReason'
  BY <1>1, <1>2
     DEF Resting, LinkInv, AppInv, InitInv, CallInv, CallAnswered, RaisesForAReason
<1>4. CASE cmd_buf' = <<>>
  <2>1. Idle'  BY <1>1, <1>2, <1>4 DEF Idle
  <2>2. NewInv'  BY <2>1 DEF NewInv
  <2>3. RestInv'  BY <1>1, <2>1 DEF LinkInv, RestInv, Clean
  <2> QED BY <1>3, <2>2, <2>3 DEF LinkInv
<1>5. CASE cmd_buf' = cmd_buf
  <2>1. NewInv' /\ RestInv'
    BY <1>1, <1>5 DEF LinkInv, NewInv, RestInv, Clean, Idle, InReset, InFrame, InLeftover
  <2> QED BY <1>3, <2>1 DEF LinkInv
<1> QED BY <1>2, <1>4, <1>5

-----------------------------------------------------------------------------
(* Theorems *)

(* The invariant holds from the start on *)
LEMMA LinkStarts == Init => LinkInv
BY DEF Init, BadgeInit, LinkInv, AppInv, NewInv, InitInv, CallInv, RestInv, Idle, Resting,
       CallAnswered, RaisesForAReason

LEMMA LinkSteps ==
    ASSUME Env = {}, Mild, Fitting, Started, LinkInv, [Next]_vars
    PROVE  LinkInv'
<1>1. CASE UNCHANGED vars
  BY <1>1 DEF vars, badgeVars, clientVars, LinkInv, AppInv, NewInv, InitInv, CallInv, RestInv,
              Clean, Idle, InReset, InFrame, InLeftover, Logged, CallAnswered, RaisesForAReason
<1> QED BY <1>1, TakeKeeps, InitDiscardKeeps, InitAckKeeps, GetHeadKeeps, GetBodyKeeps,
           InitCallKeeps, CallKeeps, KillKeeps, UserKeeps
        DEF Next, Client

LEMMA LinkHolds ==
    ASSUME Env = {}, Mild, Fitting
    PROVE  Spec => []LinkInv
<1>1. Started /\ LinkInv /\ [Next]_vars => LinkInv'  BY LinkSteps
<1> QED BY <1>1, LinkStarts, InitTypes, StepTypes, PTL DEF Spec

(* A call that returns returns the badge's answer to it, and the badge has  *)
(* executed it once: for every set of calls and of leftovers               *)
THEOREM CallsAreAnswered ==
    ASSUME Env = {}, Mild, Fitting
    PROVE  Spec => []CallAnswered
<1>1. LinkInv => CallAnswered  BY DEF LinkInv
<1> QED BY <1>1, LinkHolds, PTL

(* Whatever a call ends in, nothing of it is left on the line or in cmd_buf *)
THEOREM LineIsClean ==
    ASSUME Env = {}, Mild, Fitting
    PROVE  Spec => []LineClean
<1>1. LinkInv => LineClean  BY DEF LinkInv, RestInv, Clean, Idle, LineClean
<1> QED BY <1>1, LinkHolds, PTL

(* A call raises only if the badge refused it or a length did not fit in a  *)
(* byte                                                                    *)
THEOREM RaisesWithReason ==
    ASSUME Env = {}, Mild, Fitting
    PROVE  Spec => []RaisesForAReason
<1>1. LinkInv => RaisesForAReason  BY DEF LinkInv
<1> QED BY <1>1, LinkHolds, PTL
=============================================================================
