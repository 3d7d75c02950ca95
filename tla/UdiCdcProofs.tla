----------------------------- MODULE UdiCdcProofs -----------------------------
(***************************************************************************)
(* Theorems about UdiCdc, for buffers, writes and numbers of frames of any *)
(* size: types and bounds, the room udi_cdc_write_buf was promised, the    *)
(* byte udi_cdc_getc was, and that each direction is a pipe.               *)
(***************************************************************************)
EXTENDS UdiCdc, SequenceTheorems, TLAPS

(* Nobody changes the state of the line between udi_cdc_is_rx_ready and    *)
(* the end of udi_cdc_getc.                                                *)
Steady == "midway" \notin Env

(* The buffer that is not being filled is empty unless it is being sent,   *)
(* or waits for it because both are in use.                                *)
TxIdle(t) == ~t.ongoing /\ ~t.both => t.buf[1 - t.sel] = <<>>

RxWithin(r) == r.pos <= Len(r.buf[r.sel])

CdcInv == TypeOK /\ TxIdle(tx) /\ RxWithin(rx) /\ RoomKept /\ ByteKept

-----------------------------------------------------------------------------
(* Packets *)

LEMMA Packets == \A s : s \in Packet <=> s \in Seq(Byte) /\ Len(s) <= N
<1> SUFFICES ASSUME NEW s PROVE s \in Packet <=> s \in Seq(Byte) /\ Len(s) <= N
  OBVIOUS
<1>0. N \in Nat  BY CdcAssumption DEF N
<1>1. ASSUME s \in Packet PROVE s \in Seq(Byte) /\ Len(s) <= N
  <2>1. PICK m \in 0 .. N : s \in [1 .. m -> Byte]  BY <1>1 DEF Packet, SeqOf
  <2> QED BY <1>0, <2>1
<1>2. ASSUME s \in Seq(Byte), Len(s) <= N PROVE s \in Packet
  <2>1. Len(s) \in 0 .. N /\ s \in [1 .. Len(s) -> Byte]  BY <1>0, <1>2
  <2> QED BY <2>1 DEF Packet, SeqOf
<1> QED BY <1>1, <1>2

LEMMA EmptyPacket == <<>> \in Packet /\ Empty \in [Buffers -> Packet]
<1>1. N \in Nat  BY CdcAssumption DEF N
<1>2. <<>> \in Packet
  <2>1. 0 \in 0 .. N /\ <<>> \in [1 .. 0 -> Byte]  BY <1>1
  <2> QED BY <2>1 DEF Packet, SeqOf
<1> QED BY <1>2 DEF Empty

LEMMA NumbersArePacket ==
    ASSUME NEW first \in Byte, NEW n \in 0 .. N
    PROVE  Numbers(first, n) \in Packet /\ Len(Numbers(first, n)) = n
<1>1. N \in Nat /\ Mod \in Nat \ {0} /\ first \in Nat  BY CdcAssumption DEF N, Byte
<1>2. \A i \in 1 .. n : (first + i - 1) % Mod \in Byte  BY <1>1 DEF Byte
<1>3. Numbers(first, n) \in [1 .. n -> Byte]  BY <1>2 DEF Numbers
<1>4. Numbers(first, n) \in Seq(Byte) /\ Len(Numbers(first, n)) = n  BY <1>1, <1>3
<1> QED BY <1>1, <1>4, Packets

LEMMA NextIsByte ==
    ASSUME NEW first \in Byte, NEW n \in Nat PROVE (first + n) % Mod \in Byte
BY CdcAssumption DEF Byte

-----------------------------------------------------------------------------
(* udi_cdc_tx_send and udi_cdc_rx_start *)

LEMMA TxSendKeeps ==
    ASSUME NEW t \in TxState, TxIdle(t)
    PROVE  /\ TxSend(t) \in TxState /\ TxIdle(TxSend(t))
           /\ Len(t.buf[t.sel]) < N =>
                 Len(TxSend(t).buf[TxSend(t).sel]) < N
<1> USE DEF TxState
<1>1. t.sel \in Buffers /\ 1 - t.sel \in Buffers /\ t.buf \in [Buffers -> Packet]
  BY DEF Buffers
<1>2. CASE t.ongoing \/ t.gate  BY <1>2 DEF TxSend
<1>3. CASE ~(t.ongoing \/ t.gate) /\ TxHolds(t)
  <2>1. TxSend(t) = [t EXCEPT !.zlp = t.zlp + 1]  BY <1>3 DEF TxSend
  <2>2. t.zlp + 1 \in 0 .. ZlpAfter - 1  BY <1>3, CdcAssumption DEF TxHolds
  <2> QED BY <2>1, <2>2 DEF TxIdle
<1>4. CASE ~(t.ongoing \/ t.gate) /\ ~TxHolds(t)
  <2> DEFINE s == IF t.both THEN t.sel ELSE 1 - t.sel
  <2>1. TxSend(t) = [t EXCEPT !.sel = s, !.ongoing = TRUE, !.zlp = 0,
                              !.gate = Len(t.buf[1 - s]) # N]
    BY <1>4 DEF TxSend
  <2>2. s \in Buffers /\ 0 \in 0 .. ZlpAfter - 1  BY <1>1, CdcAssumption
  <2>3. TxSend(t) \in TxState /\ TxIdle(TxSend(t))  BY <2>1, <2>2 DEF TxIdle
  <2>4. TxSend(t).buf = t.buf /\ TxSend(t).sel = s  BY <2>1
  <2>5. ASSUME ~t.both PROVE Len(t.buf[s]) < N
    BY <1>4, <2>5, CdcAssumption DEF TxIdle, N
  <2> QED BY <2>3, <2>4, <2>5
<1> QED BY <1>2, <1>3, <1>4

LEMMA RxStartKeeps ==
    ASSUME NEW r \in RxState, RxWithin(r)
    PROVE  /\ RxStart(r) \in RxState /\ RxWithin(RxStart(r))
           /\ r.pos < Len(r.buf[r.sel]) => RxStart(r) = r
<1> USE DEF RxState
<1>1. CASE RxHolds(r)  BY <1>1 DEF RxStart
<1>2. CASE ~RxHolds(r)
  <2>1. RxStart(r) = [r EXCEPT !.buf[r.sel] = <<>>, !.pos = 0, !.sel = 1 - r.sel,
                              !.ongoing = TRUE]
    BY <1>2 DEF RxStart
  <2>2. 1 - r.sel \in Buffers /\ 0 \in 0 .. N  BY CdcAssumption DEF Buffers, N
  <2>3. [r.buf EXCEPT ![r.sel] = <<>>] \in [Buffers -> Packet]  BY EmptyPacket
  <2>4. RxStart(r) \in RxState  BY <2>1, <2>2, <2>3
  <2>5. RxStart(r).pos = 0  BY <2>1
  <2>6. RxStart(r).buf[RxStart(r).sel] \in Packet  BY <2>4
  <2> QED BY <1>2, <2>4, <2>5, <2>6, Packets DEF RxWithin, RxHolds
<1> QED BY <1>1, <1>2

-----------------------------------------------------------------------------
(* The steps *)

LEMMA InitInv == Init => CdcInv
<1> SUFFICES ASSUME Init PROVE CdcInv  OBVIOUS
<1>1. N \in Nat \ {0} /\ 0 \in 0 .. N /\ 0 \in 0 .. N - 1 /\ 0 \in Byte /\ 0 \in Buffers
      /\ 0 \in 0 .. ZlpAfter - 1 /\ 0 \in 0 .. MaxWrite
  BY CdcAssumption DEF N, Byte, Buffers
<1>2. tx \in TxState /\ TxIdle(tx)  BY <1>1, EmptyPacket DEF Init, TxState, TxIdle, Empty, Buffers
<1>3. rx \in RxState /\ RxWithin(rx)
  <2>1. rx.pos = 0 /\ rx.buf[rx.sel] = <<>>  BY <1>1 DEF Init, Empty
  <2> QED BY <1>1, <2>1, EmptyPacket DEF Init, RxState, RxWithin
<1>4. bank \in Packet  BY EmptyPacket DEF Init
<1> QED BY <1>1, <1>2, <1>3, <1>4 DEF Init, CdcInv, TypeOK, RoomKept, ByteKept

(* A transmission ends, or a frame comes: buffers may be switched, and     *)
(* there is still room in the one to be filled.                            *)
LEMMA TxInterruptsKeep == ASSUME CdcInv, DataSent \/ Sof PROVE CdcInv'
<1>1. PICK t \in TxState : /\ TxIdle(t) /\ tx' = TxSend(t)
                           /\ t.sel = tx.sel /\ t.buf[t.sel] = tx.buf[tx.sel]
  <2> USE DEF CdcInv, TypeOK
  <2>1. CASE DataSent
    <3> DEFINE t == [tx EXCEPT !.buf[1 - tx.sel] = <<>>, !.both = FALSE, !.ongoing = FALSE]
    <3>1. tx.sel \in Buffers /\ 1 - tx.sel \in Buffers /\ 1 - tx.sel # tx.sel
      BY DEF TxState, Buffers
    <3>2. [tx.buf EXCEPT ![1 - tx.sel] = <<>>] \in [Buffers -> Packet]
      BY EmptyPacket DEF TxState
    <3>3. t \in TxState /\ TxIdle(t) /\ t.sel = tx.sel /\ t.buf[t.sel] = tx.buf[tx.sel]
      BY <3>1, <3>2 DEF TxState, TxIdle
    <3>4. tx' = TxSend(t)  BY <2>1 DEF DataSent
    <3> QED BY <3>3, <3>4
  <2>2. CASE Sof
    <3> DEFINE t == [tx EXCEPT !.gate = FALSE]
    <3>1. t \in TxState /\ TxIdle(t) /\ t.sel = tx.sel /\ t.buf = tx.buf
      BY DEF TxState, TxIdle
    <3>2. tx' = TxSend(t)  BY <2>2 DEF Sof, Sends
    <3> QED BY <3>1, <3>2
  <2> QED BY <2>1, <2>2
<1>2. tx' \in TxState /\ TxIdle(tx')
      /\ (Len(tx.buf[tx.sel]) < N => Len(tx'.buf[tx'.sel]) < N)
  BY <1>1, TxSendKeeps
<1>3. in_ep' \in {"idle", "queued", "taken"}
  BY DEF DataSent, Sof, Sends, CdcInv, TypeOK
<1>4. UNCHANGED <<rx, out_ep, bank, running, mainVars, history>>  BY DEF DataSent, Sof
<1> QED BY <1>2, <1>3, <1>4
    DEF CdcInv, TypeOK, RoomKept, ByteKept, mainVars, history, RxWithin, HasByte

(* A reception ends: the buffer in use is replaced only when it has been   *)
(* emptied, so that a byte that was there stays.                           *)
LEMMA DataReceivedKeeps == ASSUME CdcInv, DataReceived PROVE CdcInv'
<1> DEFINE r == [rx EXCEPT !.buf[1 - rx.sel] = bank, !.ongoing = FALSE]
<1>1. rx.sel \in Buffers /\ 1 - rx.sel \in Buffers /\ 1 - rx.sel # rx.sel
  BY DEF CdcInv, TypeOK, RxState, Buffers
<1>2. r \in RxState /\ r.sel = rx.sel /\ r.pos = rx.pos /\ r.buf[r.sel] = rx.buf[rx.sel]
  BY <1>1 DEF CdcInv, TypeOK, RxState
<1>3. RxWithin(r)  BY <1>2 DEF RxWithin, CdcInv
<1>4. CASE bank = <<>>
  <2>1. UNCHANGED <<rx, tx, in_ep, running, mainVars, history>> /\ bank' = <<>>
        /\ out_ep' = "armed"
    BY <1>4 DEF DataReceived
  <2> QED BY <2>1, EmptyPacket
      DEF CdcInv, TypeOK, RoomKept, ByteKept, mainVars, history, HasByte
<1>5. CASE bank # <<>>
  <2>1. rx' = RxStart(r) /\ out_ep' \in {"idle", "armed"} /\ bank' = <<>>
        /\ UNCHANGED <<tx, in_ep, running, mainVars, history>>
    BY <1>5 DEF DataReceived
  <2>2. rx' \in RxState /\ RxWithin(rx') /\ (rx.pos < Len(rx.buf[rx.sel]) => rx' = r)
    BY <1>2, <1>3, <2>1, RxStartKeeps
  <2>3. ByteKept'
    <3>1. pc \in {"getc", "take"} => rx' = r
      BY <2>2 DEF CdcInv, ByteKept, HasByte
    <3> QED BY <1>2, <2>1, <3>1 DEF CdcInv, ByteKept, HasByte, mainVars
  <2> QED BY <2>1, <2>2, <2>3, EmptyPacket
      DEF CdcInv, TypeOK, RoomKept, mainVars, history
<1> QED BY <1>4, <1>5

(* Writing: room is found in the buffer in use or in the other, empty one. *)
LEMMA WriteKeeps == ASSUME CdcInv, WriteBuf \/ WriteReady \/ WriteCopy PROVE CdcInv'
<1> USE DEF CdcInv, TypeOK, RoomKept, ByteKept, usbVars, history, mainVars
<1>1. CASE WriteBuf
  BY <1>1, CdcAssumption DEF WriteBuf, RxWithin, HasByte
<1>2. CASE WriteReady
  <2>1. UNCHANGED <<rx, in_ep, out_ep, bank, running, pos, sel, history>>
        /\ tx' = GetFree(tx) /\ pc' \in {"copy", "idle"} /\ todo' \in {todo, 0}
        /\ (pc' = "copy" => Free(tx) > 0)
    BY <1>2 DEF WriteReady
  <2>2. tx.sel \in Buffers /\ 1 - tx.sel \in Buffers  BY DEF TxState, Buffers
  <2>3. CASE MovesOn(tx)
    <3>1. tx' = [tx EXCEPT !.both = TRUE, !.sel = 1 - tx.sel]
      BY <2>1, <2>3 DEF GetFree
    <3>2. tx' \in TxState /\ TxIdle(tx') /\ tx'.buf[tx'.sel] = tx.buf[1 - tx.sel]
      BY <2>2, <3>1 DEF TxState, TxIdle
    <3>3. tx.buf[1 - tx.sel] = <<>>  BY <2>3 DEF MovesOn, TxIdle
    <3>4. Len(tx'.buf[tx'.sel]) < N  BY <3>2, <3>3, CdcAssumption DEF N
    <3> QED BY <2>1, <3>2, <3>4, CdcAssumption DEF RxWithin, HasByte
  <2>4. CASE ~MovesOn(tx)
    <3>1. tx' = tx  BY <2>1, <2>4 DEF GetFree
    <3>2. Len(tx.buf[tx.sel]) \in Nat /\ N \in Nat
      BY <2>2, Packets, CdcAssumption DEF TxState, N
    <3>3. pc' = "copy" => Len(tx.buf[tx.sel]) < N  BY <2>1, <2>4, <3>2 DEF Free
    <3> QED BY <2>1, <3>1, <3>3, CdcAssumption DEF RxWithin, HasByte
  <2> QED BY <2>3, <2>4
<1>3. CASE WriteCopy
  <2> DEFINE n == Smaller(todo, N - Len(tx.buf[tx.sel]))
             old == tx.buf[tx.sel]
             new == old \o Numbers(wnext, n)
  <2>1. tx.sel \in Buffers /\ old \in Packet  BY DEF TxState
  <2>2. N \in Nat /\ Len(old) \in 0 .. N /\ old \in Seq(Byte)
    BY <2>1, Packets, CdcAssumption DEF N
  <2>3. n \in 0 .. N /\ n <= todo /\ Len(old) + n <= N
    <3>1. todo \in Nat /\ N - Len(old) \in Nat  BY <2>2, CdcAssumption
    <3>2. n \in Nat /\ n <= todo /\ n <= N - Len(old)  BY <3>1 DEF Smaller
    <3> HIDE DEF n, old
    <3> QED BY <2>2, <3>1, <3>2
  <2>4. Numbers(wnext, n) \in Seq(Byte) /\ Len(Numbers(wnext, n)) = n
    BY <2>3, NumbersArePacket, Packets
  <2>5. new \in Packet
    <3> HIDE DEF n, old
    <3>1. new \in Seq(Byte) /\ Len(new) = Len(old) + n
      BY <2>2, <2>4, ConcatProperties
    <3> QED BY <2>3, <3>1, Packets
  <2>6. tx' = [tx EXCEPT !.buf[tx.sel] = new]  BY <1>3 DEF WriteCopy
  <2>7. 1 - tx.sel \in Buffers /\ 1 - tx.sel # tx.sel  BY <2>1 DEF Buffers
  <2>8. tx' \in TxState /\ TxIdle(tx')
    <3>1. [tx.buf EXCEPT ![tx.sel] = new] \in [Buffers -> Packet]  BY <2>5 DEF TxState
    <3>2. [tx.buf EXCEPT ![tx.sel] = new][1 - tx.sel] = tx.buf[1 - tx.sel]
      BY <2>7 DEF TxState
    <3> QED BY <2>6, <3>1, <3>2 DEF TxState, TxIdle
  <2>9. wnext' \in Byte
    <3>1. (wnext + todo) % Mod \in Byte /\ (wnext + n) % Mod \in Byte
      BY <2>3, CdcAssumption, NextIsByte
    <3> QED BY <1>3, <3>1 DEF WriteCopy
  <2>10. todo' \in 0 .. MaxWrite  BY <1>3, <2>3, CdcAssumption DEF WriteCopy
  <2>11. pc' \in {"idle", "wait_tx"}  BY <1>3 DEF WriteCopy
  <2>12. UNCHANGED <<rx, in_ep, out_ep, bank, running, pos, sel, hnext>>
    BY <1>3 DEF WriteCopy
  <2> QED BY <2>8, <2>9, <2>10, <2>11, <2>12 DEF RxWithin, HasByte
<1> QED BY <1>1, <1>2, <1>3

(* Reading: what was promised is taken, and then the other buffer comes    *)
(* into use if nothing is left.                                            *)
LEMMA ReadKeeps ==
    ASSUME CdcInv, Poll \/ GetcLock \/ GetcTake \/ GetcRxStart \/ GetcEpRun
    PROVE  CdcInv'
<1> USE DEF CdcInv, TypeOK, RoomKept, ByteKept, usbVars, history, mainVars
<1>0. N \in Nat \ {0} /\ 0 \in 0 .. N - 1 /\ 0 \in Buffers  BY CdcAssumption DEF N, Buffers
<1>1. rx.pos \in 0 .. N /\ rx.sel \in Buffers /\ Len(rx.buf[rx.sel]) \in 0 .. N
  BY Packets, CdcAssumption DEF RxState, N
<1>2. CASE Poll
  BY <1>1, <1>2 DEF Poll, IsRxReady, RxWithin, HasByte
<1>3. CASE GetcLock
  <2>1. HasByte /\ pc' = "take" /\ pos' = rx.pos /\ sel' = rx.sel
    BY <1>3 DEF GetcLock
  <2>2. pos' \in 0 .. N - 1 /\ sel' \in Buffers  BY <1>0, <1>1, <2>1 DEF HasByte
  <2>3. UNCHANGED <<usbVars, todo, wnext, hnext>>  BY <1>3 DEF GetcLock
  <2> QED BY <2>1, <2>2, <2>3 DEF HasByte, RxWithin
<1>4. CASE GetcTake
  <2>1. rx' = [rx EXCEPT !.pos = pos + 1]  BY <1>4 DEF GetcTake
  <2>2. rx.pos = pos /\ pos < Len(rx.buf[rx.sel])  BY <1>4 DEF GetcTake
  <2>3. pos + 1 \in 0 .. N  BY <1>0, <1>1, <2>2
  <2>4. rx' \in RxState /\ RxWithin(rx')
    BY <1>1, <2>1, <2>2, <2>3 DEF RxState, RxWithin
  <2>5. pc' = "rx_start" /\ pos' = 0 /\ sel' = 0
        /\ UNCHANGED <<tx, in_ep, out_ep, bank, running, todo, wnext, hnext>>
    BY <1>4 DEF GetcTake
  <2> QED BY <1>0, <2>4, <2>5
<1>5. CASE GetcRxStart
  <2>1. rx' \in RxState /\ RxWithin(rx')  BY <1>5, RxStartKeeps DEF GetcRxStart
  <2> QED BY <1>5, <2>1 DEF GetcRxStart
<1>6. CASE GetcEpRun
  BY <1>6 DEF GetcEpRun, RxWithin
<1> QED BY <1>2, <1>3, <1>4, <1>5, <1>6

(* The line, which is steady while a byte is read. *)
LEMMA LineKeeps == ASSUME CdcInv, Steady, DataEnable \/ DataDisable PROVE CdcInv'
<1> USE DEF CdcInv, TypeOK, RoomKept, ByteKept, history, mainVars
<1>0. N \in Nat \ {0} /\ 0 \in 0 .. N /\ 0 \in Buffers  BY CdcAssumption DEF N, Buffers
<1>1. pc \notin {"getc", "take"}
  BY DEF DataEnable, DataDisable, MayChange, Steady
<1>2. CASE DataEnable
  <2> DEFINE t == [tx EXCEPT !.buf = Empty, !.sel = 0, !.both = FALSE,
                             !.ongoing = FALSE, !.gate = FALSE]
             r == [rx EXCEPT !.buf = Empty, !.sel = 0, !.pos = 0, !.ongoing = FALSE]
  <2>1. Empty[0] = <<>> /\ Empty[1] = <<>> /\ Len(<<>>) = 0  BY DEF Empty, Buffers
  <2>2. t \in TxState /\ TxIdle(t) /\ t.buf[t.sel] = <<>>
    BY <1>0, <2>1, EmptyPacket DEF TxState, TxIdle
  <2>3. r \in RxState /\ RxWithin(r)
    <3>1. r \in RxState  BY <1>0, EmptyPacket DEF RxState
    <3>2. r.pos = 0 /\ r.buf[r.sel] = <<>>  BY <2>1 DEF RxState
    <3> QED BY <2>1, <3>1, <3>2 DEF RxWithin
  <2>4. tx' = TxSend(t) /\ rx' = RxStart(r)  BY <1>2 DEF DataEnable
  <2> HIDE DEF t, r
  <2>5. tx' \in TxState /\ TxIdle(tx') /\ Len(tx'.buf[tx'.sel]) < N
    <3>1. Len(t.buf[t.sel]) < N  BY <1>0, <2>1, <2>2
    <3> QED BY <2>2, <2>4, <3>1, TxSendKeeps
  <2>6. rx' \in RxState /\ RxWithin(rx')  BY <2>3, <2>4, RxStartKeeps
  <2> QED BY <1>1, <1>2, <2>5, <2>6, EmptyPacket DEF DataEnable
<1>3. CASE DataDisable
  BY <1>1, <1>3, EmptyPacket DEF DataDisable, RxWithin
<1> QED BY <1>2, <1>3

LEMMA HostKeeps == ASSUME CdcInv, HostIn \/ HostOut PROVE CdcInv'
<1> USE DEF CdcInv, TypeOK, RoomKept, ByteKept, history, mainVars
<1>1. CASE HostIn  BY <1>1 DEF HostIn, RxWithin, HasByte
<1>2. CASE HostOut
  <2>1. PICK n \in 0 .. N : bank' = Numbers(hnext, n) /\ hnext' = (hnext + n) % Mod
    BY <1>2 DEF HostOut
  <2>2. n \in Nat  BY <2>1, CdcAssumption DEF N
  <2>3. bank' \in Packet /\ hnext' \in Byte  BY <2>1, <2>2, NumbersArePacket, NextIsByte
  <2> QED BY <1>2, <2>3 DEF HostOut, RxWithin, HasByte
<1> QED BY <1>1, <1>2

LEMMA CdcStep == ASSUME CdcInv, Steady, [Next]_vars PROVE CdcInv'
<1>1. CASE UNCHANGED vars
  BY <1>1 DEF vars, usbVars, mainVars, history, CdcInv, TypeOK, RoomKept, ByteKept,
     RxWithin, HasByte
<1> QED
  BY <1>1, TxInterruptsKeep, DataReceivedKeeps, WriteKeeps, ReadKeeps, LineKeeps, HostKeeps
  DEF Next, Interrupt, Line, Main, MainOwn

LEMMA CdcInvariant == ASSUME Steady PROVE Spec => []CdcInv
<1>1. Steady  OBVIOUS
<1>2. CdcInv /\ [Next]_vars => CdcInv'  BY <1>1, CdcStep
<1> QED BY <1>2, InitInv, PTL DEF Spec

-----------------------------------------------------------------------------
(* The counts of udi_cdc.c stay within its buffers, whatever the sizes of  *)
(* buffers and writes.                                                     *)
THEOREM CountsWithinBuffers == Steady => (Spec => []TypeOK)
<1> SUFFICES ASSUME Steady PROVE Spec => []TypeOK  OBVIOUS
<1>1. CdcInv => TypeOK  BY DEF CdcInv
<1>2. Spec => []CdcInv  BY CdcInvariant
<1> QED BY <1>1, <1>2, PTL

(* Where udi_cdc_write_buf found room there is room when it copies, in     *)
(* whichever buffer is then in use.                                        *)
THEOREM RoomIsKept == Steady => (Spec => []RoomKept)
<1> SUFFICES ASSUME Steady PROVE Spec => []RoomKept  OBVIOUS
<1>1. CdcInv => RoomKept  BY DEF CdcInv
<1>2. Spec => []CdcInv  BY CdcInvariant
<1> QED BY <1>1, <1>2, PTL

(* The byte udi_cdc_is_rx_ready saw is there when udi_cdc_getc comes for   *)
(* it, and is the one it takes, while the line is steady.                  *)
THEOREM ByteIsKept == Steady => (Spec => []ByteKept)
<1> SUFFICES ASSUME Steady PROVE Spec => []ByteKept  OBVIOUS
<1>1. CdcInv => ByteKept  BY DEF CdcInv
<1>2. Spec => []CdcInv  BY CdcInvariant
<1> QED BY <1>1, <1>2, PTL

-----------------------------------------------------------------------------
(* Sequences cut in two *)

LEMMA CutConcat ==
    ASSUME NEW s \in Seq(Byte), NEW t \in Seq(Byte), NEW n \in 0 .. Len(s)
    PROVE  /\ Len(s \o t) = Len(s) + Len(t)
           /\ SubSeq(s \o t, 1, n) = SubSeq(s, 1, n)
           /\ SubSeq(s \o t, n + 1, Len(s \o t)) = SubSeq(s, n + 1, Len(s)) \o t
<1> DEFINE q == s \o t
           front == SubSeq(q, 1, n)
           back == SubSeq(q, n + 1, Len(q))
           rest == SubSeq(s, n + 1, Len(s))
<1>1. /\ q \in Seq(Byte) /\ Len(q) = Len(s) + Len(t)
      /\ \A i \in 1 .. Len(s) + Len(t) : q[i] = IF i <= Len(s) THEN s[i] ELSE t[i - Len(s)]
  BY ConcatProperties
<1>2. Len(s) \in Nat /\ Len(t) \in Nat /\ n \in Nat  BY LenProperties
<1> HIDE DEF q
<1>3. \A i \in 1 .. Len(q) : q[i] \in Byte  BY <1>1, ElementOfSeq
<1>4. \A i \in 1 .. Len(s) : s[i] \in Byte  BY ElementOfSeq
<1>5. front = SubSeq(s, 1, n)
  <2>1. /\ front \in Seq(Byte) /\ Len(front) = n /\ \A i \in 1 .. n : front[i] = q[i]
    BY <1>1, <1>2, <1>3, SubSeqProperties
  <2>2. /\ SubSeq(s, 1, n) \in Seq(Byte) /\ Len(SubSeq(s, 1, n)) = n
        /\ \A i \in 1 .. n : SubSeq(s, 1, n)[i] = s[i]
    BY <1>2, <1>4, SubSeqProperties
  <2>3. \A i \in 1 .. n : q[i] = s[i]  BY <1>1, <1>2
  <2> HIDE DEF front
  <2> QED BY <2>1, <2>2, <2>3, SeqEqual
<1>6. back = rest \o t
  <2>1. /\ back \in Seq(Byte) /\ Len(back) = Len(q) - n
        /\ \A i \in 1 .. Len(q) - n : back[i] = q[n + i]
    BY <1>1, <1>2, <1>3, SubSeqProperties
  <2>2. /\ rest \in Seq(Byte) /\ Len(rest) = Len(s) - n
        /\ \A i \in 1 .. Len(s) - n : rest[i] = s[n + i]
    BY <1>2, <1>4, SubSeqProperties
  <2> HIDE DEF back, rest
  <2>3. /\ rest \o t \in Seq(Byte) /\ Len(rest \o t) = Len(rest) + Len(t)
        /\ \A i \in 1 .. Len(rest) + Len(t) :
              (rest \o t)[i] = IF i <= Len(rest) THEN rest[i] ELSE t[i - Len(rest)]
    BY <2>2, ConcatProperties
  <2>4. Len(back) = Len(rest \o t)  BY <1>1, <1>2, <2>1, <2>2, <2>3
  <2>5. ASSUME NEW i \in 1 .. Len(back) PROVE back[i] = (rest \o t)[i]
    <3>1. i \in 1 .. Len(rest) + Len(t) /\ n + i \in 1 .. Len(s) + Len(t)
      BY <1>1, <1>2, <2>1, <2>2
    <3>2. back[i] = q[n + i]  BY <2>1
    <3>3. CASE i <= Len(s) - n
      BY <1>1, <1>2, <2>2, <2>3, <3>1, <3>2, <3>3
    <3>4. CASE i > Len(s) - n
      <4>1. (n + i) - Len(s) = i - Len(rest)  BY <1>2, <2>2
      <4>2. ~(i <= Len(rest)) /\ ~(n + i <= Len(s))  BY <1>2, <2>2, <3>4
      <4>3. q[n + i] = t[(n + i) - Len(s)]  BY <1>1, <3>1, <4>2
      <4>4. (rest \o t)[i] = t[i - Len(rest)]  BY <2>3, <3>1, <4>2
      <4> QED BY <3>2, <4>1, <4>3, <4>4, Zenon
    <3>5. i \in Nat /\ Len(s) - n \in Int
      <4>1. Len(back) \in Nat  BY <2>1, LenProperties
      <4> QED BY <1>2, <4>1
    <3>6. i <= Len(s) - n \/ i > Len(s) - n  BY <3>5
    <3> QED BY <3>3, <3>4, <3>6
  <2> QED BY <2>1, <2>3, <2>4, <2>5, SeqEqual
<1> QED BY <1>1, <1>5, <1>6 DEF q

LEMMA FirstOf ==
    ASSUME NEW s \in Seq(Byte), Len(s) >= 1 PROVE SubSeq(s, 1, 1) = <<s[1]>>
<1>1. Len(s) \in Nat /\ s[1] \in Byte  BY LenProperties, ElementOfSeq
<1>2. /\ SubSeq(s, 1, 1) \in Seq(Byte) /\ Len(SubSeq(s, 1, 1)) = 1
      /\ SubSeq(s, 1, 1)[1] = s[1]
  <2>1. \A i \in 1 .. 1 : s[i] \in Byte  BY <1>1
  <2>2. /\ SubSeq(s, 1, 1) \in Seq(Byte)
        /\ Len(SubSeq(s, 1, 1)) = IF 1 <= 1 THEN 1 - 1 + 1 ELSE 0
        /\ \A i \in 1 .. 1 - 1 + 1 : SubSeq(s, 1, 1)[i] = s[1 + i - 1]
    BY <2>1, SubSeqProperties
  <2>3. 1 \in 1 .. 1 - 1 + 1 /\ 1 + 1 - 1 = 1  OBVIOUS
  <2> QED BY <2>2, <2>3
<1>3. <<s[1]>> \in Seq(Byte) /\ Len(<<s[1]>>) = 1 /\ <<s[1]>>[1] = s[1]  BY <1>1
<1>4. \A i \in 1 .. 1 : SubSeq(s, 1, 1)[i] = <<s[1]>>[i]  BY <1>2, <1>3
<1> QED BY <1>2, <1>3, <1>4, SeqEqual

LEMMA CutTwice ==
    ASSUME NEW s \in Seq(Byte), NEW p \in 0 .. Len(s) - 1
    PROVE  LET r == SubSeq(s, p + 1, Len(s))
           IN  /\ r \in Seq(Byte) /\ Len(r) = Len(s) - p /\ r[1] = s[p + 1]
               /\ SubSeq(r, 2, Len(r)) = SubSeq(s, p + 2, Len(s))
<1> DEFINE r == SubSeq(s, p + 1, Len(s))
           a == SubSeq(r, 2, Len(r))
           b == SubSeq(s, p + 2, Len(s))
<1>1. Len(s) \in Nat /\ p \in Nat /\ \A i \in 1 .. Len(s) : s[i] \in Byte
  BY LenProperties, ElementOfSeq
<1>2. /\ r \in Seq(Byte) /\ Len(r) = Len(s) - p
      /\ \A i \in 1 .. Len(s) - p : r[i] = s[p + i]
  BY <1>1, SubSeqProperties
<1>3. /\ b \in Seq(Byte) /\ Len(b) = Len(s) - p - 1
      /\ \A i \in 1 .. Len(s) - p - 1 : b[i] = s[p + 1 + i]
  BY <1>1, SubSeqProperties
<1> HIDE DEF r, b
<1>4. \A i \in 2 .. Len(r) : r[i] \in Byte  BY <1>1, <1>2, ElementOfSeq
<1>5. /\ a \in Seq(Byte) /\ Len(a) = Len(r) - 1
      /\ \A i \in 1 .. Len(r) - 1 : a[i] = r[i + 1]
  BY <1>1, <1>2, <1>4, SubSeqProperties
<1> HIDE DEF a
<1>6. ASSUME NEW i \in 1 .. Len(a) PROVE a[i] = b[i]
  <2>1. i \in 1 .. Len(r) - 1 /\ i \in 1 .. Len(s) - p - 1 /\ i + 1 \in 1 .. Len(s) - p
    BY <1>1, <1>2, <1>5
  <2>2. a[i] = r[i + 1] /\ r[i + 1] = s[p + (i + 1)] /\ b[i] = s[p + 1 + i]
    BY <1>2, <1>3, <1>5, <2>1
  <2>3. p + (i + 1) = p + 1 + i  BY <1>1, <2>1
  <2> QED BY <2>2, <2>3
<1>7. a = b  BY <1>1, <1>2, <1>3, <1>5, <1>6, SeqEqual
<1> QED BY <1>1, <1>2, <1>7 DEF r, a, b

-----------------------------------------------------------------------------
(* The line is a pipe in either direction *)

(* Buffers, endpoints and the main program agree on what is under way: an  *)
(* endpoint has a job only while the transfer is noted as under way, a     *)
(* packet is in the bank only until it is handed over, and between         *)
(* switching the buffers and starting the endpoint nobody else starts it.  *)
LinkInv ==
    /\ in_ep # "idle" => tx.ongoing
    /\ out_ep # "idle" => rx.ongoing
    /\ out_ep # "received" => bank = <<>>
    /\ pc = "ep_run" => rx.ongoing /\ out_ep = "idle"
    /\ pc \in {"wait_tx", "copy"} => todo > 0

LEMMA LinkInit == Init => LinkInv
BY DEF Init, LinkInv

LEMMA TxSendStarts ==
    ASSUME NEW t \in TxState, ~TxHolds(t) \/ t.ongoing
    PROVE  TxSend(t).ongoing
BY DEF TxSend, TxHolds, TxState

LEMMA TxSendIsFree ==
    ASSUME NEW t \in TxState, TxHolds(t)
    PROVE  /\ TxSend(t).ongoing = t.ongoing /\ TxSend(t).both = t.both
           /\ TxSend(t).sel = t.sel /\ TxSend(t).buf = t.buf
BY DEF TxSend, TxState

LEMMA RxStartStarts ==
    ASSUME NEW r \in RxState, ~RxHolds(r) \/ r.ongoing
    PROVE  RxStart(r).ongoing
BY DEF RxStart, RxHolds, RxState

LEMMA LinkStep == ASSUME CdcInv, LinkInv, Steady, [Next]_vars PROVE LinkInv'
<1> USE DEF LinkInv
<1>0. tx \in TxState /\ rx \in RxState /\ todo \in Nat /\ tx.sel \in Buffers /\ rx.sel \in Buffers
  BY CdcAssumption DEF CdcInv, TypeOK, TxState, RxState
<1>1. CASE UNCHANGED vars
  BY <1>1 DEF vars, usbVars, mainVars
<1>2. CASE DataSent
  <2> DEFINE t == [tx EXCEPT !.buf[1 - tx.sel] = <<>>, !.both = FALSE, !.ongoing = FALSE]
  <2>1. [tx.buf EXCEPT ![1 - tx.sel] = <<>>] \in [Buffers -> Packet]
    BY <1>0, EmptyPacket DEF TxState
  <2>2. t \in TxState  BY <1>0, <2>1 DEF TxState
  <2>3. tx' = TxSend(t) /\ in_ep' = (IF TxHolds(t) THEN "idle" ELSE "queued")
    BY <1>2 DEF DataSent
  <2> HIDE DEF t
  <2>4. in_ep' # "idle" => tx'.ongoing  BY <2>2, <2>3, TxSendStarts
  <2> QED BY <1>2, <2>4 DEF DataSent, mainVars
<1>3. CASE Sof
  <2> DEFINE t == [tx EXCEPT !.gate = FALSE]
  <2>1. t \in TxState /\ t.ongoing = tx.ongoing  BY <1>0 DEF TxState
  <2>2. tx' = TxSend(t) /\ in_ep' = (IF TxHolds(t) THEN in_ep ELSE "queued")
    BY <1>3 DEF Sof, Sends
  <2> HIDE DEF t
  <2>3. in_ep' # "idle" => tx'.ongoing  BY <2>1, <2>2, TxSendStarts
  <2> QED BY <1>3, <2>3 DEF Sof, mainVars
<1>4. CASE DataReceived
  <2> DEFINE r == [rx EXCEPT !.buf[1 - rx.sel] = bank, !.ongoing = FALSE]
  <2>1. out_ep = "received" /\ rx.ongoing /\ pc # "ep_run"  BY <1>4 DEF DataReceived
  <2>2. CASE bank = <<>>
    BY <1>4, <2>1, <2>2 DEF DataReceived, mainVars
  <2>3. CASE bank # <<>>
    <3>1. [rx.buf EXCEPT ![1 - rx.sel] = bank] \in [Buffers -> Packet]
      BY <1>0 DEF RxState, CdcInv, TypeOK
    <3>2. r \in RxState  BY <1>0, <3>1 DEF RxState
    <3>3. rx' = RxStart(r) /\ out_ep' = (IF RxHolds(r) THEN "idle" ELSE "armed")
      BY <1>4, <2>3 DEF DataReceived
    <3> HIDE DEF r
    <3>4. out_ep' # "idle" => rx'.ongoing  BY <3>2, <3>3, RxStartStarts
    <3> QED BY <1>4, <2>1, <3>4 DEF DataReceived, mainVars
  <2> QED BY <2>2, <2>3
<1>5. CASE WriteBuf
  BY <1>5, CdcAssumption DEF WriteBuf, usbVars
<1>6. CASE WriteReady
  <2>1. tx'.ongoing = tx.ongoing  BY <1>0, <1>6 DEF WriteReady, GetFree, TxState
  <2> QED BY <1>6, <2>1 DEF WriteReady
<1>7. CASE WriteCopy
  <2> DEFINE n == Smaller(todo, N - Len(tx.buf[tx.sel]))
  <2>1. tx'.ongoing = tx.ongoing  BY <1>0, <1>7 DEF WriteCopy, TxState
  <2>2. n \in Int /\ n <= todo
    <3>1. Len(tx.buf[tx.sel]) \in Nat /\ N \in Nat
      BY <1>0, Packets, CdcAssumption DEF TxState, N
    <3> QED BY <1>0, <3>1 DEF Smaller
  <2>3. todo' = todo - n /\ pc' = (IF todo = n THEN "idle" ELSE "wait_tx")
    BY <1>7 DEF WriteCopy
  <2> HIDE DEF n
  <2>4. pc' \in {"wait_tx", "copy"} => todo' > 0  BY <1>0, <2>2, <2>3
  <2> QED BY <1>7, <2>1, <2>3, <2>4 DEF WriteCopy
<1>8. CASE Poll \/ GetcLock
  BY <1>8 DEF Poll, GetcLock, usbVars
<1>9. CASE GetcTake
  <2>1. rx'.ongoing = rx.ongoing  BY <1>0, <1>9 DEF GetcTake, RxState
  <2> QED BY <1>9, <2>1 DEF GetcTake
<1>10. CASE GetcRxStart
  <2>1. rx' = RxStart(rx) /\ pc' = (IF RxHolds(rx) THEN "idle" ELSE "ep_run")
    BY <1>10 DEF GetcRxStart
  <2>2. rx.ongoing \/ ~RxHolds(rx) => rx'.ongoing  BY <1>0, <2>1, RxStartStarts
  <2>3. ~RxHolds(rx) => ~rx.ongoing  BY DEF RxHolds
  <2> QED BY <1>10, <2>1, <2>2, <2>3 DEF GetcRxStart
<1>11. CASE GetcEpRun
  BY <1>11 DEF GetcEpRun
<1>12. CASE DataEnable
  <2> DEFINE t == [tx EXCEPT !.buf = Empty, !.sel = 0, !.both = FALSE,
                             !.ongoing = FALSE, !.gate = FALSE]
             r == [rx EXCEPT !.buf = Empty, !.sel = 0, !.pos = 0, !.ongoing = FALSE]
  <2>1. 0 \in Buffers /\ 0 \in 0 .. N /\ Empty[0] = <<>>
    BY CdcAssumption DEF N, Buffers, Empty
  <2>2. t \in TxState /\ r \in RxState /\ r.pos = 0 /\ r.buf[r.sel] = <<>> /\ ~r.ongoing
    BY <1>0, <2>1, EmptyPacket DEF TxState, RxState
  <2>3. ~RxHolds(r)  BY <2>2 DEF RxHolds
  <2>4. tx' = TxSend(t) /\ in_ep' = (IF TxHolds(t) THEN "idle" ELSE "queued")
        /\ rx' = RxStart(r)
    BY <1>12 DEF DataEnable
  <2> HIDE DEF t, r
  <2>5. (in_ep' # "idle" => tx'.ongoing) /\ rx'.ongoing
    BY <2>2, <2>3, <2>4, TxSendStarts, RxStartStarts
  <2>6. pc # "ep_run"  BY <1>12 DEF DataEnable, MayChange, Steady
  <2> QED BY <1>12, <2>5, <2>6 DEF DataEnable, mainVars
<1>13. CASE DataDisable
  BY <1>13 DEF DataDisable, mainVars
<1>14. CASE HostIn \/ HostOut
  BY <1>14 DEF HostIn, HostOut, mainVars
<1> QED
  BY <1>1, <1>2, <1>3, <1>4, <1>5, <1>6, <1>7, <1>8, <1>9, <1>10, <1>11, <1>12, <1>13, <1>14
  DEF Next, Interrupt, Line, Main, MainOwn

(* What is under way from the host: what is left in the buffer in use, and *)
(* what is in the other one, or in the bank if that is being received into *)
Rest(r)         == SubSeq(r.buf[r.sel], r.pos + 1, Len(r.buf[r.sel]))
Waiting(r, b)   == IF r.ongoing THEN b ELSE r.buf[1 - r.sel]
FromHostOf(r, b) == Rest(r) \o Waiting(r, b)

LEMMA RxBytesOf == RxBytes = FromHostOf(rx, bank)
BY DEF RxBytes, FromHostOf, Rest, Waiting

LEMMA RxTypes ==
    ASSUME NEW r \in RxState, RxWithin(r), NEW b \in Packet
    PROVE  /\ r.sel \in Buffers /\ 1 - r.sel \in Buffers /\ r.buf \in [Buffers -> Packet]
           /\ r.buf[r.sel] \in Seq(Byte) /\ Len(r.buf[r.sel]) \in 0 .. N
           /\ r.pos \in 0 .. Len(r.buf[r.sel])
           /\ Rest(r) \in Seq(Byte) /\ Len(Rest(r)) = Len(r.buf[r.sel]) - r.pos
           /\ Waiting(r, b) \in Packet /\ Waiting(r, b) \in Seq(Byte)
           /\ Len(Waiting(r, b)) \in 0 .. N /\ N \in Nat
<1> USE DEF RxState
<1>1. r.sel \in Buffers /\ 1 - r.sel \in Buffers /\ r.buf \in [Buffers -> Packet]
  BY DEF Buffers
<1>2. r.buf[r.sel] \in Packet /\ N \in Nat  BY <1>1, CdcAssumption DEF N
<1>3. r.buf[r.sel] \in Seq(Byte) /\ Len(r.buf[r.sel]) \in 0 .. N
  BY <1>2, Packets, LenProperties
<1>4. r.pos \in 0 .. Len(r.buf[r.sel])  BY <1>2, <1>3 DEF RxWithin
<1>5. \A i \in 1 .. Len(r.buf[r.sel]) : r.buf[r.sel][i] \in Byte  BY <1>3, ElementOfSeq
<1>6. Rest(r) \in Seq(Byte) /\ Len(Rest(r)) = Len(r.buf[r.sel]) - r.pos
  <2> DEFINE s == r.buf[r.sel]
  <2>1. r.pos + 1 \in Int /\ Len(s) \in Int /\ \A i \in r.pos + 1 .. Len(s) : s[i] \in Byte
    BY <1>2, <1>3, <1>4, <1>5
  <2> HIDE DEF s
  <2>2. /\ SubSeq(s, r.pos + 1, Len(s)) \in Seq(Byte)
        /\ Len(SubSeq(s, r.pos + 1, Len(s))) =
              IF r.pos + 1 <= Len(s) THEN Len(s) - (r.pos + 1) + 1 ELSE 0
    BY <2>1, SubSeqProperties
  <2>3. r.pos \in 0 .. Len(s) /\ Len(s) \in Nat  BY <1>3, <1>4 DEF s
  <2> QED BY <2>2, <2>3 DEF Rest, s
<1>7. Waiting(r, b) \in Packet  BY <1>1 DEF Waiting
<1>8. Waiting(r, b) \in Seq(Byte) /\ Len(Waiting(r, b)) \in 0 .. N
  BY <1>2, <1>7, Packets, LenProperties
<1> QED BY <1>1, <1>2, <1>3, <1>4, <1>6, <1>7, <1>8

(* Switching the buffers moves no byte *)
LEMMA RxStartSame ==
    ASSUME NEW r \in RxState, RxWithin(r)
    PROVE  FromHostOf(RxStart(r), <<>>) = FromHostOf(r, <<>>)
<1>1. CASE RxHolds(r)  BY <1>1 DEF RxStart
<1>2. CASE ~RxHolds(r)
  <2> DEFINE new == RxStart(r)
             other == r.buf[1 - r.sel]
  <2>1. ~r.ongoing /\ Rest(r) = <<>>
    <3>1. ~(r.pos < Len(r.buf[r.sel]))  BY <1>2 DEF RxHolds
    <3>2. <<>> \in Packet  BY EmptyPacket
    <3>3. Len(r.buf[r.sel]) \in 0 .. N /\ N \in Nat /\ r.pos \in 0 .. Len(r.buf[r.sel])
      BY <3>2, RxTypes
    <3>4. Len(r.buf[r.sel]) < r.pos + 1 /\ r.pos + 1 \in Int /\ Len(r.buf[r.sel]) \in Int
      BY <3>1, <3>3
    <3> QED BY <1>2, <3>4, SubSeqEmpty DEF RxHolds, Rest
  <2>2. new = [r EXCEPT !.buf[r.sel] = <<>>, !.pos = 0, !.sel = 1 - r.sel, !.ongoing = TRUE]
    BY <1>2 DEF RxStart
  <2>3. r.sel # 1 - r.sel /\ r.sel \in Buffers /\ 1 - r.sel \in Buffers
    BY DEF Buffers, RxState
  <2>4. /\ new.pos = 0 /\ new.ongoing = TRUE /\ new.buf[new.sel] = other
    BY <2>2, <2>3 DEF RxState
  <2>5. other \in Seq(Byte)  BY <2>3, Packets DEF RxState
  <2>6. Rest(new) = other  BY <2>4, <2>5, SubSeqFull DEF Rest
  <2>7. FromHostOf(new, <<>>) = other \o <<>>  BY <2>4, <2>6 DEF FromHostOf, Waiting
  <2>8. FromHostOf(r, <<>>) = <<>> \o other  BY <2>1 DEF FromHostOf, Waiting
  <2> QED BY <2>5, <2>7, <2>8, ConcatEmptySeq
<1> QED BY <1>1, <1>2

LEMMA NumbersAgree == \A first, n : FromHost!Numbers(first, n) = Numbers(first, n)
                                   /\ ToHost!Numbers(first, n) = Numbers(first, n)
BY DEF FromHost!Numbers, ToHost!Numbers, Numbers

LEMMA FromHostInit == Init => FromHost!Init
<1> SUFFICES ASSUME Init PROVE FromHost!Init  OBVIOUS
<1>1. rx.buf[rx.sel] = <<>> /\ rx.buf[1 - rx.sel] = <<>> /\ rx.pos = 0 /\ rx.ongoing = FALSE
  BY DEF Init, Empty, Buffers
<1>2. Rest(rx) = <<>>
  <2>1. Len(<<>>) = 0  OBVIOUS
  <2> QED BY <1>1, <2>1, SubSeqEmpty DEF Rest
<1>3. <<>> \o <<>> = <<>>  OBVIOUS
<1>4. RxBytes = <<>>  BY <1>1, <1>2, <1>3, RxBytesOf DEF FromHostOf, Waiting
<1> QED BY <1>4 DEF Init, FromHost!Init

(* Every step puts bytes at the end, takes one from the front, breaks the  *)
(* line, or leaves the bytes under way unchanged                           *)
LEMMA FromHostStep ==
    ASSUME CdcInv, LinkInv, Steady, [Next]_vars
    PROVE  [FromHost!Next]_(FromHost!vars)
<1> DEFINE q == RxBytes
<1>0. rx \in RxState /\ RxWithin(rx) /\ bank \in Packet /\ <<>> \in Packet
      /\ running \in BOOLEAN /\ hnext \in Byte
  BY EmptyPacket DEF CdcInv, TypeOK
<1>1. ASSUME UNCHANGED <<RxBytes, hnext, mgot, running>> PROVE UNCHANGED FromHost!vars
  BY <1>1 DEF FromHost!vars
<1>2. ASSUME UNCHANGED <<rx, bank, hnext, mgot, running>> PROVE UNCHANGED FromHost!vars
  BY <1>1, <1>2 DEF RxBytes
<1>3. /\ Rest(rx) \in Seq(Byte) /\ Waiting(rx, bank) \in Seq(Byte)
      /\ Len(Rest(rx)) \in 0 .. N /\ Len(Waiting(rx, bank)) \in 0 .. N /\ N \in Nat \ {0}
      /\ q = Rest(rx) \o Waiting(rx, bank) /\ q \in Seq(Byte)
      /\ Len(q) = Len(Rest(rx)) + Len(Waiting(rx, bank))
  <2>1. /\ Rest(rx) \in Seq(Byte) /\ Waiting(rx, bank) \in Seq(Byte)
        /\ Len(Rest(rx)) = Len(rx.buf[rx.sel]) - rx.pos
        /\ Len(rx.buf[rx.sel]) \in 0 .. N /\ rx.pos \in 0 .. Len(rx.buf[rx.sel])
        /\ Len(Waiting(rx, bank)) \in 0 .. N /\ N \in Nat
    BY <1>0, RxTypes
  <2>2. Len(Rest(rx)) \in 0 .. N  BY <2>1
  <2>3. N \in Nat \ {0}  BY CdcAssumption DEF N
  <2> QED BY <2>1, <2>2, <2>3, RxBytesOf, ConcatProperties DEF FromHostOf
<1> HIDE DEF q
<1>4. CASE UNCHANGED vars
  BY <1>2, <1>4 DEF vars, usbVars, history
<1>5. CASE \/ DataSent \/ Sof \/ WriteBuf \/ WriteReady \/ WriteCopy \/ Poll \/ HostIn
           \/ GetcEpRun
  BY <1>2, <1>5 DEF DataSent, Sof, WriteBuf, WriteReady, WriteCopy, Poll, HostIn, GetcEpRun,
     usbVars, mainVars, history
<1>6. CASE GetcLock
  BY <1>2, <1>6 DEF GetcLock, usbVars, CdcInv, ByteKept
<1>7. CASE DataReceived
  <2> DEFINE r == [rx EXCEPT !.buf[1 - rx.sel] = bank, !.ongoing = FALSE]
  <2>1. rx.ongoing /\ bank' = <<>> /\ UNCHANGED <<hnext, mgot, running>>
    BY <1>7 DEF DataReceived, LinkInv, history
  <2>2. CASE bank = <<>>
    BY <1>2, <1>7, <2>1, <2>2 DEF DataReceived
  <2>3. CASE bank # <<>>
    <3>1. rx.sel \in Buffers /\ 1 - rx.sel \in Buffers /\ 1 - rx.sel # rx.sel
      BY <1>0 DEF RxState, Buffers
    <3>2. [rx.buf EXCEPT ![1 - rx.sel] = bank] \in [Buffers -> Packet]
      BY <1>0 DEF RxState
    <3>3. /\ r \in RxState /\ r.sel = rx.sel /\ r.pos = rx.pos /\ r.ongoing = FALSE
          /\ r.buf[r.sel] = rx.buf[rx.sel] /\ r.buf[1 - r.sel] = bank
      BY <1>0, <3>1, <3>2 DEF RxState
    <3>4. RxWithin(r) /\ Rest(r) = Rest(rx)  BY <1>0, <3>3 DEF RxWithin, Rest
    <3>5. rx' = RxStart(r)  BY <1>7, <2>3 DEF DataReceived
    <3> HIDE DEF r
    <3>6. FromHostOf(rx', bank') = FromHostOf(r, <<>>)
      BY <2>1, <3>3, <3>4, <3>5, RxStartSame
    <3>7. FromHostOf(r, <<>>) = FromHostOf(rx, bank)
      BY <2>1, <3>3, <3>4 DEF FromHostOf, Waiting
    <3>8. RxBytes' = FromHostOf(rx', bank')  BY DEF RxBytes, FromHostOf, Rest, Waiting
    <3> QED BY <1>1, <2>1, <3>6, <3>7, <3>8, RxBytesOf
  <2> QED BY <2>2, <2>3
<1>8. CASE GetcRxStart
  <2>1. rx' = RxStart(rx) /\ UNCHANGED <<bank, hnext, mgot, running>>
    BY <1>8 DEF GetcRxStart, history
  <2>2. CASE RxHolds(rx)
    BY <1>2, <2>1, <2>2 DEF RxStart
  <2>3. CASE ~RxHolds(rx)
    <3>1. bank = <<>>  BY <2>3 DEF RxHolds, LinkInv
    <3>2. FromHostOf(rx', bank') = FromHostOf(rx, bank)
      BY <1>0, <2>1, <3>1, RxStartSame
    <3>3. RxBytes' = FromHostOf(rx', bank')  BY DEF RxBytes, FromHostOf, Rest, Waiting
    <3> QED BY <1>1, <2>1, <3>2, <3>3, RxBytesOf
  <2> QED BY <2>2, <2>3
<1>9. CASE GetcTake
  <2> DEFINE s == rx.buf[rx.sel]
  <2>1. /\ sel = rx.sel /\ pos = rx.pos /\ pos < Len(s)
        /\ mgot' = <<s[pos + 1]>> /\ rx' = [rx EXCEPT !.pos = pos + 1]
        /\ UNCHANGED <<bank, hnext, running>>
    BY <1>9 DEF GetcTake, CdcInv, ByteKept
  <2>2. s \in Seq(Byte) /\ pos \in 0 .. Len(s) - 1 /\ Len(s) \in Nat
    <3>1. s \in Seq(Byte) /\ Len(s) \in 0 .. N /\ rx.pos \in 0 .. Len(s) /\ N \in Nat
      BY <1>0, RxTypes
    <3> HIDE DEF s
    <3> QED BY <2>1, <3>1
  <2>3. /\ rx'.buf = rx.buf /\ rx'.sel = rx.sel /\ rx'.pos = pos + 1
        /\ rx'.ongoing = rx.ongoing
    BY <1>0, <2>1 DEF RxState
  <2>4. Rest(rx) = SubSeq(s, pos + 1, Len(s))  BY <2>1 DEF Rest
  <2>5. Rest(rx') = SubSeq(s, (pos + 1) + 1, Len(s))  BY <2>3 DEF Rest
  <2> HIDE DEF s
  <2>6. (pos + 1) + 1 = pos + 2  BY <2>2
  <2>7. /\ Len(Rest(rx)) = Len(s) - pos /\ Rest(rx)[1] = s[pos + 1]
        /\ SubSeq(Rest(rx), 2, Len(Rest(rx))) = Rest(rx')
    BY <2>2, <2>4, <2>5, <2>6, CutTwice
  <2>8. 1 \in 0 .. Len(Rest(rx)) /\ Len(Rest(rx)) \in Nat  BY <2>2, <2>7
  <2>9. /\ SubSeq(q, 1, 1) = SubSeq(Rest(rx), 1, 1)
        /\ SubSeq(q, 1 + 1, Len(q)) = SubSeq(Rest(rx), 1 + 1, Len(Rest(rx))) \o Waiting(rx, bank)
    BY <1>3, <2>8, CutConcat
  <2>10. SubSeq(Rest(rx), 1, 1) = <<s[pos + 1]>>
    <3>1. Len(Rest(rx)) >= 1  BY <2>8
    <3> QED BY <1>3, <2>7, <3>1, FirstOf
  <2>11. q' = SubSeq(q, 1 + 1, Len(q))
    <3>1. q' = Rest(rx') \o Waiting(rx', bank')  BY DEF q, RxBytes, Rest, Waiting
    <3>2. Waiting(rx', bank') = Waiting(rx, bank)  BY <2>1, <2>3 DEF Waiting
    <3>3. SubSeq(Rest(rx), 1 + 1, Len(Rest(rx))) = Rest(rx')
      <4>1. 1 + 1 = 2  OBVIOUS
      <4> QED BY <2>7, <4>1
    <3> QED BY <2>9, <3>1, <3>2, <3>3
  <2>12. mgot' = SubSeq(q, 1, 1)  BY <2>1, <2>9, <2>10
  <2>13. 1 \in 1 .. Len(q)  BY <1>3, <2>8
  <2>14. FromHost!Take
    BY <2>1, <2>11, <2>12, <2>13 DEF FromHost!Take, q
  <2> QED BY <2>14 DEF FromHost!Next
<1>10. CASE HostOut
  <2>1. out_ep = "armed" /\ UNCHANGED <<rx, mgot, running>>  BY <1>10 DEF HostOut
  <2>2. rx.ongoing /\ bank = <<>>  BY <2>1 DEF LinkInv
  <2>3. PICK n \in 0 .. N : bank' = Numbers(hnext, n) /\ hnext' = (hnext + n) % Mod
    BY <1>10 DEF HostOut
  <2>4. q = Rest(rx) /\ Len(q) \in 0 .. N
    <3>1. Waiting(rx, bank) = <<>>  BY <2>2 DEF Waiting
    <3> QED BY <1>3, <3>1, ConcatEmptySeq
  <2>5. q' = q \o Numbers(hnext, n)
    BY <2>1, <2>2, <2>3, <2>4 DEF q, RxBytes, Rest
  <2>6. CASE n = 0
    <3>1. hnext' = hnext /\ Numbers(hnext, n) = <<>>
      <4>1. hnext \in Byte /\ hnext \in Nat /\ hnext < Mod /\ Mod \in Nat \ {0}
        BY <1>0, CdcAssumption DEF Byte
      <4>2. (hnext + 0) % Mod = hnext  BY <4>1
      <4>3. Numbers(hnext, 0) \in Seq(Byte) /\ Len(Numbers(hnext, 0)) = 0
        BY <1>3, <4>1, NumbersArePacket, Packets
      <4>4. Numbers(hnext, 0) = <<>>  BY <4>3, EmptySeq
      <4> QED BY <2>3, <2>6, <4>2, <4>4
    <3>2. q' = q  BY <1>3, <2>5, <3>1, ConcatEmptySeq
    <3> QED BY <1>1, <2>1, <3>1, <3>2 DEF q
  <2>7. CASE n # 0
    <3>1. n \in 1 .. 2 * N - Len(q)  BY <1>3, <2>3, <2>4, <2>7
    <3>2. FromHost!Put
      BY <2>1, <2>3, <2>5, <3>1, NumbersAgree DEF FromHost!Put, q
    <3> QED BY <3>2 DEF FromHost!Next
  <2> QED BY <2>6, <2>7
<1>11. CASE DataEnable
  <2>0. running' = ~running
    <3>1. ~running /\ running' = TRUE  BY Zenon, <1>11 DEF DataEnable
    <3> QED BY Zenon, <3>1
  <2> DEFINE r == [rx EXCEPT !.buf = Empty, !.sel = 0, !.pos = 0, !.ongoing = FALSE]
  <2>1. rx' = RxStart(r) /\ bank' = <<>> /\ running' = TRUE /\ UNCHANGED <<hnext, mgot>>
    BY <1>11 DEF DataEnable, history
  <2>2. Empty[0] = <<>> /\ Empty[1] = <<>> /\ 0 \in Buffers /\ 0 \in 0 .. N
    BY <1>3 DEF Empty, Buffers
  <2>3. /\ r \in RxState /\ r.pos = 0 /\ r.sel = 0 /\ r.buf = Empty /\ r.ongoing = FALSE
    BY <1>0, <2>2, EmptyPacket DEF RxState
  <2> HIDE DEF r
  <2>4. r.buf[r.sel] = <<>> /\ r.buf[1 - r.sel] = <<>> /\ Len(<<>>) = 0
    BY <2>2, <2>3
  <2>5. RxWithin(r) /\ Rest(r) = <<>>
    BY <2>3, <2>4, SubSeqEmpty DEF RxWithin, Rest
  <2>6. FromHostOf(r, <<>>) = <<>> \o <<>>  BY <2>3, <2>4, <2>5 DEF FromHostOf, Waiting
  <2>7. <<>> \o <<>> = <<>>  OBVIOUS
  <2>8. q' = FromHostOf(rx', <<>>)  BY <2>1 DEF q, RxBytes, FromHostOf, Rest, Waiting
  <2>9. q' = <<>>  BY <2>1, <2>3, <2>5, <2>6, <2>7, <2>8, RxStartSame
  <2>10. SubSeq(q, 1, 0) = <<>>  BY SubSeqEmpty
  <2>11. 1 \in 1 .. Len(q) + 1 /\ 0 \in 0 .. Len(q)  BY <1>3
  <2>12. FromHost!Break
    BY <2>0, <2>1, <2>9, <2>10, <2>11 DEF FromHost!Break, q
  <2> QED BY <2>12 DEF FromHost!Next
<1>12. CASE DataDisable
  <2>0. running' = ~running
    <3>1. running /\ running' = FALSE /\ running \in BOOLEAN
      BY Zenon, <1>0, <1>12 DEF DataDisable
    <3> QED BY Zenon, <3>1
  <2>1. bank' = <<>> /\ running' = FALSE /\ UNCHANGED <<rx, hnext, mgot>>
    BY <1>12 DEF DataDisable, history
  <2> DEFINE j == IF rx.ongoing THEN Len(Rest(rx)) ELSE Len(q)
  <2>2. Len(Rest(rx)) \in Nat /\ Len(q) \in Nat /\ j \in 0 .. Len(q)  BY <1>3
  <2>3. q' = SubSeq(q, 1, j)
    <3>1. CASE rx.ongoing
      <4>1. q' = Rest(rx) \o <<>>  BY <2>1, <3>1 DEF q, RxBytes, Rest
      <4>2. Len(Rest(rx)) \in 0 .. Len(Rest(rx))  BY <2>2
      <4>3. SubSeq(q, 1, Len(Rest(rx))) = SubSeq(Rest(rx), 1, Len(Rest(rx)))
        BY <1>3, <4>2, CutConcat
      <4>4. SubSeq(Rest(rx), 1, Len(Rest(rx))) = Rest(rx)  BY <1>3, SubSeqFull
      <4> QED BY <1>3, <3>1, <4>1, <4>3, <4>4, ConcatEmptySeq
    <3>2. CASE ~rx.ongoing
      <4>1. q' = q  BY <2>1, <3>2 DEF q, RxBytes
      <4> QED BY <1>3, <3>2, <4>1, SubSeqFull
    <3> QED BY <3>1, <3>2
  <2> HIDE DEF j
  <2>4. 1 \in 1 .. Len(q) + 1  BY <2>2
  <2>5. FromHost!Break
    BY <2>0, <2>1, <2>2, <2>3, <2>4 DEF FromHost!Break, q
  <2> QED BY <2>5 DEF FromHost!Next
<1> QED
  BY <1>4, <1>5, <1>6, <1>7, <1>8, <1>9, <1>10, <1>11, <1>12
  DEF Next, Interrupt, Line, Main, MainOwn
-----------------------------------------------------------------------------
(* What is under way to the host: the packet the endpoint has, or the      *)
(* buffer that waits for it because both are in use, and the buffer that   *)
(* is being filled                                                         *)
Ahead(t, e)    == IF IF t.ongoing THEN e = "queued" ELSE t.both THEN t.buf[1 - t.sel] ELSE <<>>
ToHostOf(t, e) == Ahead(t, e) \o t.buf[t.sel]

LEMMA TxBytesOf == TxBytes = ToHostOf(tx, in_ep) /\ TxBytes' = ToHostOf(tx', in_ep')
BY DEF TxBytes, ToHostOf, Ahead, InTransfer

LEMMA TxTypes ==
    ASSUME NEW t \in TxState, NEW e
    PROVE  /\ t.sel \in Buffers /\ 1 - t.sel \in Buffers /\ 1 - t.sel # t.sel
           /\ \A b \in Buffers : /\ t.buf[b] \in Packet /\ t.buf[b] \in Seq(Byte)
                                 /\ Len(t.buf[b]) \in 0 .. N
           /\ Ahead(t, e) \in Seq(Byte) /\ Len(Ahead(t, e)) \in 0 .. N
           /\ ToHostOf(t, e) \in Seq(Byte)
           /\ Len(ToHostOf(t, e)) = Len(Ahead(t, e)) + Len(t.buf[t.sel])
           /\ N \in Nat \ {0}
<1> USE DEF TxState
<1>1. t.sel \in Buffers /\ 1 - t.sel \in Buffers /\ 1 - t.sel # t.sel  BY DEF Buffers
<1>2. N \in Nat \ {0}  BY CdcAssumption DEF N
<1>3. \A s \in Packet : s \in Seq(Byte) /\ Len(s) \in 0 .. N  BY <1>2, Packets, LenProperties
<1>4. \A b \in Buffers : t.buf[b] \in Packet  OBVIOUS
<1>5. Ahead(t, e) \in Packet  BY <1>1, <1>4, EmptyPacket DEF Ahead
<1>6. /\ ToHostOf(t, e) \in Seq(Byte)
      /\ Len(ToHostOf(t, e)) = Len(Ahead(t, e)) + Len(t.buf[t.sel])
  BY <1>1, <1>3, <1>4, <1>5, ConcatProperties DEF ToHostOf
<1> QED BY <1>1, <1>2, <1>3, <1>4, <1>5, <1>6

(* Starting a transfer moves no byte: the buffer that waits goes first if  *)
(* both are in use, and the one being filled goes otherwise                *)
LEMMA TxSendSame ==
    ASSUME NEW t \in TxState, TxIdle(t), NEW e
    PROVE  ToHostOf(TxSend(t), IF TxHolds(t) THEN e ELSE "queued") = ToHostOf(t, e)
<1> DEFINE new == TxSend(t)
           here == t.buf[t.sel]
           other == t.buf[1 - t.sel]
<1>0. /\ t.sel \in Buffers /\ 1 - t.sel \in Buffers /\ 1 - (1 - t.sel) = t.sel
      /\ here \in Seq(Byte) /\ other \in Seq(Byte)
  BY TxTypes DEF Buffers
<1>1. CASE TxHolds(t)
  BY <1>1, TxSendIsFree DEF ToHostOf, Ahead
<1>2. CASE ~TxHolds(t)
  <2>1. ~t.ongoing  BY <1>2 DEF TxHolds
  <2>2. /\ new.ongoing = TRUE /\ new.buf = t.buf
        /\ new.sel = IF t.both THEN t.sel ELSE 1 - t.sel
    BY <1>2 DEF TxSend, TxHolds, TxState
  <2>3. ToHostOf(new, "queued") = t.buf[1 - new.sel] \o t.buf[new.sel]
    BY <2>2 DEF ToHostOf, Ahead
  <2>4. CASE t.both
    BY <1>2, <2>1, <2>2, <2>3, <2>4 DEF ToHostOf, Ahead
  <2>5. CASE ~t.both
    <3>1. other = <<>>  BY <2>1, <2>5 DEF TxIdle
    <3>2. ToHostOf(t, e) = <<>> \o here  BY <2>1, <2>5 DEF ToHostOf, Ahead
    <3>3. ToHostOf(new, "queued") = here \o <<>>  BY <1>0, <2>2, <2>3, <2>5, <3>1
    <3> QED BY <1>0, <1>2, <3>2, <3>3, ConcatEmptySeq
  <2> QED BY <2>4, <2>5
<1> QED BY <1>1, <1>2

LEMMA ToHostInit == Init => ToHost!Init
<1> SUFFICES ASSUME Init PROVE ToHost!Init  OBVIOUS
<1>1. tx.buf[tx.sel] = <<>> /\ tx.ongoing = FALSE /\ tx.both = FALSE
  BY DEF Init, Empty, Buffers
<1>2. <<>> \o <<>> = <<>>  OBVIOUS
<1>3. TxBytes = <<>>  BY <1>1, <1>2, TxBytesOf DEF ToHostOf, Ahead
<1> QED BY <1>3 DEF Init, ToHost!Init

(* Every step puts bytes at the end, takes a packet from the front, breaks *)
(* the line, or leaves the bytes under way unchanged                       *)
LEMMA ToHostStep ==
    ASSUME CdcInv, LinkInv, Steady, [Next]_vars
    PROVE  [ToHost!Next]_(ToHost!vars)
<1> DEFINE q == TxBytes
           here == tx.buf[tx.sel]
           ahead == Ahead(tx, in_ep)
<1>0. /\ tx \in TxState /\ TxIdle(tx) /\ todo \in Nat /\ wnext \in Byte
      /\ running \in BOOLEAN
  BY CdcAssumption DEF CdcInv, TypeOK
<1>1. ASSUME UNCHANGED <<TxBytes, wnext, hgot, running>> PROVE UNCHANGED ToHost!vars
  BY <1>1 DEF ToHost!vars
<1>2. ASSUME UNCHANGED <<tx, in_ep, wnext, hgot, running>> PROVE UNCHANGED ToHost!vars
  BY <1>1, <1>2, TxBytesOf
<1>3. /\ tx.sel \in Buffers /\ 1 - tx.sel \in Buffers /\ 1 - tx.sel # tx.sel
      /\ here \in Seq(Byte) /\ Len(here) \in 0 .. N
      /\ ahead \in Seq(Byte) /\ Len(ahead) \in 0 .. N
      /\ N \in Nat \ {0} /\ q \in Seq(Byte) /\ Len(q) = Len(ahead) + Len(here)
      /\ q = ahead \o here /\ q' = ToHostOf(tx', in_ep')
  <2>1. q = ToHostOf(tx, in_ep) /\ q' = ToHostOf(tx', in_ep')  BY TxBytesOf
  <2> QED BY <1>0, <2>1, TxTypes DEF ToHostOf
<1>4. CASE UNCHANGED vars
  BY <1>2, <1>4 DEF vars, usbVars, history
<1>5. CASE DataReceived \/ WriteBuf \/ Poll \/ GetcLock \/ GetcTake \/ GetcRxStart \/ GetcEpRun
           \/ HostOut
  BY <1>2, <1>5 DEF DataReceived, WriteBuf, Poll, GetcLock, GetcTake, GetcRxStart, GetcEpRun,
     HostOut, usbVars, history
<1>6. CASE DataSent
  <2> DEFINE t == [tx EXCEPT !.buf[1 - tx.sel] = <<>>, !.both = FALSE, !.ongoing = FALSE]
  <2>1. [tx.buf EXCEPT ![1 - tx.sel] = <<>>] \in [Buffers -> Packet]
    BY <1>0, EmptyPacket DEF TxState
  <2>2. /\ t \in TxState /\ TxIdle(t) /\ t.sel = tx.sel /\ t.buf[t.sel] = here
        /\ t.ongoing = FALSE /\ t.both = FALSE
    BY <1>0, <1>3, <2>1 DEF TxState, TxIdle
  <2>3. tx' = TxSend(t) /\ in_ep' = (IF TxHolds(t) THEN "idle" ELSE "queued")
        /\ UNCHANGED <<wnext, hgot, running>>
    BY <1>6 DEF DataSent, history
  <2>4. ahead = <<>>  BY <1>6 DEF DataSent, LinkInv, Ahead
  <2> HIDE DEF t, q, here
  <2>5. q' = ToHostOf(t, "idle")  BY <1>3, <2>2, <2>3, TxSendSame
  <2>6. ToHostOf(t, "idle") = <<>> \o here  BY <2>2 DEF ToHostOf, Ahead
  <2>7. q' = q  BY <1>3, <2>4, <2>5, <2>6
  <2> QED BY <1>1, <2>3, <2>7 DEF q
<1>7. CASE Sof
  <2> DEFINE t == [tx EXCEPT !.gate = FALSE]
  <2>1. /\ t \in TxState /\ TxIdle(t) /\ t.sel = tx.sel /\ t.buf = tx.buf
        /\ t.ongoing = tx.ongoing /\ t.both = tx.both
    BY <1>0 DEF TxState, TxIdle
  <2>2. tx' = TxSend(t) /\ in_ep' = (IF TxHolds(t) THEN in_ep ELSE "queued")
        /\ UNCHANGED <<wnext, hgot, running>>
    BY <1>7 DEF Sof, Sends, history
  <2> HIDE DEF t, q
  <2>3. q' = ToHostOf(t, in_ep)  BY <1>3, <2>1, <2>2, TxSendSame
  <2>4. ToHostOf(t, in_ep) = ToHostOf(tx, in_ep)  BY <2>1 DEF ToHostOf, Ahead
  <2>5. q' = q  BY <2>3, <2>4, TxBytesOf DEF q
  <2> QED BY <1>1, <2>2, <2>5 DEF q
<1>8. CASE WriteReady
  <2>1. tx' = GetFree(tx) /\ UNCHANGED <<in_ep, wnext, hgot, running>>
    BY <1>8 DEF WriteReady, history
  <2>2. CASE ~MovesOn(tx)  BY <1>2, <2>1, <2>2 DEF GetFree
  <2>3. CASE MovesOn(tx)
    <3>1. ~tx.ongoing /\ ~tx.both /\ tx.buf[1 - tx.sel] = <<>>
      BY <1>0, <2>3 DEF MovesOn, TxIdle
    <3>2. tx'.sel = 1 - tx.sel /\ tx'.both = TRUE /\ tx'.ongoing = tx.ongoing
          /\ tx'.buf = tx.buf
      BY <1>0, <2>1, <2>3 DEF GetFree, TxState
    <3>3. 1 - tx'.sel = tx.sel  BY <1>3, <3>2 DEF Buffers
    <3>4. ahead = <<>>  BY <3>1 DEF Ahead
    <3> HIDE DEF q
    <3>5. q' = here \o <<>>  BY <1>3, <3>1, <3>2, <3>3 DEF ToHostOf, Ahead
    <3>6. q' = q  BY <1>3, <3>4, <3>5, ConcatEmptySeq
    <3> QED BY <1>1, <2>1, <3>6 DEF q
  <2> QED BY <2>2, <2>3
<1>9. CASE WriteCopy
  <2> DEFINE n == Smaller(todo, N - Len(here))
             more == Numbers(wnext, n)
  <2>1. /\ tx' = [tx EXCEPT !.buf[tx.sel] = here \o more] /\ wnext' = (wnext + n) % Mod
        /\ UNCHANGED <<in_ep, hgot, running>>
    BY <1>9 DEF WriteCopy
  <2>2. todo > 0 /\ Len(here) < N
    BY <1>9 DEF WriteCopy, LinkInv, CdcInv, RoomKept
  <2>3. n \in 1 .. N - Len(here)  BY <1>0, <1>3, <2>2 DEF Smaller
  <2> HIDE DEF n
  <2>4. n \in 0 .. N /\ n \in 1 .. 2 * N - Len(q)
    <3> HIDE DEF q, here, ahead
    <3> QED BY <1>3, <2>3
  <2>5. more \in Seq(Byte)  BY <1>0, <2>4, NumbersArePacket, Packets
  <2>6. /\ tx'.sel = tx.sel /\ tx'.ongoing = tx.ongoing /\ tx'.both = tx.both
        /\ tx'.buf[tx.sel] = here \o more /\ tx'.buf[1 - tx.sel] = tx.buf[1 - tx.sel]
    BY <1>0, <1>3, <2>1 DEF TxState
  <2>7. Ahead(tx', in_ep') = ahead  BY <2>1, <2>6 DEF Ahead
  <2> HIDE DEF q, here, ahead, more
  <2>8. q' = ahead \o (here \o more)  BY <1>3, <2>6, <2>7 DEF ToHostOf
  <2>9. q' = q \o more  BY <1>3, <2>5, <2>8, ConcatAssociative
  <2>10. ToHost!Put
    BY <2>1, <2>4, <2>9, NumbersAgree DEF ToHost!Put, q, more
  <2> QED BY <2>10 DEF ToHost!Next
<1>10. CASE HostIn
  <2>1. /\ in_ep = "queued" /\ in_ep' = "taken" /\ UNCHANGED <<tx, wnext, running>>
        /\ hgot' = IF InTransfer = <<>> THEN hgot ELSE InTransfer
    BY <1>10 DEF HostIn
  <2>2. tx.ongoing /\ ahead = InTransfer  BY <2>1 DEF LinkInv, Ahead, InTransfer
  <2> HIDE DEF q
  <2>3. q' = <<>> \o here  BY <1>3, <2>1, <2>2 DEF ToHostOf, Ahead
  <2> HIDE DEF here, ahead
  <2>4. CASE ahead = <<>>
    <3>1. q' = q  BY <1>3, <2>3, <2>4
    <3> QED BY <1>1, <2>1, <2>2, <2>4, <3>1 DEF q
  <2>5. CASE ahead # <<>>
    <3>1. Len(ahead) \in 0 .. Len(ahead) /\ Len(ahead) \in 1 .. Len(q)
      BY <1>3, <2>5, EmptySeq
    <3>2. /\ SubSeq(q, 1, Len(ahead)) = SubSeq(ahead, 1, Len(ahead))
          /\ SubSeq(q, Len(ahead) + 1, Len(q)) =
                SubSeq(ahead, Len(ahead) + 1, Len(ahead)) \o here
      BY <1>3, <3>1, CutConcat
    <3>3. SubSeq(ahead, 1, Len(ahead)) = ahead  BY <1>3, SubSeqFull
    <3>4. SubSeq(ahead, Len(ahead) + 1, Len(ahead)) = <<>>  BY <1>3, SubSeqEmpty
    <3>5. ToHost!Take
      BY <2>1, <2>2, <2>3, <2>5, <3>1, <3>2, <3>3, <3>4 DEF ToHost!Take, q
    <3> QED BY <3>5 DEF ToHost!Next
  <2> QED BY <2>4, <2>5
<1>11. CASE DataEnable
  <2>0. running' = ~running
    <3>1. ~running /\ running' = TRUE  BY Zenon, <1>11 DEF DataEnable
    <3> QED BY Zenon, <3>1
  <2> DEFINE t == [tx EXCEPT !.buf = Empty, !.sel = 0, !.both = FALSE,
                             !.ongoing = FALSE, !.gate = FALSE]
  <2>1. /\ tx' = TxSend(t) /\ in_ep' = (IF TxHolds(t) THEN "idle" ELSE "queued")
        /\ running' = TRUE /\ UNCHANGED <<wnext, hgot>>
    BY <1>11 DEF DataEnable, history
  <2>2. Empty[0] = <<>> /\ Empty[1] = <<>> /\ 0 \in Buffers  BY DEF Empty, Buffers
  <2>3. t \in TxState /\ t.buf[t.sel] = <<>> /\ t.buf[1 - t.sel] = <<>>
        /\ t.both = FALSE /\ t.ongoing = FALSE
    BY <1>0, <2>2, EmptyPacket DEF TxState
  <2>4. TxIdle(t)  BY <2>3 DEF TxIdle
  <2> HIDE DEF t, q
  <2>5. q' = ToHostOf(t, "idle")  BY <1>3, <2>1, <2>3, <2>4, TxSendSame
  <2>6. <<>> \o <<>> = <<>>  OBVIOUS
  <2>7. q' = <<>>  BY <2>3, <2>5, <2>6 DEF ToHostOf, Ahead
  <2>8. SubSeq(q, 1, 0) = <<>>  BY SubSeqEmpty
  <2>9. 1 \in 1 .. Len(q) + 1 /\ 0 \in 0 .. Len(q)  BY <1>3
  <2>10. ToHost!Break  BY <2>0, <2>1, <2>7, <2>8, <2>9 DEF ToHost!Break, q
  <2> QED BY <2>10 DEF ToHost!Next
<1>12. CASE DataDisable
  <2>0. running' = ~running
    <3>1. running /\ running' = FALSE /\ running \in BOOLEAN
      BY Zenon, <1>0, <1>12 DEF DataDisable
    <3> QED BY Zenon, <3>1
  <2>1. in_ep' = "idle" /\ running' = FALSE /\ UNCHANGED <<tx, wnext, hgot>>
    BY <1>12 DEF DataDisable, history
  <2> DEFINE i == IF tx.ongoing THEN Len(ahead) + 1 ELSE 1
  <2> HIDE DEF q
  <2>2. i \in 1 .. Len(q) + 1 /\ Len(q) \in 0 .. Len(q)
    <3> HIDE DEF ahead, here
    <3> QED BY <1>3
  <2>3. q' = SubSeq(q, i, Len(q))
    <3>1. CASE tx.ongoing
      <4>1. q' = <<>> \o here  BY <1>3, <2>1, <3>1 DEF ToHostOf, Ahead
      <4> HIDE DEF ahead, here
      <4>2. Len(ahead) \in 0 .. Len(ahead)  BY <1>3
      <4>3. SubSeq(q, Len(ahead) + 1, Len(q)) =
              SubSeq(ahead, Len(ahead) + 1, Len(ahead)) \o here
        BY <1>3, <4>2, CutConcat
      <4>4. SubSeq(ahead, Len(ahead) + 1, Len(ahead)) = <<>>  BY <1>3, SubSeqEmpty
      <4> QED BY <3>1, <4>1, <4>3, <4>4
    <3>2. CASE ~tx.ongoing
      <4>1. q' = q  BY <1>3, <2>1, <3>2 DEF ToHostOf, Ahead
      <4> QED BY <1>3, <3>2, <4>1, SubSeqFull
    <3> QED BY <3>1, <3>2
  <2> HIDE DEF i
  <2>4. ToHost!Break  BY <2>0, <2>1, <2>2, <2>3 DEF ToHost!Break, q
  <2> QED BY <2>4 DEF ToHost!Next
<1> QED
  BY <1>4, <1>5, <1>6, <1>7, <1>8, <1>9, <1>10, <1>11, <1>12
  DEF Next, Interrupt, Line, Main, MainOwn

-----------------------------------------------------------------------------
PipeInv == CdcInv /\ LinkInv

LEMMA PipeInvariant == ASSUME Steady PROVE Spec => []PipeInv
<1>1. Steady  OBVIOUS
<1>2. Init => PipeInv  BY InitInv, LinkInit DEF PipeInv
<1>3. PipeInv /\ [Next]_vars => PipeInv'  BY <1>1, CdcStep, LinkStep DEF PipeInv
<1> QED BY <1>2, <1>3, PTL DEF Spec

(* What the host sends reaches the badge byte by byte, once and in order,  *)
(* and none is lost but where the line goes down or comes up: the double   *)
(* buffer and the endpoint of udi_cdc.c implement a pipe.                  *)
THEOREM FromHostIsPipe == Steady => (Spec => FromHostPipe)
<1> SUFFICES ASSUME Steady PROVE Spec => FromHostPipe  OBVIOUS
<1>1. PipeInv /\ [Next]_vars => [FromHost!Next]_(FromHost!vars)
  BY FromHostStep DEF PipeInv
<1>2. Spec => []PipeInv  BY PipeInvariant
<1> QED BY <1>1, <1>2, FromHostInit, PTL DEF Spec, FromHostPipe, FromHost!Spec

(* What the badge writes reaches the host once and in order, and none is   *)
(* lost but where the line goes down or comes up, whichever buffers the    *)
(* interrupts switch in between (the safety part of ToHostPipe).           *)
THEOREM ToHostIsPipe == Steady => (Spec => ToHost!Spec)
<1> SUFFICES ASSUME Steady PROVE Spec => ToHost!Spec  OBVIOUS
<1>1. PipeInv /\ [Next]_vars => [ToHost!Next]_(ToHost!vars)
  BY ToHostStep DEF PipeInv
<1>2. Spec => []PipeInv  BY PipeInvariant
<1> QED BY <1>1, <1>2, ToHostInit, PTL DEF Spec, ToHost!Spec
=============================================================================
