------------------------------ MODULE RingProofs ------------------------------
(***************************************************************************)
(* The ring of buffers, for every size of memory and every ring of three   *)
(* buffers or more: the handler never searches a buffer the PDC may write  *)
(* (HandlerOwnsBuffer), no acquisition is left RUNNING with nothing        *)
(* driving it (NeverStranded), what is delivered is the samples from the   *)
(* trigger on (WindowExact), and the applications keep the promise of      *)
(* Acquisition.                                                            *)
(*                                                                         *)
(* The argument: until the trigger is found the ring is as la_start_acq    *)
(* made it, and the buffer the handler is given, the one the PDC fills and *)
(* the one it fills next are three in a row.  With three buffers they are  *)
(* three different ones, and buffers lie one behind the other.  Around the *)
(* ring the PDC leaves consecutive samples, the latest just behind it; the *)
(* buffer the trigger is found in is cut there and made the last one, so   *)
(* that the PDC stops where the trigger is, with what came after the       *)
(* trigger all around the ring.                                            *)
(***************************************************************************)
EXTENDS LogicAnalyzerProofs, LoopLemmas

(* The settings of an acquisition stay as they were when it was started    *)
(* (the PDC may overrun the handler, and the user leave early).            *)
Settled == Env \subseteq {"overrun", "exit_busy"}

Size(i)      == ioc_buffers[i].size
Following(i) == (i + 1) % BuffersCnt

(* The c bytes from p on lie in buffer i *)
Holds(i, p, c) == ioc_buffers[i].addr <= p /\ p + c <= ioc_buffers[i].addr + Size(i)

(* The buffers of the ring lie one behind the other *)
RingOrdered ==
    \A i, j \in BufferIds :
        i < j => ioc_buffers[i].addr + Size(i) <= ioc_buffers[j].addr

(* As la_start_acq made it: buffers of one size; the last one is marked    *)
(* unless a trigger is looked for                                          *)
RingFresh ==
    /\ \A i, j \in BufferIds : Size(i) = Size(j)
    /\ \A i \in BufferIds : Last(i) => ~la_trigger_mask /\ i = BuffersCnt - 1

(* The ring is as it was made until the trigger is found *)
Untouched ==
    /\ pc \in {"run", "current", "count", "next"} => la_trig_offset = UINT_MAX
    /\ la_trig_offset = UINT_MAX /\ (busy \/ pc = "run") => RingFresh

(* The PDC fills the first buffer when ioc_start hands it the second one   *)
Starting ==
    /\ pc \in {"current", "count", "next"} => ioc_buffer_idx = 0
    /\ pc = "next" => rnc = 0 /\ (rc > 0 => ~endrx /\ Holds(0, rp, rc))

Searching == busy /\ la_trig_offset = UINT_MAX /\ pc \notin {"current", "count", "next"}

(* While the trigger is looked for, the PDC fills the buffer of            *)
(* ioc_buffer_current or, once ENDRX has been raised, that of              *)
(* ioc_buffer_idx, the one after it; the handler searches the one before   *)
InARow ==
    /\ ioc_buffer_idx = Following(ioc_buffer_current)
    /\ ~la_trigger_mask => ioc_buffer_current = IF isr = "handler" THEN 1 ELSE 0
    /\ isr = "handler" => ioc_buffer_current = Following(cur_buf)

Filled ==
    /\ rc > 0 => \/ Holds(ioc_buffer_idx, rp, rc)
                 \/ ~endrx /\ Holds(ioc_buffer_current, rp, rc)
    /\ rnc > 0 => rc > 0 /\ ~endrx /\ Holds(ioc_buffer_idx, rnp, rnc)

Before == Searching => InARow /\ Filled

RInv == WInv /\ RingOrdered /\ Untouched /\ Starting /\ Before

-----------------------------------------------------------------------------
(* What types and assumptions say of the numbers below *)
LEMMA RTypes ==
    ASSUME TInv
    PROVE  /\ rp \in Nat /\ rc \in Nat /\ rnp \in Nat /\ rnc \in Nat
           /\ ioc_buffer_idx \in BufferIds /\ ioc_buffer_current \in BufferIds
           /\ cur_buf \in BufferIds
           /\ \A i \in BufferIds : ioc_buffers[i].addr \in Nat /\ Size(i) \in Nat
           /\ 0 \in BufferIds /\ BuffersCnt \in Nat /\ BuffersCnt >= 2
           /\ endrx \in BOOLEAN
<1>1. BufferSize \in Nat /\ BuffersCnt \in Nat /\ BuffersCnt >= 2 /\ 0 \in BufferIds
  BY ConstAssumption DEF BufferIds
<1>2. \A i \in BufferIds : ioc_buffers[i] \in IocBuffer
  BY DEF TInv, TypeOK, RingTypeOK
<1>3. \A i \in BufferIds : ioc_buffers[i].addr \in Nat /\ Size(i) \in Nat
  BY <1>1, <1>2 DEF IocBuffer, Size
<1>4. rp \in Nat /\ rc \in Nat /\ rnp \in Nat /\ rnc \in Nat
  BY <1>1 DEF TInv, TypeOK, PdcTypeOK
<1>5. endrx \in BOOLEAN  BY DEF TInv, TypeOK, FlagTypeOK
<1> QED BY <1>1, <1>3, <1>4, <1>5 DEF TInv, TypeOK, RingTypeOK

(* Two in a row of three or more are different, and so are three *)
LEMMA ThreeInARow ==
    ASSUME BuffersCnt >= 3, NEW i \in BufferIds
    PROVE  /\ Following(i) \in BufferIds /\ Following(Following(i)) \in BufferIds
           /\ Following(i) # i /\ Following(Following(i)) # i
           /\ Following(0) = 1 /\ Following(1) # 1
<1> DEFINE n == BuffersCnt
<1>1. n \in Nat /\ n >= 3 /\ i \in Nat /\ i < n  BY ConstAssumption DEF BufferIds
<1> HIDE DEF n
<1>2. \A k \in 0 .. n - 1 : (k + 1) % n = IF k + 1 = n THEN 0 ELSE k + 1
  <2> SUFFICES ASSUME NEW k \in 0 .. n - 1
               PROVE  (k + 1) % n = IF k + 1 = n THEN 0 ELSE k + 1
    OBVIOUS
  <2>1. CASE k + 1 = n  BY <1>1, <2>1
  <2>2. CASE k + 1 # n  BY <1>1, <2>2
  <2> QED BY <2>1, <2>2
<1>3. \A k \in 0 .. n - 1 : Following(k) = IF k + 1 = n THEN 0 ELSE k + 1
  BY <1>2 DEF Following, n
<1>4. i \in 0 .. n - 1 /\ 0 \in 0 .. n - 1 /\ 1 \in 0 .. n - 1 /\ BufferIds = 0 .. n - 1
  BY <1>1 DEF BufferIds, n
<1>5. Following(i) \in 0 .. n - 1 /\ Following(i) # i  BY <1>1, <1>3, <1>4
<1>6. Following(Following(i)) = IF Following(i) + 1 = n THEN 0 ELSE Following(i) + 1
  BY <1>3, <1>5
<1>7. Following(i) = IF i + 1 = n THEN 0 ELSE i + 1  BY <1>3, <1>4
<1>8. Following(Following(i)) \in 0 .. n - 1 /\ Following(Following(i)) # i
  BY <1>1, <1>6, <1>7
<1>9. Following(0) = 1 /\ Following(1) # 1  BY <1>1, <1>3, <1>4
<1> QED BY <1>4, <1>5, <1>8, <1>9

(* Buffers that are not the same do not overlap *)
LEMMA Apart ==
    ASSUME TInv, RingOrdered, NEW i \in BufferIds, NEW j \in BufferIds, i # j,
           NEW p \in Nat, NEW c \in Nat, c > 0, Holds(i, p, c)
    PROVE  ~(p >= ioc_buffers[j].addr /\ p < ioc_buffers[j].addr + Size(j))
<1>1. i \in Nat /\ j \in Nat  BY ConstAssumption DEF BufferIds
<1>2. /\ ioc_buffers[i].addr \in Nat /\ Size(i) \in Nat
      /\ ioc_buffers[j].addr \in Nat /\ Size(j) \in Nat
  BY RTypes
<1>3. CASE i < j
  BY <1>2, <1>3 DEF RingOrdered, Holds
<1>4. CASE j < i
  BY <1>2, <1>4 DEF RingOrdered, Holds
<1> QED BY <1>1, <1>3, <1>4

(* ioc_set_next_buffer hands the PDC the buffer after the one it fills, or *)
(* is about to *)
LEMMA SetNextSupplies ==
    ASSUME TInv, BuffersCnt >= 3, RingFresh, SetNextBuffer, UNCHANGED ioc_buffers,
           ~Last(ioc_buffer_idx), rnc = 0,
           rc > 0 => Holds(ioc_buffer_idx, rp, rc)
    PROVE  /\ ioc_buffer_idx' = Following(ioc_buffer_idx)
           /\ ioc_buffer_current' = ioc_buffer_idx
           /\ rc' > 0 => \/ Holds(ioc_buffer_idx, rp, rc)'
                         \/ ~endrx' /\ Holds(ioc_buffer_current, rp, rc)'
           /\ rnc' > 0 => rc' > 0 /\ ~endrx' /\ Holds(ioc_buffer_idx, rnp, rnc)'
           /\ Size(ioc_buffer_idx) > 0 => ~RxBuff'
<1> DEFINE i == ioc_buffer_idx
           j == Following(ioc_buffer_idx)
           b == ioc_buffers[j]
<1>1. i \in BufferIds /\ j \in BufferIds  BY RTypes, ThreeInARow
<1>2. i' = j /\ ioc_buffer_current' = i /\ WriteNext(b)
  BY DEF SetNextBuffer, Last, Following
<1>3. /\ rp \in Nat /\ rc \in Nat /\ b.addr \in Nat /\ b.size \in Nat
      /\ ioc_buffers[i].addr \in Nat /\ Size(i) \in Nat /\ Size(i) = b.size
  BY <1>1, RTypes DEF RingFresh, Size
<1>4. CASE rc = 0 /\ b.size > 0
  <2>1. rp' = b.addr /\ rc' = b.size /\ rnc' = 0  BY <1>2, <1>4 DEF WriteNext
  <2>2. Holds(ioc_buffer_idx, rp, rc)'
    <3>1. ioc_buffers'[ioc_buffer_idx'] = b  BY <1>2
    <3>2. b.addr <= rp' /\ rp' + rc' <= b.addr + b.size  BY <1>3, <2>1
    <3> QED BY <3>1, <3>2 DEF Holds, Size
  <2> QED BY <1>2, <1>3, <1>4, <2>1, <2>2 DEF RxBuff
<1>5. CASE ~(rc = 0 /\ b.size > 0)
  <2>1. /\ rnp' = b.addr /\ rnc' = b.size /\ endrx' = (endrx /\ b.size = 0)
        /\ rp' = rp /\ rc' = rc
    BY <1>2, <1>5 DEF WriteNext
  <2>2. rc > 0 => Size(i) > 0  BY <1>3 DEF Holds
  <2>3. ASSUME rc > 0 PROVE ~endrx' /\ Holds(ioc_buffer_current, rp, rc)'
    <3>1. b.size # 0  BY <1>3, <2>2, <2>3
    <3>2. ~endrx'  BY <2>1, <3>1
    <3>3. Holds(ioc_buffer_current, rp, rc)'
      BY <1>2, <2>1, <2>3 DEF Holds, Size
    <3> QED BY <3>2, <3>3
  <2>4. ASSUME rnc' > 0 PROVE rc' > 0 /\ ~endrx' /\ Holds(ioc_buffer_idx, rnp, rnc)'
    <3>1. b.size > 0 /\ rc > 0  BY <1>3, <1>5, <2>1, <2>4
    <3>2. ioc_buffers'[ioc_buffer_idx'] = b  BY <1>2
    <3>3. b.addr <= rnp' /\ rnp' + rnc' <= b.addr + b.size  BY <1>3, <2>1
    <3>4. Holds(ioc_buffer_idx, rnp, rnc)'  BY <3>2, <3>3 DEF Holds, Size
    <3> QED BY <2>1, <2>3, <3>1, <3>4
  <2>5. Size(i) > 0 => ~RxBuff'  BY <1>3, <2>1 DEF RxBuff
  <2> QED BY <1>2, <2>1, <2>3, <2>4, <2>5
<1> QED BY <1>4, <1>5

-----------------------------------------------------------------------------
(* The steps *)

LEMMA RInit == Init => RingOrdered /\ Untouched /\ Starting /\ Before
<1> SUFFICES ASSUME Init PROVE RingOrdered /\ Untouched /\ Starting /\ Before
  OBVIOUS
<1>1. \A i \in BufferIds : ioc_buffers[i].addr = 0 /\ Size(i) = 0
  BY DEF Init, IocInit, Size
<1>2. RingOrdered  BY <1>1 DEF RingOrdered
<1> QED BY <1>2 DEF Init, IocInit, Untouched, Starting, Before, Searching

(* Steps of the main program and the user that leave the ring, the PDC and *)
(* the handler alone *)
LEMMA RElsewhere ==
    ASSUME RInv,
           UNCHANGED <<ioc_buffers, ioc_buffer_idx, ioc_buffer_current, rp, rc, rnp, rnc, endrx,
                       isr, cur_buf, busy>>,
           pc' \notin {"run", "current", "count", "next"} /\ (pc \notin {"current", "count", "next"} \/ ~busy),
           ~busy \/ UNCHANGED <<la_trig_offset, la_trigger_mask>>
    PROVE  RingOrdered' /\ Untouched' /\ Starting' /\ Before'
<1>1. RingOrdered'  BY DEF RInv, RingOrdered, Size
<1>2. CASE ~busy
  BY <1>1, <1>2 DEF RInv, Untouched, Starting, Before, Searching
<1>3. CASE busy /\ UNCHANGED <<la_trig_offset, la_trigger_mask>>
  BY <1>1, <1>3 DEF RInv, Untouched, RingFresh, Size, Last, Starting, Before, Searching, InARow,
     Filled, RxBuff, Holds
<1> QED BY <1>2, <1>3

(* The PDC fills its buffer, and goes on with the next one *)
LEMMA RPdc == ASSUME RInv, Pdc PROVE RingOrdered' /\ Untouched' /\ Starting' /\ Before'
<1>1. /\ rc > 0
      /\ IF rc = 1 THEN /\ endrx' = TRUE /\ rnc' = 0 /\ rc' = rnc
                        /\ rp' = IF rnc > 0 THEN rnp ELSE rp + 1
                   ELSE rc' = rc - 1 /\ rp' = rp + 1 /\ UNCHANGED <<rnc, endrx>>
      /\ UNCHANGED <<rnp, busy, ioc_buffers, ioc_buffer_idx, ioc_buffer_current, isr, cur_buf,
                     pc, la_trig_offset, la_trigger_mask>>
  BY DEF Pdc, PdcStore, enVars, ringVars, isrVars, laVars, mainVars
<1>2. /\ rp \in Nat /\ rc \in Nat /\ rnp \in Nat /\ rnc \in Nat
      /\ ioc_buffer_idx \in BufferIds /\ ioc_buffer_current \in BufferIds /\ 0 \in BufferIds
      /\ \A i \in BufferIds : ioc_buffers[i].addr \in Nat /\ Size(i) \in Nat
  BY RTypes DEF RInv, WInv
<1>3. RingOrdered' /\ Untouched'
  BY <1>1 DEF RInv, RingOrdered, Untouched, RingFresh, Size, Last
<1>4. ASSUME NEW i \in BufferIds, Holds(i, rp, rc), rc # 1
      PROVE  Holds(i, rp, rc)'
  <2>1. ioc_buffers[i].addr \in Nat /\ Size(i) \in Nat  BY <1>2
  <2>2. ioc_buffers[i].addr <= rp + 1 /\ (rp + 1) + (rc - 1) <= ioc_buffers[i].addr + Size(i)
    BY <1>2, <1>4, <2>1 DEF Holds
  <2> QED BY <1>1, <1>4, <2>2 DEF Holds, Size
<1>5. ~(~busy \/ pc \in {"run", "current", "count"})
  BY <1>1 DEF RInv, WInv, Idle, RxBuff
<1>6. Starting'
  <2>1. pc = "next" => rnc' = 0 /\ (rc' > 0 => ~endrx' /\ Holds(0, rp, rc)')
    BY <1>1, <1>2, <1>4 DEF RInv, Starting
  <2> QED BY <1>1, <1>5, <2>1 DEF RInv, Starting
<1>7. Before'
  <2> SUFFICES ASSUME Searching' PROVE InARow' /\ Filled'
    BY DEF Before
  <2>1. Searching /\ InARow /\ Filled  BY <1>1 DEF Searching, RInv, Before
  <2>4. InARow'  BY <1>1, <2>1 DEF InARow
  <2>2. CASE rc = 1
    <3>1. rc' > 0 => Holds(ioc_buffer_idx, rp, rc)'
      <4>1. rc' > 0 => Holds(ioc_buffer_idx, rnp, rnc) /\ rp' = rnp /\ rc' = rnc
        BY <1>1, <2>1, <2>2 DEF Filled
      <4> QED BY <1>1, <4>1 DEF Holds, Size
    <3> QED BY <1>1, <2>1, <2>4, <2>2, <3>1 DEF Filled
  <2>3. CASE rc # 1
    <3>1. Holds(ioc_buffer_idx, rp, rc)' \/ (~endrx' /\ Holds(ioc_buffer_current, rp, rc)')
      BY <1>1, <1>2, <1>4, <2>1, <2>3 DEF Filled
    <3>2. rnc' > 0 => rc' > 0 /\ ~endrx' /\ Holds(ioc_buffer_idx, rnp, rnc)'
      <4>1. rc - 1 > 0  BY <1>1, <1>2, <2>3
      <4> QED BY <1>1, <2>1, <2>3, <4>1 DEF Filled, Holds, Size
    <3> QED BY <1>1, <2>1, <2>4, <3>1, <3>2 DEF Filled
  <2> QED BY <2>2, <2>3
<1> QED BY <1>3, <1>6, <1>7

(* PIOA_Handler supplies the third buffer in the row while it searches the *)
(* first, and touches the ring only when it has found the trigger          *)
LEMMA RIsr ==
    ASSUME RInv, BuffersCnt >= 3, Isr
    PROVE  RingOrdered' /\ Untouched' /\ Starting' /\ Before'
<1>1. /\ ioc_buffer_idx \in BufferIds /\ ioc_buffer_current \in BufferIds /\ rc \in Nat /\ rnc \in Nat
      /\ cur_buf \in BufferIds
      /\ \A i \in BufferIds : ioc_buffers[i].addr \in Nat /\ Size(i) \in Nat
  BY RTypes DEF RInv, WInv
<1>2. irq /\ busy /\ pc \notin {"run", "current", "count", "next"}
  <2>1. irq  BY DEF Isr, IsrEnter, IsrExit, IsrHandler, IrqPending, RInv, WInv, Phases
  <2> QED BY <2>1 DEF RInv, WInv, Phases
<1>3. CASE IsrEnter /\ UNCHANGED <<laVars, mainVars, out, trigSample>>
  <2>1. /\ isr = "off" /\ IrqPending /\ cur_buf' = ioc_buffer_current
        /\ UNCHANGED <<ioc_buffers, busy, pc, la_trig_offset, la_trigger_mask>>
    BY <1>3 DEF IsrEnter, laVars, mainVars
  <2>2. RingOrdered' /\ Untouched' /\ Starting'
    BY <1>2, <2>1 DEF RInv, RingOrdered, Untouched, RingFresh, Size, Last, Starting
  <2>3. Before'
    <3> SUFFICES ASSUME Searching' PROVE InARow' /\ Filled'
      BY DEF Before
    <3>1. InARow /\ Filled /\ RingFresh
      BY <2>1 DEF Searching, RInv, Before, Untouched
    <3>2. CASE ioc_stop_acq
      <4>1. isr' = "status"
            /\ UNCHANGED <<ioc_buffer_idx, ioc_buffer_current, rp, rc, rnp, rnc, endrx>>
        BY <1>3, <3>2 DEF IsrEnter, pdcVars
      <4> QED BY <2>1, <3>1, <4>1 DEF InARow, Filled, Holds, Size
    <3>3. CASE ~ioc_stop_acq
      <4>1. isr' = "handler" /\ SetNextBuffer  BY <1>3, <3>3 DEF IsrEnter
      <4>2. ~la_trigger_mask => ioc_buffer_idx = 1
        <5>1. 0 \in BufferIds => Following(0) = 1  BY ThreeInARow
        <5> QED BY <1>1, <2>1, <3>1, <5>1 DEF InARow
      <4>3. ~Last(ioc_buffer_idx)
        <5>1. 1 # BuffersCnt - 1  BY ConstAssumption
        <5> QED BY <1>1, <3>1, <4>2, <5>1 DEF RingFresh
      <4>4. rnc = 0 /\ (rc > 0 => Holds(ioc_buffer_idx, rp, rc))
        BY <1>1, <2>1, <3>1 DEF Filled, IrqPending, RxBuff
      <4>5. Filled' /\ ioc_buffer_idx' = Following(ioc_buffer_idx)
            /\ ioc_buffer_current' = ioc_buffer_idx
        BY <2>1, <3>1, <4>1, <4>3, <4>4, SetNextSupplies DEF RInv, WInv, Filled
      <4>6. InARow'
        BY <2>1, <3>1, <4>1, <4>2, <4>5 DEF InARow, Following
      <4> QED BY <4>5, <4>6
    <3> QED BY <3>2, <3>3
  <2> QED BY <2>2, <2>3
<1>4. CASE IsrExit /\ UNCHANGED <<laVars, mainVars, out, trigSample>>
  <2>1. /\ isr = "status" /\ isr' = "off"
        /\ UNCHANGED <<rp, rc, rnp, rnc, endrx, ioc_buffers, ioc_buffer_idx, ioc_buffer_current,
                       pc, la_trig_offset, la_trigger_mask>>
        /\ busy' = busy \/ (busy' = FALSE /\ RxBuff)
    BY <1>4 DEF IsrExit, pdcVars, ringVars, laVars, mainVars
  <2>2. RingOrdered' /\ Untouched' /\ Starting'
    BY <1>2, <2>1 DEF RInv, RingOrdered, Untouched, RingFresh, Size, Last, Starting
  <2>3. Before'
    BY <1>2, <2>1 DEF RInv, Before, Searching, InARow, Filled, Holds, Size
  <2> QED BY <2>2, <2>3
<1>5. CASE IsrHandler
  <2>1. /\ isr = "handler" /\ isr' = "status" /\ la_acq_finished
        /\ UNCHANGED <<rp, rc, rnp, rnc, endrx, busy, ioc_buffer_idx, ioc_buffer_current, cur_buf,
                       pc, la_trigger_mask>>
    BY <1>5 DEF IsrHandler, pdcVars, mainVars
  <2>2. Starting'
    BY <1>2, <2>1 DEF Starting
  <2>3. CASE la_trig_offset' # UINT_MAX /\ UNCHANGED ioc_buffers
    BY <1>2, <2>1, <2>2, <2>3 DEF RInv, RingOrdered, Size, Untouched, Before, Searching
  <2>4. ASSUME NEW off \in FindTrigger(ioc_buffers[cur_buf].size), TriggerFound(off),
               la_trig_offset = UINT_MAX
        PROVE  RingOrdered' /\ Untouched' /\ Before'
    <3>1. CASE off = UINT_MAX
      <4>1. UNCHANGED <<ioc_buffers, la_trig_offset>>  BY <2>4, <3>1 DEF TriggerFound
      <4>2. la_trigger_mask
        <5>1. UINT_MAX # 0  BY DEF UINT_MAX
        <5> QED BY <2>4, <3>1, <5>1 DEF FindTrigger
      <4> QED BY <1>2, <2>1, <4>1, <4>2
          DEF RInv, RingOrdered, Size, Untouched, RingFresh, Last, Before, Searching, InARow,
              Filled, Holds
    <3>2. CASE off # UINT_MAX /\ ~la_trigger_mask
      BY <1>2, <2>1, <2>4, <3>2
      DEF TriggerFound, RInv, RingOrdered, Size, Untouched, Before, Searching
    <3>3. CASE off # UINT_MAX /\ la_trigger_mask
      <4>1. off \in 0 .. Size(cur_buf) - 1  BY <2>4, <3>3 DEF FindTrigger, Size
      <4>2. /\ ioc_buffers' = [ioc_buffers EXCEPT ![cur_buf].size = off, ![cur_buf].last = TRUE]
            /\ la_trig_offset' = ioc_buffers[cur_buf].addr + off
        BY <2>4, <3>3 DEF TriggerFound
      <4>3. la_trig_offset' # UINT_MAX  BY <1>1, <4>1, <4>2 DEF UINT_MAX
      <4>4. \A i \in BufferIds : ioc_buffers'[i].addr = ioc_buffers[i].addr
                                 /\ ioc_buffers'[i].size \in Nat
                                 /\ ioc_buffers'[i].size <= Size(i)
        <5>1. ioc_buffers \in [BufferIds -> IocBuffer]
          BY DEF RInv, WInv, TInv, TypeOK, RingTypeOK
        <5> SUFFICES ASSUME NEW i \in BufferIds
                     PROVE  /\ ioc_buffers'[i].addr = ioc_buffers[i].addr
                            /\ ioc_buffers'[i].size \in Nat /\ ioc_buffers'[i].size <= Size(i)
          OBVIOUS
        <5>2. CASE i # cur_buf
          <6>1. ioc_buffers'[i] = ioc_buffers[i]  BY <4>2, <5>1, <5>2
          <6> QED BY <1>1, <6>1 DEF Size
        <5>3. CASE i = cur_buf
          <6>1. ioc_buffers'[i].addr = ioc_buffers[i].addr /\ ioc_buffers'[i].size = off
            BY <4>2, <5>1, <5>3 DEF IocBuffer
          <6> QED BY <1>1, <4>1, <5>3, <6>1
        <5> QED BY <5>2, <5>3
      <4>5. RingOrdered'
        BY <1>1, <4>4 DEF RInv, RingOrdered, Size
      <4> QED BY <1>2, <2>1, <4>3, <4>5 DEF Untouched, Before, Searching
    <3> QED BY <3>1, <3>2, <3>3
  <2>5. CASE la_trig_offset # UINT_MAX /\ UNCHANGED <<ioc_buffers, la_trig_offset, trigSample>>
    BY <2>3, <2>5
  <2> QED BY <2>1, <2>2, <2>4, <2>5 DEF la_acq_finished
<1> QED BY <1>3, <1>4, <1>5 DEF Isr

(* The mark of a buffer *)
LEMMA MarkOf ==
    ASSUME NEW a, NEW c, NEW m, NEW b, b = [addr |-> a, size |-> c, last |-> m]
    PROVE  b.last = m
OBVIOUS

(* la_start_acq lays the buffers out one behind the other, of one size *)
LEMMA StartRingFresh ==
    ASSUME TypeOK, ioc_buffers' = StartRing, UNCHANGED <<la_trigger_mask, la_read_cnt>>
    PROVE  RingOrdered' /\ RingFresh'
<1> DEFINE c == ChunkSize
<1>1. c \in Nat
  <2>1. /\ BufferSize \div BuffersCnt \in Nat /\ la_read_cnt * BuffersCnt \in Nat
    BY ConstAssumption, DivBound DEF TypeOK, LaTypeOK
  <2> QED BY <2>1 DEF ChunkSize
<1> DEFINE at(i)     == i * c
           marked(i) == ~la_trigger_mask /\ i = BuffersCnt - 1
<1>2. \A i \in BufferIds :
        ioc_buffers'[i] = [addr |-> at(i), size |-> c, last |-> marked(i)]
  BY DEF StartRing
<1>l. la_trigger_mask' = la_trigger_mask  OBVIOUS
<1>d. /\ \A i \in BufferIds : at(i) = i * c
      /\ \A i \in BufferIds : marked(i) => ~la_trigger_mask /\ i = BuffersCnt - 1
  OBVIOUS
<1> HIDE DEF c, at, marked
<1>s. ASSUME NEW i \in BufferIds
      PROVE  Size(i)' = c /\ ioc_buffers'[i].addr = at(i) /\ (Last(i)' => marked(i))
  <2>1. ioc_buffers'[i] = [addr |-> at(i), size |-> c, last |-> marked(i)]  BY <1>2
  <2>2. Last(i)' => marked(i)
    <3>1. ioc_buffers'[i].last = marked(i)  BY <2>1, MarkOf
    <3> QED BY <3>1 DEF Last
  <2> QED BY <2>1, <2>2 DEF Size
<1>3. RingFresh'
  <2>1. \A i, j \in BufferIds : Size(i)' = Size(j)'  BY <1>s
  <2>2. \A i \in BufferIds : Last(i)' => ~la_trigger_mask' /\ i = BuffersCnt - 1  BY <1>s, <1>d, <1>l
  <2> QED BY <2>1, <2>2 DEF RingFresh
<1>4. ASSUME NEW i \in BufferIds, NEW j \in BufferIds, i < j
      PROVE  i * c + c <= j * c
  <2>1. i \in Nat /\ j \in Nat /\ i + 1 <= j  BY <1>4, ConstAssumption DEF BufferIds
  <2>2. (i + 1) * c <= j * c  BY <1>1, <2>1, MulMono
  <2>3. (i + 1) * c = i * c + c  BY <1>1, <2>1
  <2> QED BY <2>2, <2>3
<1>5. RingOrdered'
  <2> SUFFICES ASSUME NEW i \in BufferIds, NEW j \in BufferIds, i < j
               PROVE  ioc_buffers'[i].addr + Size(i)' <= ioc_buffers'[j].addr
    BY DEF RingOrdered
  <2>1. i * c + c <= j * c  BY <1>4
  <2>2. ioc_buffers'[i].addr = i * c /\ ioc_buffers'[j].addr = j * c /\ Size(i)' = c  BY <1>s, <1>d
  <2> QED BY <2>1, <2>2
<1> QED BY <1>3, <1>5

(* The main program makes the ring and starts the PDC on it *)
LEMMA RMain ==
    ASSUME RInv, BuffersCnt >= 3, Main
    PROVE  RingOrdered' /\ Untouched' /\ Starting' /\ Before'
<1> USE DEF Goto
<1>0. MainMayRun /\ isr = "off" /\ 0 \in BufferIds /\ 1 # BuffersCnt - 1 /\ 0 # BuffersCnt - 1
      /\ ioc_buffers[0].addr \in Nat /\ Size(0) \in Nat
  BY RTypes DEF Main, Start, la_start_acq, StartRun, ioc_start, ioc_stop, ResetWait,
     la_fix_channels, Deliver, Delivered, Poll, Strange, MainMayRun, RInv, WInv
<1>1. ret \in {"loop", "acq"} /\ (la_state = "IDLE" => ~busy)
  BY DEF RInv, WInv, TInv, TypeOK, MainTypeOK, Phases
<1>2. CASE la_start_acq
  <2>1. CASE pc' = ret /\ UNCHANGED <<iocVars, laVars>> /\ pc = "start"
    BY <1>1, <2>1, RElsewhere DEF iocVars, pdcVars, ringVars, isrVars, laVars
  <2>2. CASE la_state = "IDLE" /\ pc' = "run" /\ la_trig_offset' = UINT_MAX
             /\ ioc_buffers' = StartRing
             /\ UNCHANGED <<pdcVars, busy, ioc_buffer_idx, la_trigger_mask, la_read_cnt>>
    <3>1. RingOrdered' /\ RingFresh'
      BY <2>2, StartRingFresh DEF RInv, WInv, TInv
    <3>2. Starting' /\ Before'
      BY <1>1, <2>2 DEF RInv, Starting, pdcVars, Before, Searching
    <3> QED BY <2>2, <3>1, <3>2 DEF Untouched
  <2> QED BY <1>2, <2>1, <2>2 DEF la_start_acq
<1>3. CASE StartRun
  <2>1. pc = "run" /\ pc' = "current" /\ busy' = TRUE /\ ioc_buffer_idx' = 0
        /\ UNCHANGED <<pdcVars, ioc_buffers, la_trig_offset, la_trigger_mask>>
    BY <1>3 DEF StartRun, StartBookkeeping
  <2> QED BY <2>1 DEF RInv, RingOrdered, Size, Untouched, RingFresh, Last, Starting,
          pdcVars, Before, Searching
<1>4. CASE ioc_start
  <2>0. CASE Goto("current", "count") /\ StartPointer /\ UNCHANGED <<laVars, app, ret, out, trigSample>>
    <3>1. /\ pc = "current" /\ pc' = "count"
          /\ UNCHANGED <<busy, ioc_buffers, ioc_buffer_idx, la_trig_offset, la_trigger_mask>>
      BY <2>0 DEF StartPointer, ringVars, laVars
    <3> QED BY <3>1 DEF RInv, RingOrdered, Size, Untouched, RingFresh, Last, Starting, Before, Searching
  <2>1. CASE Goto("count", "next") /\ StartCount /\ UNCHANGED <<laVars, app, ret, out, trigSample>>
    <3>1. /\ pc = "count" /\ pc' = "next" /\ rp' = rp /\ rc' = ioc_buffers[0].size
          /\ endrx' = (endrx /\ ioc_buffers[0].size = 0)
          /\ UNCHANGED <<rnc, busy, ioc_buffers, ioc_buffer_idx, la_trig_offset, la_trigger_mask>>
      BY <2>1 DEF StartCount, ringVars, laVars
    <3>2. busy /\ ioc_buffer_idx = 0 /\ rnc = 0 /\ rp = ioc_buffers[0].addr
      BY <3>1 DEF RInv, WInv, Phases, Idle, Starting, RxBuff
    <3>3. rc' > 0 => ~endrx' /\ Holds(0, rp, rc)'
      <4>1. ioc_buffers[0].size \in Nat /\ ioc_buffers[0].addr \in Nat  BY <1>0 DEF Size
      <4>2. rc' > 0 => ~endrx'
        <5>1. rc' > 0 => ioc_buffers[0].size # 0  BY <3>1, <4>1
        <5> QED BY <3>1, <5>1
      <4>3. Holds(0, rp, rc)'
        <5>1. ioc_buffers' = ioc_buffers  BY <3>1
        <5>2. rp' = ioc_buffers[0].addr /\ rc' = ioc_buffers[0].size  BY <3>1, <3>2
        <5> QED BY <4>1, <5>1, <5>2 DEF Holds, Size
      <4> QED BY <4>2, <4>3
    <3> QED BY <3>1, <3>2, <3>3 DEF RInv, RingOrdered, Size, Untouched, RingFresh, Last,
            Starting, Before, Searching
  <2>2. CASE Goto("next", "irq") /\ StartNext /\ UNCHANGED <<laVars, app, ret, out, trigSample>>
    <3>1. /\ pc = "next" /\ pc' = "irq" /\ SetNextBuffer
          /\ UNCHANGED <<busy, ioc_buffers, isr, la_trig_offset, la_trigger_mask>>
      BY <2>2 DEF StartNext, isrVars, laVars
    <3>2. busy /\ la_trig_offset = UINT_MAX /\ RingFresh /\ ioc_buffer_idx = 0 /\ rnc = 0
          /\ (rc > 0 => Holds(ioc_buffer_idx, rp, rc))
      BY <3>1 DEF RInv, WInv, Phases, Untouched, Starting
    <3>3. ~Last(ioc_buffer_idx)  BY <1>0, <3>2 DEF RingFresh
    <3>4. Filled' /\ ioc_buffer_idx' = Following(ioc_buffer_idx)
          /\ ioc_buffer_current' = ioc_buffer_idx
      BY <3>1, <3>2, <3>3, SetNextSupplies DEF RInv, WInv, Filled
    <3>5. InARow'  BY <1>0, <3>1, <3>2, <3>4 DEF InARow, Following
    <3>6. RingOrdered' /\ Untouched'
      BY <3>1 DEF RInv, RingOrdered, Size, Untouched, RingFresh, Last
    <3> QED BY <3>1, <3>2, <3>4, <3>5, <3>6 DEF Starting, Before
  <2>3. CASE \E dev \in {"irq", "rxten", "clk"} :
               Enable(dev) /\ pc = dev /\ pc' \in {"rxten", "clk", "loop", "acq"}
               /\ UNCHANGED laVars
    BY <2>3, RElsewhere DEF Enable, pdcVars, ringVars, isrVars, laVars
  <2> QED BY <1>1, <1>4, <2>0, <2>1, <2>2, <2>3 DEF ioc_start
<1>5. CASE ioc_stop
  BY <1>5, RElsewhere DEF ioc_stop, SetStop, iocVars, pdcVars, ringVars, isrVars, laVars
<1>6. CASE ResetWait
  BY <1>6, RElsewhere DEF ResetWait, iocVars, pdcVars, ringVars, isrVars
<1>7. CASE la_fix_channels \/ Deliver
  BY <1>7, RElsewhere DEF la_fix_channels, Deliver, iocVars, pdcVars, ringVars, isrVars, laVars
<1>8. CASE Delivered \/ Strange
  BY <1>8, RElsewhere DEF Delivered, Strange, iocVars, pdcVars, ringVars, isrVars
<1>9. CASE Poll
  BY <1>9, RElsewhere DEF Poll, iocVars, pdcVars, ringVars, isrVars, laVars
<1> QED BY <1>2, <1>3, <1>4, <1>5, <1>6, <1>7, <1>8, <1>9 DEF Main, Start

(* Settings are changed between acquisitions, and applications too *)
LEMMA RUser ==
    ASSUME RInv, Settled, User
    PROVE  RingOrdered' /\ Untouched' /\ Starting' /\ Before'
<1> USE DEF Goto
<1>1. /\ UNCHANGED <<ioc_buffers, ioc_buffer_idx, ioc_buffer_current, rp, rc, rnp, rnc, endrx,
                     isr, cur_buf, busy>>
      /\ pc \in {"loop", "menu"} /\ pc' \notin {"run", "current", "count", "next"}
  BY DEF User, cmd_sump, EnterUsb, EnterLcd, Exit, SetClock, iocVars, pdcVars, ringVars, isrVars
<1>2. ~busy \/ UNCHANGED <<la_trig_offset, la_trigger_mask>>
  BY DEF User, cmd_sump, EnterUsb, EnterLcd, Exit, laVars, Settled, RInv, WInv, Phases
<1> QED BY <1>1, <1>2, RElsewhere

LEMMA RStutter == ASSUME RInv, UNCHANGED vars PROVE RingOrdered' /\ Untouched' /\ Starting' /\ Before'
BY DEF RInv, RingOrdered, Untouched, RingFresh, Size, Last, Starting, Before, Searching, InARow,
   Filled, Holds, RxBuff, vars, iocVars, pdcVars, ringVars, isrVars, laVars, mainVars

LEMMA RStep == ASSUME RInv, Settled, BuffersCnt >= 3, [Next]_vars PROVE RInv'
<1>1. WInv'
  BY WPdc, WIsr, WMain, WUser, WStutter DEF RInv, Next
<1>2. RingOrdered' /\ Untouched' /\ Starting' /\ Before'
  BY RPdc, RIsr, RMain, RUser, RStutter DEF Next
<1> QED BY <1>1, <1>2 DEF RInv

LEMMA RImplies == ASSUME RInv, BuffersCnt >= 3 PROVE HandlerOwnsBuffer
<1> SUFFICES ASSUME isr = "handler", la_trig_offset = UINT_MAX
             PROVE  LET b == ioc_buffers[cur_buf]
                        In(a) == a >= b.addr /\ a < b.addr + b.size
                    IN  (rc > 0 => ~In(rp)) /\ (rnc > 0 => ~In(rnp))
  BY DEF HandlerOwnsBuffer
<1>1. Searching  BY DEF RInv, WInv, Phases, Searching
<1>2. InARow /\ Filled  BY <1>1 DEF RInv, Before
<1>3. /\ rp \in Nat /\ rc \in Nat /\ rnp \in Nat /\ rnc \in Nat /\ cur_buf \in BufferIds
      /\ ioc_buffer_idx \in BufferIds /\ ioc_buffer_current \in BufferIds
  BY RTypes DEF RInv, WInv
<1>4. ioc_buffer_current # cur_buf /\ ioc_buffer_idx # cur_buf
  BY <1>2, <1>3, ThreeInARow DEF InARow
<1>5. rc > 0 => ~(rp >= ioc_buffers[cur_buf].addr /\ rp < ioc_buffers[cur_buf].addr + Size(cur_buf))
  BY <1>2, <1>3, <1>4, Apart DEF Filled, RInv, WInv
<1>6. rnc > 0 => ~(rnp >= ioc_buffers[cur_buf].addr /\ rnp < ioc_buffers[cur_buf].addr + Size(cur_buf))
  BY <1>2, <1>3, <1>4, Apart DEF Filled, RInv, WInv
<1> QED BY <1>5, <1>6 DEF Size

(* The search for the trigger never races the DMA, however late the        *)
(* handler is, with a ring of three buffers or more (the firmware's has    *)
(* four), as long as settings and application stay during an acquisition.  *)
THEOREM HandlerIsAlone ==
    ASSUME BuffersCnt >= 3, Settled
    PROVE  Spec => []HandlerOwnsBuffer
<1>1. BuffersCnt >= 3 /\ Settled  OBVIOUS
<1>2. Init => RInv  BY WInit, RInit DEF RInv
<1>3. RInv /\ [Next]_vars => RInv'  BY <1>1, RStep
<1>4. RInv => HandlerOwnsBuffer  BY <1>1, RImplies
<1> QED BY <1>2, <1>3, <1>4, PTL DEF Spec

-----------------------------------------------------------------------------
(* No acquisition is left RUNNING with nothing driving it *)

(* Nothing but the clock, the handler and the commands of a settled host,  *)
(* and memory for at least one sample per buffer                           *)
Proper == Env = {} /\ BuffersCnt >= 3 /\ BufferSize >= BuffersCnt

(* Samples are to come *)
Counting == la_state = "RUNNING" /\ la_read_cnt > 0

(* The handler will take the acquisition for finished when it sees the PDC *)
(* dry: it has, or will have, used up a stop                               *)
Stopping == ioc_stop_acq \/ (isr = "status" /\ finished)

Sized == pc \in {"run", "current", "count", "next"} /\ la_read_cnt > 0 => \A i \in BufferIds : Size(i) > 0

(* A stop that was asked for too late is used up by the first interrupt of *)
(* the next acquisition, before the PDC has come to the last buffer        *)
StopHarmless ==
    /\ isr # "off" => ~ioc_stop_acq
    /\ Counting /\ busy /\ pc \notin {"wait", "current", "count", "next"} /\ Stopping
           => ~Last(ioc_buffer_idx) /\ ~RxBuff
    /\ Counting /\ ~busy => pc = "wait"

NInv == RInv /\ Sized /\ StopHarmless

(* Each buffer of la_start_acq has room for a sample *)
LEMMA ChunkPositive ==
    ASSUME TypeOK, Proper, la_read_cnt > 0
    PROVE  ChunkSize \in Nat /\ ChunkSize > 0
<1> DEFINE m == BufferSize \div BuffersCnt
           w == la_read_cnt * BuffersCnt
<1>1. /\ BufferSize \in Nat /\ BuffersCnt \in Nat /\ BuffersCnt > 0 /\ la_read_cnt \in Nat
      /\ BufferSize >= BuffersCnt
  BY ConstAssumption DEF TypeOK, LaTypeOK, Proper
<1>2. m \in Nat /\ m > 0  BY <1>1
<1>3. w \in Nat /\ w > 0
  <2>1. la_read_cnt >= 1 /\ 1 * BuffersCnt <= la_read_cnt * BuffersCnt  BY <1>1, MulMono
  <2> QED BY <1>1, <2>1
<1>4. ChunkSize = IF w <= m THEN w ELSE m  BY DEF ChunkSize
<1> HIDE DEF m, w
<1> QED BY <1>2, <1>3, <1>4

LEMMA NPdc == ASSUME NInv, Proper, Pdc PROVE Sized' /\ StopHarmless'
<1>1. /\ rc > 0 /\ rc \in Nat /\ rnc \in Nat
      /\ IF rc = 1 THEN rc' = rnc ELSE rc' = rc - 1
      /\ UNCHANGED <<busy, ioc_buffers, ioc_buffer_idx, isr, finished, ioc_stop_acq, pc,
                     la_state, la_read_cnt>>
  BY RTypes DEF Pdc, PdcStore, enVars, ringVars, isrVars, laVars, mainVars, NInv, RInv, WInv
<1>2. ~Last(ioc_buffer_idx) /\ rc = 1 => rnc > 0
  BY DEF Pdc, PdcStore, Proper, Last
<1>3. ~Last(ioc_buffer_idx) => ~RxBuff'  BY <1>1, <1>2 DEF RxBuff
<1>4. Sized'  BY <1>1 DEF NInv, Sized, Size
<1> QED BY <1>1, <1>3, <1>4 DEF NInv, StopHarmless, Counting, Stopping, Last

LEMMA NIsr == ASSUME NInv, Proper, Isr PROVE Sized' /\ StopHarmless'
<1>1. irq /\ busy /\ pc \notin {"run", "current", "count", "next"}
  <2>1. irq  BY DEF Isr, IsrEnter, IsrExit, IsrHandler, IrqPending, NInv, RInv, WInv, Phases
  <2> QED BY <2>1 DEF NInv, RInv, WInv, Phases
<1>2. UNCHANGED <<pc, la_read_cnt>>
  BY DEF Isr, IsrEnter, IsrExit, IsrHandler, laVars, mainVars
<1>3. Sized'  BY <1>1, <1>2 DEF Sized
<1>4. CASE IsrEnter /\ UNCHANGED <<laVars, mainVars, out, trigSample>>
  <2>1. UNCHANGED <<busy, ioc_buffers, pc, la_state, la_read_cnt>> /\ ioc_stop_acq' = FALSE
    BY <1>4 DEF IsrEnter, laVars, mainVars
  <2>2. CASE ioc_stop_acq
    <3>1. UNCHANGED <<ioc_buffer_idx, rc, rnc>>  BY <1>4, <2>2 DEF IsrEnter, pdcVars
    <3> QED BY <1>1, <1>3, <2>1, <2>2, <3>1 DEF NInv, StopHarmless, Counting, Stopping, Last, RxBuff
  <2>3. CASE ~ioc_stop_acq
    <3>1. isr' = "handler"  BY <1>4, <2>3 DEF IsrEnter
    <3> QED BY <1>1, <1>3, <2>1, <3>1 DEF NInv, StopHarmless, Counting, Stopping
  <2> QED BY <2>2, <2>3
<1>5. CASE IsrExit /\ UNCHANGED <<laVars, mainVars, out, trigSample>>
  <2>1. /\ isr = "status" /\ isr' = "off" /\ ~ioc_stop_acq /\ ~ioc_stop_acq'
        /\ UNCHANGED <<rc, rnc, ioc_buffers, ioc_buffer_idx, pc, la_state, la_read_cnt>>
        /\ busy' = busy \/ (finished /\ RxBuff)
    BY <1>5 DEF IsrExit, pdcVars, ringVars, laVars, mainVars, NInv, StopHarmless
  <2>2. Counting' /\ ~busy' => pc = "wait"
    BY <1>1, <2>1 DEF NInv, StopHarmless, Counting, Stopping
  <2> QED BY <1>1, <1>3, <2>1, <2>2 DEF StopHarmless, Stopping
<1>6. CASE IsrHandler
  <2>1. /\ isr = "handler" /\ isr' = "status" /\ ~ioc_stop_acq /\ ~ioc_stop_acq'
        /\ la_acq_finished
        /\ UNCHANGED <<busy, pc, la_read_cnt>>
    BY <1>6 DEF IsrHandler, mainVars, NInv, StopHarmless
  <2>2. ~finished' \/ la_state' = "ACQUIRED"
    BY <2>1 DEF la_acq_finished
  <2> QED BY <1>1, <1>3, <2>1, <2>2 DEF StopHarmless, Stopping, Counting
<1> QED BY <1>4, <1>5, <1>6 DEF Isr

(* Steps of the main program and the user that leave the ring, the PDC and *)
(* the handler alone, and give no acquisition more samples to come         *)
LEMMA NElsewhere ==
    ASSUME NInv,
           UNCHANGED <<ioc_buffers, ioc_buffer_idx, rc, rnc, isr, finished, busy>>,
           isr = "off", pc' \notin {"run", "current", "count", "next"},
           UNCHANGED ioc_stop_acq \/ pc' = "wait",
           Counting' => Counting /\ (busy => pc \notin {"wait", "current", "count", "next"} \/ pc' = "wait")
                                 /\ (~busy => pc' = "wait")
    PROVE  Sized' /\ StopHarmless'
BY DEF NInv, Sized, StopHarmless, Counting, Stopping, Last, RxBuff

LEMMA NMain == ASSUME NInv, Proper, Main PROVE Sized' /\ StopHarmless'
<1> USE DEF Goto
<1>0. MainMayRun /\ isr = "off" /\ 0 \in BufferIds
  BY RTypes DEF Main, Start, la_start_acq, StartRun, ioc_start, ioc_stop, ResetWait,
     la_fix_channels, Deliver, Delivered, Poll, Strange, MainMayRun, NInv, RInv, WInv
<1>1. ret \in {"loop", "acq"} /\ TypeOK /\ (la_state = "IDLE" => ~busy)
  BY DEF NInv, RInv, WInv, TInv, TypeOK, MainTypeOK, Phases
<1>n. Counting /\ ~busy => pc = "wait"  BY DEF NInv, StopHarmless
<1>2. CASE la_start_acq
  <2>1. CASE pc' = ret /\ UNCHANGED <<iocVars, laVars>> /\ pc = "start"
    BY <1>0, <1>1, <1>n, <2>1, NElsewhere DEF iocVars, pdcVars, ringVars, isrVars, laVars, Counting
  <2>2. CASE la_state = "IDLE" /\ pc' = "run" /\ ioc_buffers' = StartRing
             /\ UNCHANGED <<isr, la_state, la_read_cnt>>
    <3>1. Sized'
      <4> SUFFICES ASSUME la_read_cnt > 0, NEW i \in BufferIds PROVE Size(i)' > 0
        BY <2>2 DEF Sized
      <4>1. ioc_buffers'[i].size = ChunkSize  BY <2>2 DEF StartRing
      <4> QED BY <1>1, <4>1, ChunkPositive DEF Size
    <3> QED BY <1>0, <2>2, <3>1 DEF StopHarmless, Counting
  <2> QED BY <1>2, <2>1, <2>2 DEF la_start_acq, isrVars
<1>3. CASE StartRun
  <2>1. pc = "run" /\ pc' = "current" /\ busy' = TRUE /\ UNCHANGED <<ioc_buffers, isr, la_read_cnt>>
    BY <1>3 DEF StartRun, StartBookkeeping, isrVars
  <2> QED BY <1>0, <2>1 DEF NInv, Sized, Size, StopHarmless
<1>4. CASE ioc_start
  <2>1. CASE \/ Goto("current", "count") /\ StartPointer /\ UNCHANGED <<laVars, app, ret, out, trigSample>>
             \/ Goto("count", "next") /\ StartCount /\ UNCHANGED <<laVars, app, ret, out, trigSample>>
    <3>1. /\ pc \in {"current", "count"} /\ pc' \in {"count", "next"}
          /\ UNCHANGED <<busy, ioc_buffers, isr, la_state, la_read_cnt>>
      BY <2>1 DEF StartPointer, StartCount, ringVars, isrVars, laVars
    <3>2. busy  BY <3>1 DEF NInv, RInv, WInv, Phases
    <3> QED BY <1>0, <3>1, <3>2 DEF NInv, Sized, Size, StopHarmless, Counting
  <2>2. CASE Goto("next", "irq") /\ StartNext /\ UNCHANGED <<laVars, app, ret, out, trigSample>>
    <3>1. /\ pc = "next" /\ pc' = "irq" /\ SetNextBuffer
          /\ UNCHANGED <<busy, ioc_buffers, isr, la_state, la_read_cnt, la_trig_offset, la_trigger_mask>>
      BY <2>2 DEF StartNext, isrVars, laVars
    <3>2. busy /\ RingFresh /\ ioc_buffer_idx = 0 /\ rnc = 0
          /\ (rc > 0 => Holds(ioc_buffer_idx, rp, rc))
      BY <3>1 DEF NInv, RInv, WInv, Phases, Untouched, Starting
    <3>3. Following(0) = 1 /\ 0 # BuffersCnt - 1 /\ 1 # BuffersCnt - 1 /\ BuffersCnt >= 3
      <4>1. BuffersCnt \in Nat /\ BuffersCnt >= 3  BY ConstAssumption DEF Proper
      <4> QED BY <1>0, <4>1, ThreeInARow
    <3>4. ~Last(ioc_buffer_idx)  BY <1>0, <3>2, <3>3 DEF RingFresh
    <3>5. ioc_buffer_idx' = 1 /\ (Size(0) > 0 => ~RxBuff')
      BY <3>1, <3>2, <3>3, <3>4, SetNextSupplies DEF NInv, RInv, WInv
    <3>6. ~Last(ioc_buffer_idx)'
      <4>1. 1 \in BufferIds  BY <1>0, <3>3, ThreeInARow
      <4> QED BY <3>1, <3>2, <3>3, <3>5, <4>1 DEF RingFresh, Last
    <3>7. la_read_cnt > 0 => Size(0) > 0  BY <1>0, <3>1 DEF NInv, Sized
    <3> QED BY <1>0, <3>1, <3>2, <3>5, <3>6, <3>7 DEF Sized, StopHarmless, Counting
  <2>3. CASE \E dev \in {"irq", "rxten", "clk"} :
               Enable(dev) /\ pc = dev /\ pc' \in {"rxten", "clk", "loop", "acq"}
               /\ UNCHANGED laVars
    BY <1>0, <1>n, <2>3, NElsewhere DEF Enable, pdcVars, ringVars, isrVars, laVars, Counting
  <2> QED BY <1>1, <1>4, <2>1, <2>2, <2>3 DEF ioc_start
<1>5. CASE ioc_stop
  BY <1>0, <1>5, <1>n, NElsewhere
  DEF ioc_stop, SetStop, iocVars, pdcVars, ringVars, isrVars, laVars, Counting
<1>6. CASE ResetWait
  BY <1>0, <1>6, NElsewhere DEF ResetWait, iocVars, pdcVars, ringVars, isrVars, Counting
<1>7. CASE la_fix_channels \/ Deliver
  BY <1>0, <1>7, <1>n, NElsewhere
  DEF la_fix_channels, Deliver, iocVars, pdcVars, ringVars, isrVars, laVars, Counting
<1>8. CASE Delivered \/ Strange
  BY <1>0, <1>1, <1>8, NElsewhere
  DEF Delivered, Strange, iocVars, pdcVars, ringVars, isrVars, Counting
<1>9. CASE Poll
  BY <1>0, <1>9, <1>n, NElsewhere DEF Poll, iocVars, pdcVars, ringVars, isrVars, laVars, Counting
<1> QED BY <1>2, <1>3, <1>4, <1>5, <1>6, <1>7, <1>8, <1>9 DEF Main, Start

LEMMA NUser == ASSUME NInv, Proper, User PROVE Sized' /\ StopHarmless'
<1> USE DEF Goto
<1>1. /\ UNCHANGED <<ioc_buffers, ioc_buffer_idx, rc, rnc, isr, finished, busy, ioc_stop_acq>>
      /\ pc \in {"loop", "menu"} /\ pc' \notin {"run", "current", "count", "next"} /\ isr = "off"
  BY DEF User, cmd_sump, EnterUsb, EnterLcd, Exit, SetClock, MainMayRun, iocVars, pdcVars, ringVars,
     isrVars
<1>2. Counting' => Counting
  BY DEF User, cmd_sump, EnterUsb, EnterLcd, Exit, laVars, Proper, Counting
<1>3. Counting /\ ~busy => pc = "wait"  BY DEF NInv, StopHarmless
<1> QED BY <1>1, <1>2, <1>3, NElsewhere

LEMMA NStep == ASSUME NInv, Proper, [Next]_vars PROVE NInv'
<1>1. RInv'  BY RStep DEF NInv, Proper, Settled
<1>2. CASE UNCHANGED vars
  BY <1>1, <1>2 DEF NInv, Sized, Size, StopHarmless, Counting, Stopping, Last, RxBuff, vars, iocVars,
     pdcVars, ringVars, isrVars, laVars, mainVars
<1> QED BY <1>1, <1>2, NPdc, NIsr, NMain, NUser DEF Next, NInv

(* An acquisition that has samples to come is driven by the capture        *)
(* whenever the main loops look, whatever RESETs came in between and       *)
(* however late: a stop left over in ioc_stop_acq ends none of the         *)
(* acquisitions after it.                                                  *)
THEOREM NoneIsStranded ==
    ASSUME Proper
    PROVE  Spec => []NeverStranded
<1>1. Proper  OBVIOUS
<1>2. Init => NInv
  <2>1. Init => RInv  BY WInit, RInit DEF RInv
  <2>2. Init => Sized /\ StopHarmless
    BY DEF Init, IocInit, Sized, StopHarmless, Counting
  <2> QED BY <2>1, <2>2 DEF NInv
<1>3. NInv /\ [Next]_vars => NInv'  BY <1>1, NStep
<1>4. NInv => NeverStranded  BY DEF NInv, StopHarmless, Counting, NeverStranded
<1> QED BY <1>2, <1>3, <1>4, PTL DEF Spec

-----------------------------------------------------------------------------
(* What is delivered *)

(* Places of the ring: what follows the last one is the first one *)
Ring     == 0 .. RingSize - 1
Place(p) == IF p = RingSize THEN 0 ELSE p
After(a) == Place(a + 1)

Addr(i) == ioc_buffers[i].addr
End(i)  == Addr(i) + Size(i)

Written(a)      == mem[a].n # Stale
WrittenTo(i, p) == \A a \in Addresses : Addr(i) <= a /\ a < p => Written(a)

(* From the first sample to the delivery, if there are samples to come *)
Live ==
    /\ ChunkSize > 0
    /\ \/ busy /\ pc \notin {"current", "count"}
       \/ la_state = "ACQUIRED" /\ pc \notin {"deliver", "delivered"}

Made == ChunkSize > 0 /\ pc \in {"run", "current", "count"}

(* Buffer after buffer, around the ring; only the one with the trigger has *)
(* been cut                                                                *)
Laid ==
    /\ Addr(0) = 0
    /\ \A i, j \in BufferIds : i < j => Addr(i) + ChunkSize <= Addr(j)
    /\ \A i \in BufferIds :
          /\ Addr(i) + ChunkSize <= RingSize
          /\ Place(Addr(i) + ChunkSize) = Addr(Following(i))
          /\ Size(i) = ChunkSize \/ (Last(i) /\ la_trigger_mask /\ la_trig_offset # UINT_MAX)
          /\ Size(i) <= ChunkSize
    /\ ~la_trigger_mask => Last(BuffersCnt - 1)

(* Nothing of an earlier acquisition counts as a sample of this one *)
Empty == \A a \in Addresses : mem[a] = [n |-> Stale, fixed |-> FALSE]

(* What the PDC has been given ends where ioc_buffer_idx ends *)
Planned ==
    /\ rp + rc <= RingSize
    /\ rnc = 0 => Place(rp + rc) = Place(End(ioc_buffer_idx))
    /\ rnc > 0 => /\ rc > 0 /\ ~endrx
                  /\ Place(rp + rc) = Addr(ioc_buffer_idx)
                  /\ rnp = Addr(ioc_buffer_idx) /\ rnc = Size(ioc_buffer_idx)

(* The ring holds consecutive samples, the latest just behind the PDC *)
FirstLap == \A a \in Ring : Written(a) <=> a < rp
Recorded ==
    /\ \A a \in Addresses : ~mem[a].fixed
    /\ FirstLap \/ \A a \in Ring : Written(a)
    /\ \A a \in Ring :
          Written(a) => IF After(a) = Place(rp) THEN seq = (mem[a].n + 1) % SeqMod
                        ELSE Written(After(a)) => mem[After(a)].n = (mem[a].n + 1) % SeqMod

(* While the trigger is looked for: how far the buffers in the row have    *)
(* been written; the one the handler searches, wholly                      *)
Behind ==
    IF pc = "next" THEN WrittenTo(0, rp) /\ rp + rc = End(0)
    ELSE /\ \/ /\ rc = 0 /\ WrittenTo(ioc_buffer_current, End(ioc_buffer_current))
               /\ WrittenTo(ioc_buffer_idx, End(ioc_buffer_idx))
            \/ /\ rc > 0 /\ rnc = 0 /\ Holds(ioc_buffer_idx, rp, rc)
               /\ WrittenTo(ioc_buffer_current, End(ioc_buffer_current))
               /\ WrittenTo(ioc_buffer_idx, rp)
            \/ /\ rc > 0 /\ rnc > 0 /\ Holds(ioc_buffer_current, rp, rc)
               /\ WrittenTo(ioc_buffer_current, rp)
         /\ isr = "handler" => WrittenTo(cur_buf, End(cur_buf))

(* Once it is found: the sample it was found at stays, for the last buffer *)
(* ends before it                                                          *)
Spared(p, c) == c > 0 => ~(p <= la_trig_offset /\ la_trig_offset < p + c)
Triggered ==
    /\ la_trig_offset \in Ring
    /\ Written(la_trig_offset) /\ trigSample = mem[la_trig_offset].n
    /\ \A i \in BufferIds : Last(i) => Place(End(i)) = la_trig_offset
    /\ IF la_trigger_mask THEN \A i \in BufferIds : Spared(Addr(i), Size(i))
                          ELSE la_trig_offset = 0
    /\ Spared(rp, rc) /\ Spared(rnp, rnc)
    /\ la_state = "ACQUIRED" => Last(ioc_buffer_idx)

(* The samples from the trigger on, with their channels in order or not *)
Fits == RingSize = BufferSize \/ la_trig_offset + la_read_cnt <= RingSize
WindowHas(inOrder) ==
    \A i \in 0 .. la_read_cnt - 1 :
        mem[(la_trig_offset + i) % BufferSize]
            = [n |-> (trigSample + i) % SeqMod, fixed |-> inOrder]

CaptureInv ==
    /\ Made \/ Live => Laid
    /\ Made => Empty
    /\ Live => Planned /\ Recorded
    /\ Live /\ la_trig_offset = UINT_MAX => Behind
    /\ Live /\ la_trig_offset # UINT_MAX => Triggered

AppInv ==
    /\ app = "none" => pc = "menu"
    /\ app = "lcd" => la_read_cnt = LcdWidth

Handed ==
    /\ pc = "deliver" /\ Fits => WindowHas(TRUE)
    /\ pc = "delivered" /\ Fits => InOrder = Window

DInv == RInv /\ CaptureInv /\ AppInv /\ Handed

(* What types and assumptions say of the numbers below *)
LEMMA WNumbers ==
    ASSUME TInv
    PROVE  /\ BufferSize \in Nat /\ BufferSize > 0 /\ BuffersCnt \in Nat /\ BuffersCnt >= 2
           /\ SeqMod \in Nat /\ SeqMod > 0
           /\ ChunkSize \in Nat /\ RingSize \in Nat /\ RingSize <= BufferSize
           /\ ChunkSize > 0 => RingSize > 0
           /\ rp \in Nat /\ rc \in Nat /\ rnp \in Nat /\ rnc \in Nat
           /\ la_read_cnt \in Nat /\ la_read_cnt <= BufferSize
           /\ seq \in 0 .. SeqMod - 1
           /\ mem \in [Addresses -> Sample]
<1>1. /\ BufferSize \in Nat /\ BufferSize > 0 /\ BuffersCnt \in Nat /\ BuffersCnt >= 2
      /\ SeqMod \in Nat /\ SeqMod > 0
  BY ConstAssumption
<1>2. /\ la_read_cnt \in Nat /\ la_read_cnt <= BufferSize
      /\ seq \in 0 .. SeqMod - 1 /\ mem \in [Addresses -> Sample]
  BY <1>1 DEF TInv, TypeOK, LaTypeOK, MemTypeOK
<1>3. rp \in Nat /\ rc \in Nat /\ rnp \in Nat /\ rnc \in Nat  BY RTypes
<1> DEFINE m == BufferSize \div BuffersCnt
           w == la_read_cnt * BuffersCnt
           c == ChunkSize
<1>4. m \in Nat /\ BuffersCnt * m <= BufferSize  BY <1>1, DivBound
<1>5. w \in Nat  BY <1>1, <1>2
<1>6. c \in Nat /\ c <= m
  <2>1. c = IF w <= m THEN w ELSE m  BY DEF ChunkSize
  <2> HIDE DEF c, m, w
  <2> QED BY <1>4, <1>5, <2>1
<1>7. RingSize = BuffersCnt * c  BY DEF RingSize
<1> HIDE DEF c, m, w
<1>8. BuffersCnt * c \in Nat /\ BuffersCnt * c <= BuffersCnt * m /\ BuffersCnt * m \in Nat
  <2>1. c * BuffersCnt <= m * BuffersCnt  BY <1>1, <1>4, <1>6, MulMono
  <2> QED BY <1>1, <1>4, <1>6, <2>1
<1>9. c > 0 => BuffersCnt * c > 0
  <2> SUFFICES ASSUME c >= 1 PROVE BuffersCnt * c > 0  BY <1>6
  <2>1. 1 * BuffersCnt <= c * BuffersCnt  BY <1>1, <1>6, MulMono
  <2> QED BY <1>1, <1>6, <2>1
<1> HIDE DEF c
<1>10. RingSize \in Nat /\ RingSize <= BufferSize  BY <1>1, <1>4, <1>7, <1>8
<1> QED BY <1>1, <1>2, <1>3, <1>6, <1>7, <1>9, <1>10 DEF c

(* la_start_acq lays the buffers out around the ring *)
LEMMA StartRingLaid ==
    ASSUME TInv, ChunkSize > 0, ioc_buffers' = StartRing, UNCHANGED <<la_trigger_mask, la_read_cnt>>
    PROVE  Laid'
<1> DEFINE c == ChunkSize
           n == BuffersCnt
           at(i)     == i * c
           marked(i) == ~la_trigger_mask /\ i = BuffersCnt - 1
<1>1. c \in Nat /\ c > 0 /\ n \in Nat /\ n >= 2 /\ 0 \in BufferIds /\ n - 1 \in BufferIds
  BY WNumbers DEF BufferIds
<1>2. RingSize = n * c /\ RingSize' = RingSize /\ ChunkSize' = c
  BY DEF RingSize, ChunkSize
<1>3. \A i \in BufferIds :
        ioc_buffers'[i] = [addr |-> at(i), size |-> c, last |-> marked(i)]
  BY DEF StartRing
<1>4. /\ \A i \in BufferIds : at(i) = i * c
      /\ marked(n - 1) = ~la_trigger_mask
      /\ \A i \in BufferIds : i \in Nat /\ i < n
  BY <1>1 DEF BufferIds
<1> HIDE DEF c, n, at, marked
<1>5. ASSUME NEW i \in BufferIds
      PROVE  Size(i)' = c /\ Addr(i)' = at(i) /\ Last(i)' = marked(i)
  <2>1. ioc_buffers'[i] = [addr |-> at(i), size |-> c, last |-> marked(i)]  BY <1>3
  <2>2. ioc_buffers'[i].last = marked(i)  BY <2>1, MarkOf
  <2> QED BY <2>1, <2>2 DEF Size, Addr, Last
<1>6. ASSUME NEW i \in Nat, NEW j \in Nat, i < j
      PROVE  i * c \in Nat /\ j * c \in Nat /\ i * c + c <= j * c
  <2>1. (i + 1) * c <= j * c  BY <1>1, <1>6, MulMono
  <2>2. (i + 1) * c = i * c + c /\ i * c \in Nat /\ j * c \in Nat  BY <1>1
  <2> QED BY <2>1, <2>2
<1>7. Addr(0)' = 0
  <2>1. 0 * c = 0  BY <1>1
  <2> QED BY <1>1, <1>4, <1>5, <2>1
<1>8. \A i, j \in BufferIds : i < j => Addr(i)' + c <= Addr(j)'
  BY <1>4, <1>5, <1>6
<1>9. ASSUME NEW i \in BufferIds
      PROVE  Addr(i)' + c <= RingSize /\ Place(Addr(i)' + c) = Addr(Following(i))'
  <2>1. i \in Nat /\ i < n /\ Addr(i)' = i * c  BY <1>4, <1>5
  <2>2. i * c + c <= n * c /\ i * c \in Nat  BY <1>1, <1>6, <2>1
  <2>3. CASE i + 1 = n
    <3>1. Following(i) = 0  BY <1>1, <2>3 DEF Following, n
    <3>2. n * c = i * c + c
      <4>1. (i + 1) * c = i * c + c  BY <1>1, <2>1
      <4> QED BY <2>3, <4>1
    <3> QED BY <1>2, <1>7, <2>1, <2>2, <3>1, <3>2 DEF Place
  <2>4. CASE i + 1 < n
    <3>1. Following(i) = i + 1  BY <1>1, <2>1, <2>4 DEF Following, n
    <3>2. i + 1 \in BufferIds  BY <1>1, <2>1, <2>4 DEF BufferIds, n
    <3>3. (i + 1) * c = i * c + c  BY <1>1, <2>1
    <3>4. Addr(Following(i))' = i * c + c  BY <1>4, <1>5, <3>1, <3>2, <3>3
    <3>5. (i + 1) * c + c <= n * c /\ n * c \in Nat  BY <1>1, <1>6, <2>1, <2>4
    <3>6. i * c + c # n * c  BY <1>1, <2>2, <3>3, <3>5
    <3> QED BY <1>2, <2>1, <2>2, <3>4, <3>6 DEF Place
  <2> QED BY <1>1, <2>1, <2>3, <2>4
<1>10. ~la_trigger_mask' => Last(n - 1)'  BY <1>1, <1>4, <1>5
<1>12. \A i \in BufferIds :
         /\ Addr(i)' + ChunkSize' <= RingSize'
         /\ Place(Addr(i) + ChunkSize)' = Addr(Following(i))'
         /\ Size(i)' = ChunkSize' /\ Size(i)' <= ChunkSize'
  <2> SUFFICES ASSUME NEW i \in BufferIds
               PROVE  /\ Addr(i)' + ChunkSize' <= RingSize'
                      /\ Place(Addr(i) + ChunkSize)' = Addr(Following(i))'
                      /\ Size(i)' = ChunkSize' /\ Size(i)' <= ChunkSize'
    OBVIOUS
  <2>1. Place(Addr(i) + ChunkSize)' = Place(Addr(i)' + c)  BY <1>2 DEF Place
  <2> QED BY <1>1, <1>2, <1>5, <1>9, <2>1
<1> QED BY <1>1, <1>2, <1>7, <1>8, <1>10, <1>12 DEF Laid, n

(* Counting modulo m *)
LEMMA ModStep ==
    ASSUME NEW x \in Nat, NEW m \in Nat \ {0}
    PROVE  (x % m) + 1 \in Nat /\ ((x % m) + 1) % m = (x + 1) % m
<1> DEFINE r == x % m
           q == x \div m
<1>1. r \in Nat /\ r < m /\ q \in Nat /\ x = q * m + r  OBVIOUS
<1> HIDE DEF r, q
<1>2. CASE r + 1 < m
  <2>1. (r + 1) % m = r + 1  BY <1>1, <1>2
  <2>2. (q * m + (r + 1)) % m = r + 1  BY <1>1, <1>2
  <2>3. x + 1 = q * m + (r + 1)  BY <1>1
  <2> QED BY <1>1, <2>1, <2>2, <2>3 DEF r
<1>3. CASE r + 1 = m
  <2>1. (r + 1) % m = 0  BY <1>1, <1>3
  <2>2. x + 1 = (q + 1) * m  BY <1>1, <1>3
  <2>3. ((q + 1) * m) % m = 0  BY <1>1
  <2> QED BY <1>1, <2>1, <2>2, <2>3 DEF r
<1> QED BY <1>1, <1>2, <1>3

(* What follows a place of the ring *)
LEMMA Neighbours ==
    ASSUME TInv, ChunkSize > 0
    PROVE  /\ \A a \in Ring : /\ a \in Addresses /\ a \in Nat /\ a < RingSize
                              /\ Place(a) = a /\ After(a) \in Ring
                              /\ After(a) = IF a + 1 = RingSize THEN 0 ELSE a + 1
           /\ \A a, b \in Ring : After(a) = After(b) => a = b
           /\ \A p \in 0 .. RingSize : Place(p) \in Ring
<1> DEFINE r == RingSize
<1>1. r \in Nat /\ r > 0 /\ r <= BufferSize /\ BufferSize \in Nat  BY WNumbers
<1>2. Ring = 0 .. r - 1 /\ Addresses = 0 .. BufferSize - 1
      /\ \A p : Place(p) = (IF p = r THEN 0 ELSE p) /\ After(p) = (IF p + 1 = r THEN 0 ELSE p + 1)
  BY DEF Ring, Addresses, Place, After
<1> HIDE DEF r
<1>3. \A a \in Ring : a \in Nat /\ a < r /\ a \in Addresses /\ Place(a) = a  BY <1>1, <1>2
<1>4. \A a \in Ring : After(a) \in Ring  BY <1>1, <1>2
<1>5. \A a, b \in Ring : After(a) = After(b) => a = b  BY <1>1, <1>2
<1>6. \A p \in 0 .. r : Place(p) \in Ring  BY <1>1, <1>2
<1> QED BY <1>2, <1>3, <1>4, <1>5, <1>6 DEF r

(* A sample stored behind the latest one is the latest one *)
LEMMA StoreRecords ==
    ASSUME TInv, ChunkSize > 0, Recorded, rp \in Ring, UNCHANGED RingSize,
           mem' = [mem EXCEPT ![rp] = [n |-> seq, fixed |-> FALSE]],
           seq' = (seq + 1) % SeqMod,
           Place(rp)' = After(rp), rp' \in 0 .. RingSize
    PROVE  /\ Recorded'
           /\ \A a \in Addresses : Written(a)' <=> Written(a) \/ a = rp
           /\ \A a \in Addresses : a # rp => mem'[a] = mem[a]
<1> DEFINE r == RingSize
<1>0. /\ r \in Nat /\ r > 0 /\ mem \in [Addresses -> Sample] /\ rp \in Addresses /\ rp \in Nat
      /\ rp < r /\ seq \in Nat
  BY WNumbers, Neighbours
<1>1. \A a \in Addresses : mem'[a] = IF a = rp THEN [n |-> seq, fixed |-> FALSE] ELSE mem[a]
  BY <1>0
<1>2. \A a \in Addresses : Written(a)' <=> Written(a) \/ a = rp
  <2>1. seq # Stale  BY <1>0 DEF Stale
  <2> QED BY <1>0, <1>1, <2>1 DEF Written
<1>3. /\ \A a \in Ring : a \in Addresses /\ a \in Nat /\ a < r /\ Place(a) = a /\ After(a) \in Ring
      /\ \A a \in Ring : After(a) = IF a + 1 = r THEN 0 ELSE a + 1
      /\ \A a, b \in Ring : After(a) = After(b) => a = b
  BY Neighbours
<1>4. Ring' = Ring /\ \A a : After(a)' = After(a)  BY DEF Ring, After, Place
<1>q. PICK q : q = rp'  OBVIOUS
<1>5. After(rp) = IF q = r THEN 0 ELSE q
  <2>1. Place(rp)' = IF rp' = r THEN 0 ELSE rp'  BY DEF Place
  <2> QED BY <1>q, <2>1
<1>6. /\ \A a \in Addresses : ~mem[a].fixed
      /\ FirstLap \/ \A a \in Ring : Written(a)
      /\ \A a \in Ring :
            Written(a) => IF After(a) = Place(rp) THEN seq = (mem[a].n + 1) % SeqMod
                          ELSE Written(After(a)) => mem[After(a)].n = (mem[a].n + 1) % SeqMod
  BY DEF Recorded
<1>7. q \in Nat /\ q <= r  BY <1>0, <1>q
<1> HIDE DEF r
<1>8. \A a \in Addresses : ~mem'[a].fixed  BY <1>1, <1>6
<1>9. FirstLap' \/ \A a \in Ring : Written(a)'
  <2>1. CASE FirstLap /\ rp + 1 # r
    <3>1. q = rp + 1
      <4>1. After(rp) = rp + 1  BY <1>3, <2>1
      <4> QED BY <1>0, <1>5, <1>7, <4>1
    <3>2. \A a \in Ring : Written(a)' <=> a < q  BY <1>0, <1>2, <1>3, <2>1, <3>1 DEF FirstLap
    <3> QED BY <1>4, <1>q, <3>2 DEF FirstLap
  <2>2. CASE FirstLap /\ rp + 1 = r
    <3>1. \A a \in Ring : Written(a)'  BY <1>0, <1>2, <1>3, <2>2 DEF FirstLap
    <3> QED BY <3>1
  <2>3. CASE \A a \in Ring : Written(a)
    BY <1>2, <1>3, <2>3
  <2> QED BY <1>6, <2>1, <2>2, <2>3
<1>10. ASSUME NEW a \in Ring, Written(a)', NEW b, b = After(a)
       PROVE  IF b = After(rp) THEN seq' = (mem'[a].n + 1) % SeqMod
              ELSE Written(b)' => mem'[b].n = (mem'[a].n + 1) % SeqMod
  <2>0. a \in Addresses /\ b \in Addresses /\ b \in Ring  BY <1>3, <1>10
  <2>1. CASE a = rp
    <3>1. mem'[a].n = seq  BY <1>1, <2>0, <2>1
    <3> QED BY <1>10, <2>1, <3>1
  <2>2. CASE a # rp
    <3>1. mem'[a] = mem[a] /\ Written(a)  BY <1>1, <1>2, <1>10, <2>0, <2>2
    <3>2. b # After(rp)  BY <1>3, <1>10, <2>2
    <3>3. CASE b = rp
      <4>1. Place(rp) = rp  BY <1>3
      <4>2. seq = (mem[a].n + 1) % SeqMod  BY <1>6, <1>10, <3>1, <3>3, <4>1
      <4>3. mem'[b].n = seq  BY <1>1, <2>0, <3>3
      <4> QED BY <3>1, <3>2, <4>2, <4>3
    <3>4. CASE b # rp
      <4>1. Place(rp) = rp  BY <1>3
      <4>2. mem'[b] = mem[b] /\ (Written(b)' => Written(b))
        BY <1>1, <1>2, <2>0, <3>4
      <4>3. Written(b) => mem[b].n = (mem[a].n + 1) % SeqMod
        BY <1>6, <1>10, <3>1, <3>4, <4>1
      <4> QED BY <3>1, <3>2, <4>2, <4>3
    <3> QED BY <3>3, <3>4
  <2> QED BY <2>1, <2>2
<1>11. Recorded'
  <2>1. ASSUME NEW a \in Ring', Written(a)'
        PROVE  IF After(a)' = Place(rp)' THEN seq' = (mem'[a].n + 1) % SeqMod'
               ELSE Written(After(a))' => mem'[After(a)'].n = (mem'[a].n + 1) % SeqMod'
    <3>1. PICK b : b = After(a)  OBVIOUS
    <3>2. After(a)' = b /\ a \in Ring  BY <1>4, <3>1
    <3>3. IF b = After(rp) THEN seq' = (mem'[a].n + 1) % SeqMod
          ELSE Written(b)' => mem'[b].n = (mem'[a].n + 1) % SeqMod
      BY <1>10, <2>1, <3>1, <3>2
    <3>4. Written(After(a))' <=> Written(b)'  BY <3>2 DEF Written
    <3> QED BY <3>2, <3>3, <3>4
  <2>2. FirstLap' \/ \A a \in Ring' : Written(a)'  BY <1>4, <1>9
  <2> QED BY <1>8, <2>1, <2>2 DEF Recorded, Addresses
<1> QED BY <1>1, <1>2, <1>11

(* The PDC moves to another buffer without a sample between *)
LEMMA RecordedMoves ==
    ASSUME TInv, ChunkSize > 0, Recorded, UNCHANGED <<mem, seq, RingSize>>,
           rp \in 0 .. RingSize, rp' \in Ring, Place(rp) = rp'
    PROVE  Recorded'
<1>q. PICK q : q = rp'  OBVIOUS
<1>0. RingSize \in Nat /\ RingSize > 0 /\ rp \in Nat /\ rp <= RingSize /\ q \in Nat /\ q < RingSize
  BY <1>q, WNumbers DEF Ring
<1>1. Ring' = Ring /\ \A a : After(a)' = After(a) /\ (Written(a)' <=> Written(a))
  BY DEF Ring, After, Place, Written
<1>2. Place(rp)' = Place(rp)
  <2>1. Place(rp)' = IF q = RingSize THEN 0 ELSE q  BY <1>q DEF Place
  <2> QED BY <1>0, <1>q, <2>1
<1>3. FirstLap => FirstLap' \/ \A a \in Ring : Written(a)'
  <2>1. CASE rp = RingSize
    <3>1. \A a \in Ring : a < rp  BY <1>0, <2>1 DEF Ring
    <3> QED BY <1>1, <3>1 DEF FirstLap
  <2>2. CASE rp # RingSize
    <3>1. rp' = rp  BY <2>2 DEF Place
    <3> QED BY <1>1, <3>1 DEF FirstLap
  <2> QED BY <2>1, <2>2
<1>4. (\A a \in Ring : Written(a)) => \A a \in Ring : Written(a)'  BY <1>1
<1>5. ASSUME NEW a \in Ring, Written(a)
      PROVE  IF After(a)' = Place(rp)' THEN seq' = (mem'[a].n + 1) % SeqMod
             ELSE Written(After(a))' => mem'[After(a)'].n = (mem'[a].n + 1) % SeqMod
  <2>1. PICK b : b = After(a)  OBVIOUS
  <2>2. IF b = Place(rp) THEN seq = (mem[a].n + 1) % SeqMod
        ELSE Written(b) => mem[b].n = (mem[a].n + 1) % SeqMod
    BY <1>5, <2>1 DEF Recorded
  <2>3. After(a)' = b /\ (Written(After(a))' <=> Written(b))
    BY <1>1, <2>1 DEF Written
  <2> QED BY <1>2, <2>2, <2>3
<1>6. \A a \in Addresses : ~mem'[a].fixed  BY DEF Recorded
<1>7. FirstLap' \/ \A a \in Ring' : Written(a)'  BY <1>1, <1>3, <1>4 DEF Recorded
<1>8. \A a \in Ring' : Written(a)' =>
         IF After(a)' = Place(rp)' THEN seq' = (mem'[a].n + 1) % SeqMod'
         ELSE Written(After(a))' => mem'[After(a)'].n = (mem'[a].n + 1) % SeqMod'
  BY <1>1, <1>5
<1> QED BY <1>6, <1>7, <1>8 DEF Recorded, Addresses

(* Adding less than m to a number below m, modulo m *)
LEMMA Around ==
    ASSUME NEW m \in Nat \ {0}, NEW x \in 0 .. m - 1, NEW k \in 0 .. m - 1
    PROVE  (x + k) % m = IF x + k < m THEN x + k ELSE x + k - m
<1>1. CASE x + k < m
  BY <1>1
<1>2. CASE ~(x + k < m)
  <2> DEFINE d == x + k - m
  <2>1. d \in Nat /\ d < m /\ x + k = 1 * m + d  BY <1>2
  <2> HIDE DEF d
  <2>2. (1 * m + d) % m = d  BY <2>1
  <2> QED BY <1>2, <2>1, <2>2 DEF d
<1> QED BY <1>1, <1>2

(* When the PDC has come round to the trigger, the samples from the trigger *)
(* on follow one another in memory                                          *)
LEMMA RecordedWindow ==
    ASSUME TInv, ChunkSize > 0, Recorded, la_trig_offset \in Ring, Written(la_trig_offset),
           trigSample = mem[la_trig_offset].n, rp \in 0 .. RingSize, Place(rp) = la_trig_offset,
           Fits
    PROVE  WindowHas(FALSE)
<1> DEFINE t == la_trig_offset
           w(i) == (t + i) % BufferSize
           s(i) == (trigSample + i) % SeqMod
           T == {i \in Nat : i < la_read_cnt => w(i) \in Ring /\ mem[w(i)].n = s(i)}
<1>0. /\ BufferSize \in Nat /\ BufferSize > 0 /\ RingSize \in Nat /\ RingSize > 0
      /\ RingSize <= BufferSize /\ SeqMod \in Nat /\ SeqMod > 0
      /\ la_read_cnt \in Nat /\ la_read_cnt <= BufferSize
      /\ mem \in [Addresses -> Sample]
  BY WNumbers
<1>1. t \in Nat /\ t < RingSize /\ t \in Addresses /\ rp \in Nat /\ rp <= RingSize
  BY <1>0, Neighbours
<1>2. \A a \in Ring : Written(a)
  <2>1. CASE FirstLap
    <3>1. t < rp  BY <2>1 DEF FirstLap
    <3>2. rp = RingSize  BY <1>1, <3>1 DEF Place
    <3> QED BY <2>1, <3>2, Neighbours DEF FirstLap
  <2> QED BY <2>1 DEF Recorded
<1>3. ASSUME NEW a \in Ring, After(a) # t PROVE mem[After(a)].n = (mem[a].n + 1) % SeqMod
  <2>1. Written(a) /\ Written(After(a))  BY <1>2, Neighbours
  <2> QED BY <1>3, <2>1 DEF Recorded
<1>4. trigSample \in 0 .. SeqMod - 1
  <2>1. mem[t] \in Sample  BY <1>0, <1>1
  <2>2. mem[t].n \in (0 .. SeqMod - 1) \cup {Stale} /\ mem[t].n # Stale
    BY <2>1 DEF Sample, Written
  <2> QED BY <2>2
<1>5. 0 \in T
  <2>1. w(0) = t  BY <1>0, <1>1
  <2>2. s(0) = trigSample  BY <1>0, <1>4
  <2> QED BY <2>1, <2>2
<1>6. ASSUME NEW i \in Nat, i \in T PROVE i + 1 \in T
  <2> SUFFICES ASSUME i + 1 < la_read_cnt PROVE w(i + 1) \in Ring /\ mem[w(i + 1)].n = s(i + 1)
    OBVIOUS
  <2>1. w(i) \in Ring /\ mem[w(i)].n = s(i)  BY <1>0, <1>6
  <2>2. /\ t \in 0 .. BufferSize - 1 /\ i \in 0 .. BufferSize - 1 /\ i + 1 \in 0 .. BufferSize - 1
        /\ BufferSize \in Nat \ {0}
    BY <1>0, <1>1
  <2>3. w(i) = IF t + i < BufferSize THEN t + i ELSE t + i - BufferSize
    BY <2>2, Around
  <2>4. w(i + 1) = IF t + (i + 1) < BufferSize THEN t + (i + 1) ELSE t + (i + 1) - BufferSize
    BY <2>2, Around
  <2>5. After(w(i)) = IF w(i) + 1 = RingSize THEN 0 ELSE w(i) + 1  BY <2>1, Neighbours
  <2> HIDE DEF w
  <2>6. w(i + 1) = After(w(i)) /\ w(i + 1) # t
    <3>1. CASE RingSize = BufferSize
      BY <1>0, <1>1, <2>2, <2>3, <2>4, <2>5, <3>1
    <3>2. CASE t + la_read_cnt <= RingSize
      BY <1>0, <1>1, <2>2, <2>3, <2>4, <2>5, <3>2
    <3> QED BY <3>1, <3>2 DEF Fits
  <2>7. w(i + 1) \in Ring  BY <2>1, <2>6, Neighbours
  <2>8. mem[w(i + 1)].n = (s(i) + 1) % SeqMod  BY <1>3, <2>1, <2>6
  <2>9. (s(i) + 1) % SeqMod = s(i + 1)
    <3>1. trigSample + i \in Nat /\ SeqMod \in Nat \ {0} /\ (trigSample + i) + 1 = trigSample + (i + 1)
      BY <1>0, <1>4
    <3> QED BY <3>1, ModStep
  <2> QED BY <2>7, <2>8, <2>9
<1> HIDE DEF T
<1>7. Nat \subseteq T  BY <1>5, <1>6, SetInduction
<1>8. ASSUME NEW i \in 0 .. la_read_cnt - 1
      PROVE  mem[w(i)] = [n |-> s(i), fixed |-> FALSE]
  <2>1. i \in T /\ i \in Nat /\ i < la_read_cnt  BY <1>0, <1>7
  <2>2. w(i) \in Ring /\ mem[w(i)].n = s(i)  BY <2>1 DEF T
  <2>3. w(i) \in Addresses  BY <2>2, Neighbours
  <2>4. mem[w(i)] \in Sample /\ ~mem[w(i)].fixed  BY <1>0, <2>3 DEF Recorded
  <2>5. mem[w(i)].fixed = FALSE  BY <2>4 DEF Sample
  <2> HIDE DEF w, s
  <2> QED BY <2>2, <2>4, <2>5 DEF Sample
<1> QED BY <1>8 DEF WindowHas

(* Steps that leave the ring, the PDC and memory alone *)
LEMMA DSame ==
    ASSUME UNCHANGED <<mem, seq, rp, rc, rnp, rnc, endrx, ioc_buffers, ioc_buffer_idx,
                       ioc_buffer_current, la_read_cnt, la_trigger_mask, la_trig_offset>>
    PROVE  /\ Laid' <=> Laid
           /\ Empty' <=> Empty
           /\ Planned' <=> Planned
           /\ Recorded' <=> Recorded
           /\ \A i, p : WrittenTo(i, p)' <=> WrittenTo(i, p)
           /\ \A i, p, c : Holds(i, p, c)' <=> Holds(i, p, c)
           /\ \A i : End(i)' = End(i)
<1> USE DEF Size, Addr, End, Place, RingSize, ChunkSize, Written, Ring, After
<1>1. Laid' <=> Laid  BY DEF Laid, Last
<1>2. Empty' <=> Empty  BY DEF Empty
<1>3. Planned' <=> Planned  BY DEF Planned
<1>4. Recorded' <=> Recorded  BY DEF Recorded, FirstLap
<1>5. \A i, p : WrittenTo(i, p)' <=> WrittenTo(i, p)  BY DEF WrittenTo
<1>6. \A i, p, c : Holds(i, p, c)' <=> Holds(i, p, c)  BY DEF Holds
<1>7. \A i : End(i)' = End(i)  OBVIOUS
<1> QED BY <1>1, <1>2, <1>3, <1>4, <1>5, <1>6, <1>7

LEMMA DElsewhere ==
    ASSUME CaptureInv,
           UNCHANGED <<mem, seq, rp, rc, rnp, rnc, endrx, ioc_buffers, ioc_buffer_idx,
                       ioc_buffer_current, la_read_cnt, la_trigger_mask, la_trig_offset,
                       trigSample>>,
           Made' => Made, Live' => Live /\ pc # "next" /\ pc' # "next",
           isr' = "handler" => isr = "handler" /\ cur_buf' = cur_buf,
           la_state' = "ACQUIRED" => la_state = "ACQUIRED" \/ Last(ioc_buffer_idx)
    PROVE  CaptureInv'
<1>1. /\ Laid' <=> Laid
      /\ Empty' <=> Empty
      /\ Planned' <=> Planned
      /\ Recorded' <=> Recorded
  BY DSame
<1>2. ASSUME Live', Behind PROVE Behind'
  <2>1. /\ \A i, p : WrittenTo(i, p)' <=> WrittenTo(i, p)
        /\ \A i, p, c : Holds(i, p, c)' <=> Holds(i, p, c)
        /\ \A i : End(i)' = End(i)
    BY DSame
  <2>2. pc # "next" /\ pc' # "next"  BY <1>2
  <2>3. \/ /\ rc = 0 /\ WrittenTo(ioc_buffer_current, End(ioc_buffer_current))
           /\ WrittenTo(ioc_buffer_idx, End(ioc_buffer_idx))
        \/ /\ rc > 0 /\ rnc = 0 /\ Holds(ioc_buffer_idx, rp, rc)
           /\ WrittenTo(ioc_buffer_current, End(ioc_buffer_current))
           /\ WrittenTo(ioc_buffer_idx, rp)
        \/ /\ rc > 0 /\ rnc > 0 /\ Holds(ioc_buffer_current, rp, rc)
           /\ WrittenTo(ioc_buffer_current, rp)
    BY <1>2, <2>2 DEF Behind
  <2>4. isr' = "handler" => WrittenTo(cur_buf, End(cur_buf)) /\ cur_buf' = cur_buf
    BY <1>2, <2>2 DEF Behind
  <2> USE DEF WrittenTo, End, Addr, Size, Holds, Written
  <2>5. \/ /\ rc' = 0 /\ WrittenTo(ioc_buffer_current, End(ioc_buffer_current))'
           /\ WrittenTo(ioc_buffer_idx, End(ioc_buffer_idx))'
        \/ /\ rc' > 0 /\ rnc' = 0 /\ Holds(ioc_buffer_idx, rp, rc)'
           /\ WrittenTo(ioc_buffer_current, End(ioc_buffer_current))'
           /\ WrittenTo(ioc_buffer_idx, rp)'
        \/ /\ rc' > 0 /\ rnc' > 0 /\ Holds(ioc_buffer_current, rp, rc)'
           /\ WrittenTo(ioc_buffer_current, rp)'
    BY <2>3
  <2>6. isr' = "handler" => WrittenTo(cur_buf, End(cur_buf))'  BY <2>4
  <2> QED BY <2>2, <2>5, <2>6 DEF Behind
<1>3. Triggered => Triggered'
  BY DEF Triggered, Ring, RingSize, ChunkSize, Written, Last, Place, End, Addr, Size, Spared
<1> QED BY <1>1, <1>2, <1>3 DEF CaptureInv

(* Between acquisitions nothing is asked of the ring *)
LEMMA DRest == ASSUME ~Made', ~Live' PROVE CaptureInv'
BY DEF CaptureInv

(* Ends of a stretch of the ring that are the same place are equal *)
LEMMA SamePlace ==
    ASSUME NEW p \in Nat, NEW q \in Nat, p > 0, p <= q, q <= RingSize, RingSize \in Nat,
           Place(p) = Place(q)
    PROVE  p = q
BY DEF Place

(* Where the buffers are, and how long *)
LEMMA BufferPlaces ==
    ASSUME TInv, Laid, ChunkSize > 0, NEW i \in BufferIds
    PROVE  /\ Addr(i) \in Nat /\ Addr(i) \in Ring /\ Place(Addr(i)) = Addr(i)
           /\ End(i) \in Nat /\ End(i) <= RingSize /\ Size(i) \in Nat
           /\ ~Last(i) \/ la_trig_offset = UINT_MAX
                => Size(i) = ChunkSize /\ Place(End(i)) = Addr(Following(i))
<1>1. RingSize \in Nat /\ ChunkSize \in Nat  BY WNumbers
<1>2. Addr(i) \in Nat /\ Size(i) \in Nat  BY RTypes DEF Addr
<1>3. Addr(i) + ChunkSize <= RingSize /\ Size(i) <= ChunkSize  BY DEF Laid
<1>4. Addr(i) \in Ring /\ Place(Addr(i)) = Addr(i)  BY <1>1, <1>2, <1>3 DEF Ring, Place
<1>5. End(i) \in Nat /\ End(i) <= RingSize  BY <1>1, <1>2, <1>3 DEF End
<1>6. ASSUME ~Last(i) \/ la_trig_offset = UINT_MAX
      PROVE  Size(i) = ChunkSize /\ Place(End(i)) = Addr(Following(i))
  <2>1. Size(i) = ChunkSize  BY <1>6 DEF Laid
  <2> QED BY <2>1 DEF Laid, End
<1> QED BY <1>2, <1>4, <1>5, <1>6

(* The PDC stores a sample *)
LEMMA DPdc == ASSUME DInv, Pdc PROVE CaptureInv' /\ Handed'
<1>0. TInv /\ WInv /\ RInv  BY DEF DInv, RInv, WInv
<1>1. /\ rc > 0
      /\ mem' = [mem EXCEPT ![rp] = [n |-> seq, fixed |-> FALSE]]
      /\ seq' = (seq + 1) % SeqMod
      /\ IF rc = 1 THEN rnc' = 0 /\ rc' = rnc /\ rp' = IF rnc > 0 THEN rnp ELSE rp + 1
                   ELSE rc' = rc - 1 /\ rp' = rp + 1 /\ UNCHANGED <<rnc, endrx>>
      /\ UNCHANGED <<rnp, busy, ioc_buffers, ioc_buffer_idx, ioc_buffer_current, isr, cur_buf,
                     pc, la_state, la_read_cnt, la_trig_offset, la_trigger_mask, trigSample>>
  BY DEF Pdc, PdcStore, enVars, ringVars, isrVars, laVars, mainVars
<1>2. ~RxBuff  BY <1>1 DEF RxBuff
<1>3. busy /\ pc \notin {"run", "current", "count"}  BY <1>0, <1>2 DEF WInv, Idle
<1>4. pc \notin {"fix", "deliver", "delivered"}
  BY <1>0, <1>2 DEF WInv, Phases, Acquired, Silent, IrqPending
<1>5. ~Made' /\ Handed'  BY <1>1, <1>3, <1>4 DEF Made, Handed
<1>6. (Live' <=> Live) /\ RingSize' = RingSize /\ ChunkSize' = ChunkSize
  BY <1>1 DEF Live, ChunkSize, RingSize
<1> SUFFICES ASSUME Live PROVE CaptureInv'
  BY <1>5, <1>6, DRest
<1>7. /\ ChunkSize > 0 /\ Laid /\ Planned /\ Recorded
      /\ la_trig_offset = UINT_MAX => Behind
      /\ la_trig_offset # UINT_MAX => Triggered
  BY DEF DInv, CaptureInv, Live
<1>8. /\ rp \in Nat /\ rc \in Nat /\ rnp \in Nat /\ rnc \in Nat /\ RingSize \in Nat
      /\ ioc_buffer_idx \in BufferIds /\ ioc_buffer_current \in BufferIds
  BY <1>0, WNumbers, RTypes
<1>9. rp \in Ring /\ rp \in Addresses /\ rp + 1 <= RingSize
  <2>1. rp + rc <= RingSize  BY <1>7 DEF Planned
  <2>2. rp \in Ring  BY <1>1, <1>8, <2>1 DEF Ring
  <2> QED BY <1>0, <1>1, <1>7, <1>8, <2>1, <2>2, Neighbours
<1>10. ASSUME rc = 1, rnc > 0
       PROVE  /\ rp' = Addr(ioc_buffer_idx) /\ rc' = Size(ioc_buffer_idx) /\ rnc' = 0
              /\ After(rp) = Addr(ioc_buffer_idx) /\ rp' \in Ring /\ Place(rp)' = After(rp)
  <2>1. Place(rp + 1) = Addr(ioc_buffer_idx) /\ rnp = Addr(ioc_buffer_idx)
        /\ rnc = Size(ioc_buffer_idx)
    BY <1>7, <1>10 DEF Planned
  <2>2. Addr(ioc_buffer_idx) \in Ring /\ Place(Addr(ioc_buffer_idx)) = Addr(ioc_buffer_idx)
    BY <1>0, <1>7, <1>8, BufferPlaces
  <2>3. rp' = Addr(ioc_buffer_idx) /\ rc' = Size(ioc_buffer_idx) /\ rnc' = 0
    BY <1>1, <1>10, <2>1
  <2>4. PICK q : q = rp'  OBVIOUS
  <2>5. Place(rp)' = Place(q)  BY <1>6, <2>4 DEF Place
  <2> QED BY <2>1, <2>2, <2>3, <2>4, <2>5 DEF After
<1>11. ASSUME ~(rc = 1 /\ rnc > 0)
       PROVE  rp' = rp + 1 /\ rc' = rc - 1 /\ rnc' = rnc /\ Place(rp)' = After(rp)
  <2>1. rp' = rp + 1 /\ rc' = rc - 1 /\ rnc' = rnc  BY <1>1, <1>8, <1>11
  <2>2. PICK q : q = rp'  OBVIOUS
  <2>3. Place(rp)' = Place(q)  BY <1>6, <2>2 DEF Place
  <2> QED BY <2>1, <2>2, <2>3 DEF After
<1>12. /\ Recorded'
       /\ \A a \in Addresses : Written(a)' <=> Written(a) \/ a = rp
       /\ \A a \in Addresses : a # rp => mem'[a] = mem[a]
  <2>1. Place(rp)' = After(rp)  BY <1>10, <1>11
  <2>2. rp' \in 0 .. RingSize  BY <1>8, <1>9, <1>10, <1>11 DEF Ring
  <2>3. UNCHANGED RingSize  BY <1>6
  <2>4. TInv /\ ChunkSize > 0 /\ Recorded /\ rp \in Ring  BY <1>0, <1>7, <1>9
  <2>5. mem' = [mem EXCEPT ![rp] = [n |-> seq, fixed |-> FALSE]] /\ seq' = (seq + 1) % SeqMod
    BY <1>1
  <2> QED BY <2>1, <2>2, <2>3, <2>4, <2>5, StoreRecords
<1>13. Laid'
  BY <1>1, <1>6, <1>7 DEF Laid, Addr, Size, Last, Place
<1>14. /\ \A i : Addr(i)' = Addr(i) /\ Size(i)' = Size(i) /\ End(i)' = End(i) /\ Last(i)' = Last(i)
       /\ \A p : Place(p)' = Place(p)
  BY <1>1, <1>6 DEF Addr, End, Size, Last, Place
<1>15. Planned'
  <2>1. CASE rc = 1 /\ rnc > 0
    <3>1. End(ioc_buffer_idx) <= RingSize  BY <1>0, <1>7, <1>8, BufferPlaces
    <3>2. rp' + rc' = End(ioc_buffer_idx) /\ rnc' = 0 /\ ioc_buffer_idx' = ioc_buffer_idx
      BY <1>1, <1>10, <2>1 DEF End
    <3>3. PICK q : q = rp' + rc'  OBVIOUS
    <3>4. Place(rp + rc)' = Place(q) /\ Place(End(ioc_buffer_idx))' = Place(q)
      BY <1>6, <1>14, <3>2, <3>3 DEF Place
    <3> QED BY <1>6, <3>1, <3>2, <3>4 DEF Planned
  <2>2. CASE ~(rc = 1 /\ rnc > 0)
    <3>1. rp' + rc' = rp + rc /\ rnc' = rnc /\ rnp' = rnp /\ ioc_buffer_idx' = ioc_buffer_idx
          /\ (rnc > 0 => rc' > 0 /\ endrx' = endrx)
      BY <1>1, <1>8, <1>11, <2>2
    <3>2. Place(rp + rc)' = Place(rp + rc)
          /\ Place(End(ioc_buffer_idx))' = Place(End(ioc_buffer_idx))
      BY <1>6, <1>14, <3>1 DEF Place
    <3> QED BY <1>6, <1>7, <1>14, <3>1, <3>2 DEF Planned
  <2> QED BY <2>1, <2>2
<1>16. ASSUME NEW i \in BufferIds, NEW p, WrittenTo(i, p) PROVE WrittenTo(i, p)'
  BY <1>12, <1>14, <1>16 DEF WrittenTo, Addresses
<1>17. ASSUME NEW i \in BufferIds, WrittenTo(i, rp), rp' = rp + 1 PROVE WrittenTo(i, rp)'
  <2>1. \A a \in Addresses : a < rp + 1 => a < rp \/ a = rp
    <3>1. BufferSize \in Nat  BY <1>0, WNumbers
    <3> QED BY <1>8, <3>1 DEF Addresses
  <2>2. PICK q : q = rp'  OBVIOUS
  <2>3. \A a \in Addresses : Addr(i)' <= a /\ a < q => Written(a)'
    BY <1>12, <1>14, <1>17, <2>1, <2>2 DEF WrittenTo
  <2> QED BY <2>2, <2>3 DEF WrittenTo, Addresses
<1>18. ASSUME la_trig_offset' = UINT_MAX PROVE Behind'
  <2>1. Behind /\ la_trig_offset = UINT_MAX  BY <1>1, <1>7, <1>18
  <2>2. CASE pc = "next"
    <3>1. rnc = 0  BY <1>0, <2>2 DEF RInv, Starting
    <3>2. rp' = rp + 1 /\ rc' = rc - 1  BY <1>11, <3>1
    <3>3. 0 \in BufferIds /\ WrittenTo(0, rp) /\ rp + rc = End(0)
      BY <1>0, <2>1, <2>2, RTypes DEF Behind
    <3>4. WrittenTo(0, rp)'  BY <1>17, <3>2, <3>3
    <3>5. rp' + rc' = End(0)'  BY <1>8, <1>14, <3>2, <3>3
    <3> QED BY <1>1, <2>2, <3>4, <3>5 DEF Behind
  <2>3. CASE pc # "next"
    <3> DEFINE cu == ioc_buffer_current
               ix == ioc_buffer_idx
    <3>0. cu \in BufferIds /\ ix \in BufferIds /\ cu' = cu /\ ix' = ix /\ pc' # "next"
      BY <1>1, <1>8, <2>3
    <3>1. cur_buf \in BufferIds  BY <1>0, RTypes
    <3>2. isr' = "handler" => WrittenTo(cur_buf, End(cur_buf))'
      <4> SUFFICES ASSUME isr = "handler" PROVE WrittenTo(cur_buf, End(cur_buf))'
        BY <1>1
      <4>1. WrittenTo(cur_buf, End(cur_buf))  BY <2>1, <2>3 DEF Behind
      <4>2. \A a \in Addresses : Addr(cur_buf) <= a /\ a < End(cur_buf) => Written(a)'
        BY <1>12, <4>1 DEF WrittenTo
      <4> QED BY <1>1, <1>14, <4>2 DEF WrittenTo, Addresses
    <3>3. ASSUME NEW i \in BufferIds, WrittenTo(i, End(i))
          PROVE  \A a \in Addresses : Addr(i)' <= a /\ a < End(i)' => Written(a)'
      BY <1>12, <1>14, <3>3 DEF WrittenTo
    <3>4. CASE rc > 0 /\ rnc = 0 /\ Holds(ix, rp, rc) /\ WrittenTo(cu, End(cu)) /\ WrittenTo(ix, rp)
      <4>1. rp' = rp + 1 /\ rc' = rc - 1 /\ rnc' = 0  BY <1>11, <3>4
      <4>2. WrittenTo(ix, rp)'
        <5>1. PICK i : i = ix  OBVIOUS
        <5>2. WrittenTo(i, rp)'  BY <1>17, <3>0, <3>4, <4>1, <5>1
        <5> QED BY <3>0, <5>1, <5>2 DEF WrittenTo, Addr
      <4>3. WrittenTo(cu, End(cu))'  BY <3>0, <3>3, <3>4, <1>14 DEF WrittenTo, Addresses
      <4>4. CASE rc = 1
        <5>1. rp + 1 = End(ix)
          <6>1. Place(rp + 1) = Place(End(ix))  BY <1>7, <3>4, <4>4 DEF Planned
          <6>2. rp + 1 <= End(ix)  BY <3>4, <4>4 DEF Holds, End, Addr
          <6>3. End(ix) \in Nat /\ End(ix) <= RingSize  BY <1>0, <1>7, <3>0, BufferPlaces
          <6>4. rp + 1 \in Nat /\ rp + 1 > 0  BY <1>8
          <6> HIDE DEF ix
          <6> QED BY <1>8, <6>1, <6>2, <6>3, <6>4, SamePlace
        <5>2. rc' = 0  BY <4>1, <4>4
        <5>3. WrittenTo(ix, End(ix))'
          BY <1>14, <3>0, <4>1, <4>2, <5>1 DEF WrittenTo, Addresses
        <5> QED BY <3>0, <3>2, <4>3, <5>2, <5>3 DEF Behind
      <4>5. CASE rc # 1
        <5>1. rc' > 0 /\ rnc' = 0  BY <1>8, <3>4, <4>1, <4>5
        <5>2. Holds(ix, rp, rc)'
          <6>1. rp' + rc' = rp + rc /\ Addr(ix) <= rp'
            BY <1>0, <1>8, <3>0, <3>4, <4>1, RTypes DEF Holds, Addr
          <6> QED BY <1>14, <3>0, <3>4, <6>1 DEF Holds, Addr
        <5> QED BY <3>0, <3>2, <4>2, <4>3, <5>1, <5>2 DEF Behind
      <4> QED BY <4>4, <4>5
    <3>5. CASE rc > 0 /\ rnc > 0 /\ Holds(cu, rp, rc) /\ WrittenTo(cu, rp)
      <4>1. CASE rc = 1
        <5>1. /\ rp' = Addr(ix) /\ rc' = Size(ix) /\ rnc' = 0 /\ rc' = rnc /\ rc' > 0
              /\ Place(rp + 1) = Addr(ix)
          BY <1>1, <1>10, <3>5, <4>1 DEF After
        <5>2. ix = Following(cu)
          BY <1>0, <1>3, <2>1, <2>3 DEF RInv, Before, Searching, InARow
        <5>3. Size(cu) = ChunkSize /\ Place(End(cu)) = Addr(ix) /\ End(cu) \in Nat
              /\ End(cu) <= RingSize
          BY <1>0, <1>7, <2>1, <3>0, <5>2, BufferPlaces
        <5>4. rp + 1 = End(cu)
          <6>1. rp + 1 <= End(cu)  BY <3>5, <4>1 DEF Holds, End, Addr
          <6>2. rp + 1 \in Nat /\ rp + 1 > 0  BY <1>8
          <6> HIDE DEF cu, ix
          <6> QED BY <1>8, <5>1, <5>3, <6>1, <6>2, SamePlace
        <5>5. WrittenTo(cu, End(cu))'
          <6>1. \A a \in Addresses : a < rp + 1 => a < rp \/ a = rp
            <7>1. BufferSize \in Nat  BY <1>0, WNumbers
            <7> QED BY <1>8, <7>1 DEF Addresses
          <6>2. \A a \in Addresses : Addr(cu) <= a /\ a < End(cu) => Written(a)'
            BY <1>12, <3>5, <5>4, <6>1 DEF WrittenTo
          <6> QED BY <1>14, <3>0, <6>2 DEF WrittenTo, Addresses
        <5>6. WrittenTo(ix, rp)'
          <6>1. Addr(ix) \in Nat /\ BufferSize \in Nat  BY <1>0, <3>0, RTypes, WNumbers DEF Addr
          <6>2. \A a \in Addresses : ~(Addr(ix) <= a /\ a < Addr(ix))  BY <6>1 DEF Addresses
          <6> QED BY <1>14, <3>0, <5>1, <6>2 DEF WrittenTo, Addresses
        <5>7. Holds(ix, rp, rc)'
          <6>1. Addr(ix) \in Nat /\ Size(ix) \in Nat  BY <1>0, <3>0, RTypes DEF Addr
          <6>2. rp' + rc' <= Addr(ix) + Size(ix) /\ Addr(ix) <= rp'  BY <5>1, <6>1
          <6> QED BY <1>14, <3>0, <6>2 DEF Holds, Addr
        <5> QED BY <3>0, <3>2, <5>1, <5>5, <5>6, <5>7 DEF Behind
      <4>2. CASE rc # 1
        <5>1. rp' = rp + 1 /\ rc' = rc - 1 /\ rnc' = rnc  BY <1>11, <4>2
        <5>2. rc' > 0 /\ rnc' > 0  BY <1>8, <3>5, <4>2, <5>1
        <5>3. WrittenTo(cu, rp)'
          <6>1. PICK i : i = cu  OBVIOUS
          <6>2. WrittenTo(i, rp)'  BY <1>17, <3>0, <3>5, <5>1, <6>1
          <6> QED BY <3>0, <6>1, <6>2 DEF WrittenTo, Addr
        <5>4. Holds(cu, rp, rc)'
          <6>1. rp' + rc' = rp + rc /\ Addr(cu) <= rp'
            BY <1>0, <1>8, <3>0, <3>5, <5>1, RTypes DEF Holds, Addr
          <6> QED BY <1>14, <3>0, <3>5, <6>1 DEF Holds, Addr
        <5> QED BY <3>0, <3>2, <5>2, <5>3, <5>4 DEF Behind
      <4> QED BY <4>1, <4>2
    <3> QED BY <1>1, <2>1, <2>3, <3>4, <3>5 DEF Behind
  <2> QED BY <2>2, <2>3
<1>19. ASSUME la_trig_offset' # UINT_MAX PROVE Triggered'
  <2> DEFINE t == la_trig_offset
  <2>1. Triggered /\ t' = t  BY <1>1, <1>7, <1>19
  <2>2. t \in Addresses /\ t \in Nat  BY <1>0, <1>7, <2>1, Neighbours DEF Triggered
  <2>3. rp # t
    BY <1>1, <1>8, <2>1 DEF Triggered, Spared
  <2>4. Written(t)' /\ mem'[t] = mem[t]  BY <1>12, <2>1, <2>2, <2>3 DEF Triggered
  <2>5. Spared(rp', rc')
    <3>1. CASE rc = 1 /\ rnc > 0
      <4>1. rp' = rnp /\ rc' = rnc  BY <1>1, <3>1
      <4> QED BY <2>1, <4>1 DEF Triggered
    <3>2. CASE ~(rc = 1 /\ rnc > 0)
      BY <1>8, <1>11, <2>1, <2>2, <3>2 DEF Triggered, Spared
    <3> QED BY <3>1, <3>2
  <2>6. Spared(rnp', rnc')
    BY <1>1, <2>1 DEF Triggered, Spared
  <2>7. Spared(rp, rc)' /\ Spared(rnp, rnc)'
    BY <2>1, <2>5, <2>6 DEF Spared
  <2>8. Ring' = Ring  BY <1>6 DEF Ring
  <2>9. \A i \in BufferIds : Last(i)' => Place(End(i))' = t
    BY <1>6, <1>14, <2>1 DEF Triggered, Place
  <2>10. IF la_trigger_mask' THEN \A i \in BufferIds : Spared(Addr(i), Size(i))' ELSE t = 0
    BY <1>1, <1>14, <2>1 DEF Triggered, Spared
  <2> QED BY <1>1, <2>1, <2>4, <2>7, <2>8, <2>9, <2>10 DEF Triggered, Written, Last
<1> QED BY <1>1, <1>5, <1>6, <1>7, <1>12, <1>13, <1>15, <1>18, <1>19 DEF CaptureInv

(* ioc_set_next_buffer hands the PDC the buffer that follows around the ring *)
LEMMA Supplies ==
    ASSUME TInv, BuffersCnt >= 3, ChunkSize > 0, Laid, Planned, Recorded, rnc = 0,
           ~Last(ioc_buffer_idx), SetNextBuffer,
           UNCHANGED <<mem, seq, ioc_buffers, la_read_cnt>>
    PROVE  LET j == Following(ioc_buffer_idx)
           IN  /\ j \in BufferIds /\ ioc_buffer_idx' = j /\ ioc_buffer_current' = ioc_buffer_idx
               /\ Planned' /\ Recorded'
               /\ \/ rc = 0 /\ rp' = Addr(j) /\ rc' = Size(j) /\ rnc' = 0 /\ Size(j) > 0
                  \/ /\ rc > 0 \/ Size(j) = 0
                     /\ rp' = rp /\ rc' = rc /\ rnp' = Addr(j) /\ rnc' = Size(j)
<1> DEFINE ix == ioc_buffer_idx
           j  == Following(ix)
           b  == ioc_buffers[j]
<1>1. ix \in BufferIds /\ j \in BufferIds  BY RTypes, ThreeInARow
<1>2. ix' = j /\ ioc_buffer_current' = ix /\ WriteNext(b)
  BY DEF SetNextBuffer, Last, Following
<1>3. /\ rp \in Nat /\ rc \in Nat /\ RingSize \in Nat /\ RingSize > 0
      /\ b.addr = Addr(j) /\ b.size = Size(j) /\ Addr(j) \in Nat /\ Size(j) \in Nat
  BY <1>1, RTypes, WNumbers DEF Addr, Size
<1>4. Addr(j) \in Ring /\ Place(Addr(j)) = Addr(j) /\ End(j) <= RingSize  BY <1>1, BufferPlaces
<1>5. rp + rc <= RingSize /\ Place(rp + rc) = Addr(j)
  <2>1. Place(End(ix)) = Addr(j)  BY <1>1, BufferPlaces
  <2> QED BY <2>1 DEF Planned
<1>6. /\ RingSize' = RingSize
      /\ \A p : Place(p)' = Place(p)
      /\ \A i : Addr(i)' = Addr(i) /\ Size(i)' = Size(i) /\ End(i)' = End(i)
  BY DEF RingSize, ChunkSize, Place, Addr, Size, End
<1>7. CASE rc = 0 /\ b.size > 0
  <2>1. rp' = Addr(j) /\ rc' = Size(j) /\ rnc' = 0  BY <1>2, <1>3, <1>7 DEF WriteNext
  <2>2. Place(rp) = rp' /\ rp \in 0 .. RingSize  BY <1>3, <1>5, <1>7, <2>1
  <2>3. Recorded'
    <3>1. UNCHANGED <<mem, seq, RingSize>>  BY <1>6
    <3>2. rp' \in Ring  BY <1>4, <2>1
    <3> QED BY <2>2, <3>1, <3>2, RecordedMoves
  <2>4. Planned'
    <3>1. rp' + rc' = End(j)  BY <2>1 DEF End
    <3>2. PICK q : q = End(j)  OBVIOUS
    <3>3. Place(rp + rc)' = Place(q) /\ Place(End(ioc_buffer_idx))' = Place(q)
      BY <1>2, <1>6, <3>1, <3>2 DEF Place
    <3> QED BY <1>4, <1>6, <2>1, <3>1, <3>3 DEF Planned
  <2> QED BY <1>1, <1>2, <1>3, <1>7, <2>1, <2>3, <2>4
<1>8. CASE ~(rc = 0 /\ b.size > 0)
  <2>1. rnp' = Addr(j) /\ rnc' = Size(j) /\ endrx' = (endrx /\ b.size = 0) /\ rp' = rp /\ rc' = rc
    BY <1>2, <1>3, <1>8 DEF WriteNext
  <2>2. rc > 0 \/ Size(j) = 0  BY <1>3, <1>8
  <2>3. Recorded'
    <3>1. Ring' = Ring /\ \A a : After(a)' = After(a) /\ (Written(a)' <=> Written(a))
      BY <1>6 DEF Ring, After, Written, Place
    <3>2. Place(rp)' = Place(rp)  BY <1>6, <2>1 DEF Place
    <3> QED BY <1>6, <2>1 DEF Recorded, FirstLap, Ring, After, Written, Place
  <2>4. Planned'
    <3>1. Place(rp + rc)' = Addr(j) /\ Addr(ioc_buffer_idx)' = Addr(j) /\ Size(ioc_buffer_idx)' = Size(j)
      BY <1>2, <1>5, <1>6, <2>1 DEF Place, Addr, Size
    <3>2. rnc' = 0 => Place(End(ioc_buffer_idx))' = Addr(j)
      <4> SUFFICES ASSUME Size(j) = 0 PROVE Place(End(ioc_buffer_idx))' = Addr(j)
        BY <2>1
      <4>1. End(j) = Addr(j)  BY <1>3 DEF End
      <4>2. End(ioc_buffer_idx)' = Addr(j)  BY <1>2, <1>6, <4>1 DEF End, Addr, Size
      <4> QED BY <1>4, <1>6, <4>2 DEF Place
    <3>3. rnc' > 0 => rc' > 0 /\ ~endrx'
      <4>1. rnc' > 0 => rc' > 0 /\ b.size # 0  BY <1>3, <2>1, <2>2
      <4> QED BY <2>1, <4>1, Zenon
    <3> QED BY <1>5, <1>6, <2>1, <3>1, <3>2, <3>3 DEF Planned
  <2> QED BY <1>1, <1>2, <2>1, <2>2, <2>3, <2>4
<1> QED BY <1>7, <1>8

(* Stretches of two buffers have no place in common *)
LEMMA ApartAll ==
    ASSUME TInv, RingOrdered, NEW i \in BufferIds, NEW j \in BufferIds, i # j,
           NEW p \in Nat, NEW c \in Nat, Holds(i, p, c),
           NEW a \in Nat, Addr(j) <= a, a < End(j)
    PROVE  c > 0 => ~(p <= a /\ a < p + c)
<1>1. i \in Nat /\ j \in Nat  BY ConstAssumption DEF BufferIds
<1>2. /\ ioc_buffers[i].addr \in Nat /\ Size(i) \in Nat
      /\ ioc_buffers[j].addr \in Nat /\ Size(j) \in Nat
  BY RTypes
<1>3. CASE i < j
  BY <1>2, <1>3 DEF RingOrdered, Holds, Addr, End
<1>4. CASE j < i
  BY <1>2, <1>4 DEF RingOrdered, Holds, Addr, End
<1> QED BY <1>1, <1>3, <1>4

(* Once the trigger is found, no buffer up to the last one holds it *)
LEMMA SparedNext ==
    ASSUME TInv, BuffersCnt >= 3, ChunkSize > 0, Laid, Triggered, NEW i \in BufferIds, ~Last(i)
    PROVE  Spared(Addr(Following(i)), Size(Following(i)))
<1> DEFINE j == Following(i)
<1>1. j \in BufferIds  BY ThreeInARow
<1>2. CASE la_trigger_mask
  BY <1>1, <1>2 DEF Triggered
<1>3. CASE ~la_trigger_mask
  <2>1. BuffersCnt \in Nat /\ i \in Nat /\ i < BuffersCnt /\ i # BuffersCnt - 1
    BY <1>3, ConstAssumption DEF Laid, BufferIds
  <2>2. j = i + 1
    <3> DEFINE n == BuffersCnt
    <3>1. n \in Nat /\ i + 1 < n  BY <2>1
    <3> HIDE DEF n
    <3>2. (i + 1) % n = i + 1  BY <2>1, <3>1
    <3> QED BY <3>2 DEF Following, n
  <2>3. Addr(0) + ChunkSize <= Addr(j) /\ Addr(0) = 0
    BY <1>1, <2>1, <2>2, RTypes DEF Laid
  <2>4. Addr(j) > 0 /\ Addr(j) \in Nat  BY <1>1, <2>3, RTypes, WNumbers DEF Addr
  <2>5. la_trig_offset = 0  BY <1>3 DEF Triggered
  <2> QED BY <2>4, <2>5 DEF Spared
<1> QED BY <1>2, <1>3

(* PIOA_Handler reads where it is and supplies a buffer *)
LEMMA DEnter ==
    ASSUME DInv, BuffersCnt >= 3, Live, IsrEnter, ~ioc_stop_acq,
           UNCHANGED <<laVars, mainVars, out, trigSample>>
    PROVE  CaptureInv'
<1> DEFINE cu == ioc_buffer_current
           ix == ioc_buffer_idx
<1>0. TInv /\ WInv /\ RInv  BY DEF DInv, RInv, WInv
<1>1. /\ isr = "off" /\ isr' = "handler" /\ irq /\ (endrx \/ RxBuff) /\ cur_buf' = cu /\ SetNextBuffer
      /\ UNCHANGED <<mem, seq, busy, ioc_buffers, la_trigger_mask, la_read_cnt, la_trig_offset,
                     la_state, pc, trigSample>>
  BY DEF IsrEnter, IrqPending, laVars, mainVars
<1>2. busy /\ pc \notin {"run", "current", "count", "next"}  BY <1>0, <1>1 DEF WInv, Phases
<1>3. /\ ChunkSize > 0 /\ Laid /\ Planned /\ Recorded
      /\ la_trig_offset = UINT_MAX => Behind
      /\ la_trig_offset # UINT_MAX => Triggered
  BY DEF DInv, CaptureInv, Live
<1>4. /\ rp \in Nat /\ rc \in Nat /\ rnp \in Nat /\ rnc \in Nat /\ RingSize \in Nat
      /\ ix \in BufferIds /\ cu \in BufferIds
  BY <1>0, WNumbers, RTypes
<1>5. rnc = 0
  <2>1. rnc > 0 => ~endrx /\ ~RxBuff  BY <1>3 DEF Planned, RxBuff
  <2> QED BY <1>1, <1>4, <2>1
<1>6. /\ \A p : Place(p)' = Place(p)
      /\ \A i : Addr(i)' = Addr(i) /\ Size(i)' = Size(i) /\ End(i)' = End(i) /\ Last(i)' = Last(i)
      /\ \A a : Written(a)' <=> Written(a)
      /\ RingSize' = RingSize /\ ChunkSize' = ChunkSize
  BY <1>1 DEF RingSize, ChunkSize, Place, Addr, Size, End, Last, Written
<1>7. Laid' /\ ~Made' /\ Live'
  <2>1. Laid'  BY <1>1, <1>3, <1>6 DEF Laid, Place, Addr, Size, Last
  <2> QED BY <1>1, <1>2, <1>6, <2>1 DEF Made, Live
<1>8. ASSUME NEW i, NEW p, WrittenTo(i, p)
      PROVE  \A a \in Addresses : Addr(i) <= a /\ a < p => Written(a)'
  BY <1>6, <1>8 DEF WrittenTo
<1>9. CASE Last(ix)
  <2>1. UNCHANGED <<ioc_buffer_idx, rp, rc, rnp, rnc, endrx>>
    BY <1>1, <1>9 DEF SetNextBuffer, pdcVars, Last
  <2>2. la_trig_offset # UINT_MAX
    <3> SUFFICES ASSUME la_trig_offset = UINT_MAX PROVE FALSE
      OBVIOUS
    <3>1. RingFresh /\ InARow
      BY <1>0, <1>2 DEF RInv, Untouched, Before, Searching
    <3>2. ~la_trigger_mask /\ ix = BuffersCnt - 1  BY <1>4, <1>9, <3>1 DEF RingFresh
    <3>3. ix = 1
      <4>1. 0 \in BufferIds => Following(0) = 1  BY ThreeInARow
      <4> QED BY <1>0, <1>1, <3>1, <3>2, <4>1, RTypes DEF InARow
    <3> QED BY <3>2, <3>3, ConstAssumption
  <2>3. Planned' /\ Recorded'
    BY <1>1, <1>3, <1>6, <2>1
    DEF Planned, Recorded, FirstLap, Ring, Place, After, RingSize, ChunkSize, Written, End, Addr, Size
  <2>4. Triggered'
    BY <1>1, <1>3, <1>6, <2>1, <2>2
    DEF Triggered, Ring, RingSize, ChunkSize, Written, Last, Place, End, Addr, Size, Spared
  <2> QED BY <1>1, <1>7, <2>2, <2>3, <2>4 DEF CaptureInv
<1>10. CASE ~Last(ix)
  <2> DEFINE j == Following(ix)
  <2>1. /\ j \in BufferIds /\ ix' = j /\ cu' = ix
        /\ Planned' /\ Recorded'
        /\ \/ rc = 0 /\ rp' = Addr(j) /\ rc' = Size(j) /\ rnc' = 0 /\ Size(j) > 0
           \/ /\ rc > 0 \/ Size(j) = 0
              /\ rp' = rp /\ rc' = rc /\ rnp' = Addr(j) /\ rnc' = Size(j)
    <3>1. UNCHANGED <<mem, seq, ioc_buffers, la_read_cnt>>  BY <1>1
    <3> QED BY <1>0, <1>1, <1>3, <1>5, <1>10, <3>1, Supplies
  <2>2. Addr(j) \in Nat /\ Size(j) \in Nat  BY <1>0, <2>1, RTypes DEF Addr
  <2>3. ASSUME la_trig_offset = UINT_MAX PROVE Behind'
    <3>1. pc' # "next" /\ Behind  BY <1>1, <1>2, <1>3, <2>3
    <3>2. Size(j) > 0  BY <1>0, <1>3, <2>1, <2>3, BufferPlaces
    <3>3. WrittenTo(cu, End(cu)) /\ (rc = 0 => WrittenTo(ix, End(ix)))
          /\ (rc > 0 => Holds(ix, rp, rc) /\ WrittenTo(ix, rp))
      BY <1>2, <1>5, <3>1 DEF Behind
    <3>4. WrittenTo(cur_buf, End(cur_buf))'
      BY <1>1, <1>6, <1>8, <3>3 DEF WrittenTo, Addresses
    <3>5. CASE rc = 0 /\ rp' = Addr(j) /\ rc' = Size(j) /\ rnc' = 0
      <4>1. WrittenTo(cu, End(cu))'
        <5>1. \A a \in Addresses : Addr(ix) <= a /\ a < End(ix) => Written(a)'  BY <1>8, <3>3, <3>5
        <5>2. Addr(cu)' = Addr(ix) /\ End(cu)' = End(ix)  BY <1>1, <2>1 DEF Addr, End, Size
        <5> QED BY <5>1, <5>2 DEF WrittenTo, Addresses
      <4>2. WrittenTo(ix, rp)'
        <5>1. BufferSize \in Nat  BY <1>0, WNumbers
        <5>2. \A a \in Addresses : ~(Addr(j) <= a /\ a < Addr(j))  BY <2>2, <5>1 DEF Addresses
        <5>3. Addr(ix)' = Addr(j)  BY <1>6, <2>1 DEF Addr
        <5> QED BY <3>5, <5>2, <5>3 DEF WrittenTo, Addresses
      <4>3. Holds(ix, rp, rc)'
        <5>1. Addr(ix)' = Addr(j) /\ Size(ix)' = Size(j)  BY <1>6, <2>1 DEF Addr, Size
        <5>2. Addr(j) <= rp' /\ rp' + rc' <= Addr(j) + Size(j)  BY <2>2, <3>5
        <5> QED BY <5>1, <5>2 DEF Holds, Addr
      <4> QED BY <3>1, <3>2, <3>4, <3>5, <4>1, <4>2, <4>3 DEF Behind
    <3>6. CASE rc > 0 /\ rp' = rp /\ rc' = rc /\ rnp' = Addr(j) /\ rnc' = Size(j)
      <4>1. Holds(cu, rp, rc)'
        <5>1. Addr(cu)' = Addr(ix) /\ Size(cu)' = Size(ix)  BY <1>1, <2>1 DEF Addr, Size
        <5> QED BY <3>3, <3>6, <5>1 DEF Holds, Addr
      <4>2. WrittenTo(cu, rp)'
        <5>1. \A a \in Addresses : Addr(ix) <= a /\ a < rp => Written(a)'  BY <1>8, <3>3, <3>6
        <5>2. Addr(cu)' = Addr(ix)  BY <1>1, <2>1 DEF Addr
        <5> QED BY <3>6, <5>1, <5>2 DEF WrittenTo, Addresses
      <4> QED BY <3>1, <3>2, <3>4, <3>6, <4>1, <4>2 DEF Behind
    <3> QED BY <2>1, <3>2, <3>5, <3>6
  <2>4. ASSUME la_trig_offset # UINT_MAX PROVE Triggered'
    <3>1. Triggered  BY <1>3, <2>4
    <3>2. Spared(Addr(j), Size(j))  BY <1>0, <1>3, <1>4, <1>10, <3>1, SparedNext
    <3>3. la_state # "ACQUIRED"  BY <1>10, <3>1 DEF Triggered
    <3>4. Spared(rp, rc)' /\ Spared(rnp, rnc)'
      BY <1>1, <2>1, <3>1, <3>2 DEF Triggered, Spared
    <3>5. /\ \A i \in BufferIds : Last(i)' => Place(End(i))' = la_trig_offset'
          /\ IF la_trigger_mask' THEN \A i \in BufferIds : Spared(Addr(i), Size(i))'
             ELSE la_trig_offset' = 0
      BY <1>1, <1>6, <3>1 DEF Triggered, Spared, Place
    <3>6. la_trig_offset' \in Ring' /\ Written(la_trig_offset)' /\ trigSample' = mem'[la_trig_offset'].n
      BY <1>1, <1>6, <3>1 DEF Triggered, Ring, Written
    <3> QED BY <1>1, <3>3, <3>4, <3>5, <3>6 DEF Triggered
  <2> QED BY <1>1, <1>7, <2>1, <2>3, <2>4 DEF CaptureInv
<1> QED BY <1>9, <1>10

(* la_acq_finished finds the trigger in the buffer it searches *)
LEMMA DFound ==
    ASSUME DInv, BuffersCnt >= 3, Live, IsrHandler, la_trig_offset = UINT_MAX,
           NEW off \in FindTrigger(ioc_buffers[cur_buf].size), off # UINT_MAX, TriggerFound(off),
           la_state' = la_state
    PROVE  CaptureInv'
<1> DEFINE cb == cur_buf
           cu == ioc_buffer_current
           ix == ioc_buffer_idx
           t  == la_trig_offset'
<1>0. TInv /\ WInv /\ RInv /\ RingOrdered  BY DEF DInv, RInv, WInv
<1>1. /\ isr = "handler" /\ irq
      /\ UNCHANGED <<mem, seq, rp, rc, rnp, rnc, endrx, busy, ioc_buffer_idx, ioc_buffer_current,
                     la_trigger_mask, la_read_cnt, pc>>
  BY <1>0 DEF IsrHandler, pdcVars, mainVars, WInv, Phases
<1>2. busy /\ pc \notin {"run", "current", "count", "next"}  BY <1>0, <1>1 DEF WInv, Phases
<1>3. ChunkSize > 0 /\ Laid /\ Planned /\ Recorded /\ Behind
  BY DEF DInv, CaptureInv, Live
<1>4. /\ rp \in Nat /\ rc \in Nat /\ rnp \in Nat /\ rnc \in Nat /\ RingSize \in Nat /\ RingSize > 0
      /\ ix \in BufferIds /\ cu \in BufferIds /\ cb \in BufferIds /\ 0 \in BufferIds
      /\ BufferSize \in Nat /\ RingSize <= BufferSize
  BY <1>0, <1>3, WNumbers, RTypes
<1>5. InARow /\ RingFresh  BY <1>0, <1>2 DEF RInv, Untouched, Before, Searching
<1>6. cu = Following(cb) /\ ix = Following(cu) /\ cu # cb /\ ix # cb
  BY <1>1, <1>4, <1>5, ThreeInARow DEF InARow
<1>7. \A a \in Addresses : Addr(cb) <= a /\ a < End(cb) => Written(a)
  BY <1>1, <1>2, <1>3 DEF Behind, WrittenTo
<1>8. /\ Addr(cb) \in Nat /\ Addr(cb) \in Ring /\ End(cb) \in Nat /\ End(cb) <= RingSize
      /\ Size(cb) = ChunkSize /\ Size(cb) \in Nat /\ End(cb) = Addr(cb) + Size(cb)
      /\ Place(End(cb)) = Addr(cu)
  BY <1>0, <1>3, <1>4, <1>6, BufferPlaces DEF End
<1>9. ASSUME NEW a \in Nat, Addr(cb) <= a, a < End(cb)
      PROVE  /\ rc > 0 => ~(rp <= a /\ a < rp + rc)
             /\ rnc > 0 => ~(rnp <= a /\ a < rnp + rnc)
             /\ \A i \in BufferIds : i # cb /\ Size(i) > 0 => ~(Addr(i) <= a /\ a < Addr(i) + Size(i))
  <2>1. ASSUME NEW i \in BufferIds, i # cb, Size(i) > 0
        PROVE  ~(Addr(i) <= a /\ a < Addr(i) + Size(i))
    <3>1. Addr(i) \in Nat /\ Size(i) \in Nat  BY <1>0, RTypes DEF Addr
    <3>2. Holds(i, Addr(i), Size(i))  BY <3>1 DEF Holds, Addr
    <3> HIDE DEF cb
    <3> QED BY <1>0, <1>4, <1>9, <2>1, <3>1, <3>2, ApartAll
  <2>2. rc > 0 => ~(rp <= a /\ a < rp + rc)
    <3> SUFFICES ASSUME rc > 0 PROVE ~(rp <= a /\ a < rp + rc)
      OBVIOUS
    <3>1. Holds(ix, rp, rc) \/ Holds(cu, rp, rc)  BY <1>2, <1>3 DEF Behind
    <3> HIDE DEF cb, cu, ix
    <3> QED BY <1>0, <1>4, <1>6, <1>9, <3>1, ApartAll
  <2>3. rnc > 0 => ~(rnp <= a /\ a < rnp + rnc)
    BY <1>3, <1>4, <1>6, <2>1 DEF Planned
  <2> QED BY <2>1, <2>2, <2>3
<1>10. /\ RingSize' = RingSize /\ ChunkSize' = ChunkSize
       /\ \A p : Place(p)' = Place(p)
       /\ \A a : Written(a)' <=> Written(a)
       /\ Ring' = Ring
  BY <1>1 DEF RingSize, ChunkSize, Place, Written, Ring
<1>11. Recorded'
  BY <1>1, <1>3, <1>10 DEF Recorded, FirstLap, Ring, After, Written, Place, RingSize, ChunkSize
<1>12. ~Made' /\ (Live' => t # UINT_MAX)
       /\ (la_state' = "ACQUIRED" => FALSE)
  <2>1. la_state # "ACQUIRED"
    BY <1>0 DEF TInv, TriggerKnown
  <2>2. off \in Nat
    <3>1. off \in 0 .. Size(cb) - 1 \/ off = 0  BY DEF FindTrigger, Size
    <3> QED BY <1>8, <3>1
  <2>3. t # UINT_MAX
    <3>1. t = off \/ t = Addr(cb) + off  BY DEF TriggerFound, Addr
    <3> QED BY <1>8, <2>2, <3>1 DEF UINT_MAX
  <2> QED BY <1>1, <1>2, <2>1, <2>3 DEF Made
<1>13. trigSample' = mem'[t].n  BY <1>1 DEF TriggerFound
<1>14. CASE ~la_trigger_mask
  <2>1. t = 0 /\ UNCHANGED ioc_buffers
    BY <1>14 DEF TriggerFound, FindTrigger
  <2>2. cb = 0
    <3> DEFINE n == BuffersCnt
    <3>1. n \in Nat /\ n >= 3 /\ cb \in Nat /\ cb < n  BY <1>4, ConstAssumption DEF BufferIds
    <3>2. (cb + 1) % n = 1  BY <1>1, <1>5, <1>6, <1>14 DEF InARow, Following
    <3> HIDE DEF n, cb
    <3>3. CASE cb + 1 < n
      <4>1. (cb + 1) % n = cb + 1  BY <3>1, <3>3
      <4> QED BY <3>1, <3>2, <4>1
    <3>4. CASE cb + 1 = n
      <4>1. (cb + 1) % n = 0  BY <3>1, <3>4
      <4> QED BY <3>2, <4>1
    <3> QED BY <3>1, <3>3, <3>4
  <2>3. Addr(cb) = 0 /\ End(cb) > 0
    BY <1>3, <1>8, <2>2 DEF Laid
  <2>4. Written(0) /\ 0 \in Ring
    BY <1>4, <1>7, <2>3 DEF Addresses, Ring
  <2>5. Spared(rp, rc)' /\ Spared(rnp, rnc)'
    <3>1. /\ rc > 0 => ~(rp <= 0 /\ 0 < rp + rc)
          /\ rnc > 0 => ~(rnp <= 0 /\ 0 < rnp + rnc)
      BY <1>9, <2>3
    <3> QED BY <1>1, <2>1, <3>1 DEF Spared
  <2>6. ASSUME NEW i \in BufferIds, Last(i)' PROVE Place(End(i))' = t
    <3>1. Last(i) /\ i = BuffersCnt - 1  BY <1>5, <2>1, <2>6 DEF Last, RingFresh
    <3>2. Place(End(i)) = Addr(Following(i))  BY <1>0, <1>3, BufferPlaces
    <3>3. Following(i) = 0
      <4> DEFINE n == BuffersCnt
      <4>1. n \in Nat /\ n >= 3 /\ i + 1 = n  BY <3>1, ConstAssumption
      <4> HIDE DEF n
      <4>2. (i + 1) % n = 0  BY <4>1
      <4> QED BY <4>2 DEF Following, n
    <3>4. End(i)' = End(i)  BY <2>1 DEF End, Addr, Size
    <3>5. Place(End(i))' = Place(End(i))  BY <1>10, <3>4 DEF Place
    <3> QED BY <2>1, <2>2, <2>3, <3>2, <3>3, <3>5
  <2>7. Triggered'
    BY <1>1, <1>10, <1>12, <1>13, <1>14, <2>1, <2>4, <2>5, <2>6 DEF Triggered, Written
  <2>8. Laid' /\ Planned'
    BY <1>1, <1>3, <1>10, <1>14, <2>1
    DEF Laid, Planned, Addr, Size, End, Last, Place
  <2> QED BY <1>11, <1>12, <2>7, <2>8 DEF CaptureInv
<1>15. CASE la_trigger_mask
  <2>1. /\ off \in 0 .. Size(cb) - 1 /\ t = Addr(cb) + off
        /\ ioc_buffers' = [ioc_buffers EXCEPT ![cur_buf].size = off, ![cur_buf].last = TRUE]
    BY <1>15 DEF FindTrigger, TriggerFound, Size, Addr
  <2>2. t \in Nat /\ t < End(cb) /\ Addr(cb) <= t /\ off \in Nat /\ t \in Ring /\ t \in Addresses
        /\ off <= Size(cb)
    BY <1>4, <1>8, <2>1 DEF Ring, Addresses
  <2>3. Written(t)  BY <1>7, <2>2
  <2>4. /\ \A i \in BufferIds : Addr(i)' = Addr(i)
        /\ \A i \in BufferIds : i # cb => Size(i)' = Size(i) /\ (Last(i)' <=> Last(i))
        /\ \A i \in BufferIds : i = cb => Size(i)' = off /\ Last(i)'
    <3> SUFFICES ASSUME NEW i \in BufferIds
                 PROVE  /\ Addr(i)' = Addr(i)
                        /\ i # cb => Size(i)' = Size(i) /\ (Last(i)' <=> Last(i))
                        /\ i = cb => Size(i)' = off /\ Last(i)'
      BY <1>4
    <3>1. ioc_buffers \in [BufferIds -> IocBuffer]  BY <1>0 DEF TInv, TypeOK, RingTypeOK
    <3>2. CASE i # cb
      <4>1. ioc_buffers'[i] = ioc_buffers[i]  BY <2>1, <3>1, <3>2
      <4> QED BY <3>2, <4>1 DEF Addr, Size, Last
    <3>3. CASE i = cb
      <4>1. /\ ioc_buffers'[i].addr = ioc_buffers[i].addr /\ ioc_buffers'[i].size = off
            /\ ioc_buffers'[i].last
        BY <2>1, <3>1, <3>3 DEF IocBuffer
      <4> QED BY <3>3, <4>1 DEF Addr, Size, Last
    <3> QED BY <3>2, <3>3
  <2>5. \A i \in BufferIds : ~Last(i)  BY <1>5, <1>15 DEF RingFresh
  <2>6. Laid'
    <3>2. ASSUME NEW i \in BufferIds
          PROVE  /\ Addr(i)' + ChunkSize' <= RingSize'
                 /\ Place(Addr(i) + ChunkSize)' = Addr(Following(i))'
                 /\ Size(i)' = ChunkSize' \/ Last(i)'
                 /\ Size(i)' <= ChunkSize'
      <4>1. Following(i) \in BufferIds  BY ThreeInARow
      <4>2. Place(Addr(i) + ChunkSize)' = Place(Addr(i) + ChunkSize)
        BY <1>10, <2>4 DEF Place
      <4>3. Place(Addr(i) + ChunkSize) = Addr(Following(i)) /\ Addr(i) + ChunkSize <= RingSize
            /\ Size(i) = ChunkSize
        BY <1>3, <2>5 DEF Laid
      <4>4. Addr(Following(i))' = Addr(Following(i))  BY <2>4, <4>1
      <4>5. Size(i)' <= ChunkSize /\ (Size(i)' = ChunkSize \/ Last(i)')
        <5>1. CASE i = cb  BY <1>8, <2>2, <2>4, <5>1
        <5>2. CASE i # cb
          <6>1. ChunkSize \in Nat  BY <1>8
          <6> QED BY <2>4, <4>3, <5>2, <6>1
        <5> QED BY <5>1, <5>2
      <4> QED BY <1>10, <2>4, <4>2, <4>3, <4>4, <4>5
    <3>3. Addr(0)' = 0  BY <1>3, <1>4, <2>4 DEF Laid
    <3>4. \A i, j \in BufferIds : i < j => Addr(i)' + ChunkSize' <= Addr(j)'
      BY <1>3, <1>10, <2>4 DEF Laid
    <3>5. la_trigger_mask' /\ t # UINT_MAX  BY <1>1, <1>15, <2>2 DEF UINT_MAX
    <3> QED BY <3>2, <3>3, <3>4, <3>5 DEF Laid, BufferIds
  <2>7. Planned'
    <3>1. Addr(ix)' = Addr(ix) /\ Size(ix)' = Size(ix) /\ End(ix)' = End(ix)
      <4>1. PICK i \in BufferIds : i = ix  BY <1>4
      <4>2. Addr(i)' = Addr(i) /\ Size(i)' = Size(i)  BY <1>6, <2>4, <4>1
      <4> QED BY <1>1, <4>1, <4>2 DEF Addr, Size, End
    <3>2. Place(rp + rc)' = Place(rp + rc) /\ Place(End(ix))' = Place(End(ix))
      BY <1>1, <1>10, <3>1 DEF Place
    <3> QED BY <1>1, <1>3, <1>10, <3>1, <3>2 DEF Planned
  <2>8. ASSUME NEW i \in BufferIds, Last(i)' PROVE Place(End(i))' = t
    <3>1. i = cb  BY <2>4, <2>5, <2>8
    <3>2. End(i)' = t  BY <2>1, <2>4, <3>1 DEF End
    <3>3. t # RingSize  BY <1>4, <1>8, <2>2
    <3> QED BY <1>10, <3>2, <3>3 DEF Place
  <2>9. ASSUME NEW i \in BufferIds PROVE Spared(Addr(i), Size(i))'
    <3>1. CASE i = cb
      <4>1. ~(t < Addr(cb) + off)  BY <2>1, <1>8, <2>2
      <4> QED BY <2>4, <3>1, <4>1 DEF Spared
    <3>2. CASE i # cb
      <4>1. Size(i) > 0 => ~(Addr(i) <= t /\ t < Addr(i) + Size(i))  BY <1>9, <2>2, <3>2
      <4> QED BY <2>4, <3>2, <4>1 DEF Spared
    <3> QED BY <3>1, <3>2
  <2>10. Spared(rp, rc)' /\ Spared(rnp, rnc)'
    <3>1. /\ rc > 0 => ~(rp <= t /\ t < rp + rc)
          /\ rnc > 0 => ~(rnp <= t /\ t < rnp + rnc)
      BY <1>9, <2>2
    <3> QED BY <1>1, <3>1 DEF Spared
  <2>11. Triggered'
    BY <1>1, <1>10, <1>12, <1>13, <1>15, <2>2, <2>3, <2>8, <2>9, <2>10 DEF Triggered, Written, BufferIds
  <2> QED BY <1>11, <1>12, <2>6, <2>7, <2>11 DEF CaptureInv
<1> QED BY <1>14, <1>15

LEMMA DIsr == ASSUME DInv, BuffersCnt >= 3, Isr PROVE CaptureInv' /\ Handed'
<1>0. TInv /\ WInv /\ RInv /\ CaptureInv  BY DEF DInv, RInv, WInv
<1>1. irq /\ UNCHANGED <<pc, la_read_cnt>>
  BY <1>0 DEF Isr, IsrEnter, IsrExit, IsrHandler, IrqPending, laVars, mainVars, WInv, Phases
<1>2. busy /\ pc \notin {"run", "current", "count", "next", "fix", "deliver", "delivered"}
  BY <1>0, <1>1 DEF WInv, Phases
<1>3. Handed' /\ ~Made' /\ (Live' => Live)
  BY <1>1, <1>2 DEF Handed, Made, Live, ChunkSize
<1> SUFFICES ASSUME Live PROVE CaptureInv'
  BY <1>3, DRest
<1>4. CASE IsrEnter /\ ioc_stop_acq /\ UNCHANGED <<laVars, mainVars, out, trigSample>>
  <2>1. /\ UNCHANGED <<mem, seq, rp, rc, rnp, rnc, endrx, ioc_buffers, ioc_buffer_idx,
                       ioc_buffer_current, la_read_cnt, la_trigger_mask, la_trig_offset,
                       la_state, trigSample>>
        /\ isr' = "status"
    BY <1>4 DEF IsrEnter, pdcVars, laVars
  <2> QED BY <1>0, <1>1, <1>2, <1>3, <2>1, DElsewhere
<1>5. CASE IsrEnter /\ ~ioc_stop_acq /\ UNCHANGED <<laVars, mainVars, out, trigSample>>
  BY <1>5, DEnter
<1>6. CASE IsrExit /\ UNCHANGED <<laVars, mainVars, out, trigSample>>
  <2>1. /\ UNCHANGED <<mem, seq, rp, rc, rnp, rnc, endrx, ioc_buffers, ioc_buffer_idx,
                       ioc_buffer_current, la_read_cnt, la_trigger_mask, la_trig_offset,
                       la_state, trigSample>>
        /\ isr' = "off"
    BY <1>6 DEF IsrExit, pdcVars, ringVars, laVars
  <2> QED BY <1>0, <1>1, <1>2, <1>3, <2>1, DElsewhere
<1>7. CASE IsrHandler
  <2>1. /\ UNCHANGED <<mem, seq, rp, rc, rnp, rnc, endrx, ioc_buffer_idx,
                       ioc_buffer_current, la_read_cnt, la_trigger_mask>>
        /\ isr = "handler" /\ isr' = "status" /\ la_acq_finished
    BY <1>7 DEF IsrHandler, pdcVars
  <2>2. ASSUME UNCHANGED <<ioc_buffers, la_trig_offset, trigSample>>,
               la_state' = "ACQUIRED" => la_state = "ACQUIRED" \/ Last(ioc_buffer_idx)
        PROVE  CaptureInv'
    BY <1>0, <1>1, <1>2, <1>3, <2>1, <2>2, DElsewhere
  <2>3. CASE la_trig_offset # UINT_MAX
    <3>1. UNCHANGED <<ioc_buffers, la_trig_offset, trigSample>>
          /\ la_state' = (IF ioc_buffers[cur_buf].last THEN "ACQUIRED" ELSE la_state)
      BY <2>1, <2>3 DEF la_acq_finished
    <3>2. ioc_buffers[cur_buf].last => Last(ioc_buffer_idx)
      BY <1>0, <2>1 DEF WInv, Reported, Last
    <3> QED BY <2>2, <3>1, <3>2
  <2>4. CASE la_trig_offset = UINT_MAX
    <3>1. PICK off \in FindTrigger(ioc_buffers[cur_buf].size) : TriggerFound(off)
      BY <2>1, <2>4 DEF la_acq_finished
    <3>2. la_state' = la_state  BY <2>1, <2>4 DEF la_acq_finished
    <3>3. CASE off = UINT_MAX
      <4>1. UNCHANGED <<ioc_buffers, la_trig_offset, trigSample>>
        BY <2>4, <3>1, <3>3 DEF TriggerFound
      <4> QED BY <2>2, <3>2, <4>1
    <3>4. CASE off # UINT_MAX
      BY <1>7, <2>4, <3>1, <3>2, <3>4, DFound
    <3> QED BY <3>3, <3>4
  <2> QED BY <2>3, <2>4
<1> QED BY <1>4, <1>5, <1>6, <1>7 DEF Isr

(* One turn back is no turn *)
LEMMA TurnBack ==
    ASSUME NEW m \in Nat \ {0}, NEW i \in 0 .. m - 1
    PROVE  i % m = i /\ (i - m) % m = i
<1>1. i - m = (0 - 1) * m + i  OBVIOUS
<1>2. ((0 - 1) * m + i) % m = i  OBVIOUS
<1> QED BY <1>1, <1>2

LEMMA FixOne ==
    ASSUME NEW s, NEW m, m = [n |-> s, fixed |-> FALSE]
    PROVE  Fixed(m) = [n |-> s, fixed |-> TRUE]
<1>1. m.fixed = FALSE  OBVIOUS
<1>2. Fixed(m) = [m EXCEPT !.fixed = TRUE]
  <2>1. Fixed(m) = [m EXCEPT !.fixed = ~m.fixed]  BY DEF Fixed
  <2>2. (~m.fixed) = TRUE  BY <1>1
  <2> QED BY <2>1, <2>2, Zenon
<1> QED BY <1>2

(* la_fix_channels puts the channels of each sample of the window in order, *)
(* once                                                                     *)
LEMMA DFix == ASSUME DInv, la_fix_channels, Fits PROVE WindowHas(TRUE)'
<1> DEFINE t == la_trig_offset
<1>0. TInv /\ WInv /\ RInv /\ CaptureInv  BY DEF DInv, RInv, WInv
<1>1. /\ pc = "fix" /\ MainMayRun
      /\ mem' = [a \in Addresses |-> IF InWindow(a) THEN Fixed(mem[a]) ELSE mem[a]]
      /\ UNCHANGED <<la_read_cnt, la_trig_offset, trigSample>>
  BY DEF la_fix_channels, Goto, laVars
<1>2. la_state = "ACQUIRED" /\ Silent /\ t # UINT_MAX
  BY <1>0, <1>1, SeenComplete DEF WInv, Phases, TInv, TriggerKnown
<1>3. /\ BufferSize \in Nat \ {0} /\ la_read_cnt \in Nat /\ la_read_cnt <= BufferSize
      /\ mem \in [Addresses -> Sample] /\ rp \in Nat /\ RingSize \in Nat
  BY <1>0, WNumbers
<1>4. t \in Nat /\ t < BufferSize
  <2>1. t \in Addresses  BY <1>0, <1>2 DEF TInv, TypeOK, LaTypeOK
  <2> QED BY <1>3, <2>1 DEF Addresses
<1> SUFFICES ASSUME la_read_cnt > 0 PROVE WindowHas(TRUE)'
  BY <1>1, <1>3 DEF WindowHas
<1>5. ChunkSize > 0
  <2>1. RingSize > 0  BY <1>3, <1>4 DEF Fits
  <2>2. ChunkSize \in Nat /\ BuffersCnt \in Nat  BY <1>0, WNumbers
  <2>3. ChunkSize # 0
    <3> SUFFICES ASSUME ChunkSize = 0 PROVE FALSE  OBVIOUS
    <3>1. BuffersCnt * ChunkSize = 0  BY <2>2
    <3> QED BY <2>1, <3>1 DEF RingSize
  <2> QED BY <2>2, <2>3
<1>6. Planned /\ Recorded /\ Triggered  BY <1>0, <1>1, <1>2, <1>5 DEF CaptureInv, Live
<1>7. rp \in 0 .. RingSize /\ Place(rp) = t
  <2>1. rc = 0 /\ rnc = 0  BY <1>2 DEF Silent, RxBuff
  <2>2. rp + rc = rp  BY <1>3, <2>1
  <2>3. Place(rp) = Place(End(ioc_buffer_idx)) /\ rp <= RingSize  BY <1>6, <2>1, <2>2 DEF Planned
  <2>4. Place(End(ioc_buffer_idx)) = t  BY <1>0, <1>2, <1>6, RTypes DEF Triggered
  <2> QED BY <1>3, <2>3, <2>4
<1>8. WindowHas(FALSE)
  BY <1>0, <1>5, <1>6, <1>7, RecordedWindow DEF Triggered
<1>9. ASSUME NEW i \in 0 .. la_read_cnt - 1
      PROVE  mem'[(t + i) % BufferSize] = [n |-> (trigSample + i) % SeqMod, fixed |-> TRUE]
  <2> DEFINE a == (t + i) % BufferSize
             s == (trigSample + i) % SeqMod
  <2>1. i \in 0 .. BufferSize - 1 /\ t \in 0 .. BufferSize - 1  BY <1>3, <1>4
  <2>2. a = IF t + i < BufferSize THEN t + i ELSE t + i - BufferSize  BY <1>3, <2>1, Around
  <2>3. mem[a] = [n |-> s, fixed |-> FALSE]  BY <1>8 DEF WindowHas
  <2> HIDE DEF a, s
  <2>4. a \in Addresses /\ (a - t = i \/ a - t = i - BufferSize)  BY <1>3, <2>1, <2>2 DEF Addresses
  <2>5. (a - t) % BufferSize = i  BY <1>3, <2>1, <2>4, TurnBack
  <2>6. InWindow(a)  BY <1>3, <2>1, <2>5 DEF InWindow
  <2>7. mem'[a] = Fixed(mem[a])  BY <1>1, <2>4, <2>6
  <2>8. mem'[a] = [n |-> s, fixed |-> TRUE]  BY <2>3, <2>7, FixOne
  <2> QED BY <2>8 DEF a, s
<1> QED BY <1>1, <1>9 DEF WindowHas

(* cdc_write_buf_reverted sends the samples last first *)
LEMMA RevertedIs ==
    ASSUME TInv, NEW addr \in Nat, NEW size \in Nat, addr + size <= BufferSize
    PROVE  /\ Reverted(addr, size) \in Seq(Sample) /\ Len(Reverted(addr, size)) = size
           /\ \A i \in 1 .. size : Reverted(addr, size)[i] = mem[addr + size - i]
<1>1. BufferSize \in Nat /\ mem \in [Addresses -> Sample]  BY WNumbers
<1>2. \A i \in 1 .. size : addr + size - i \in Addresses  BY <1>1 DEF Addresses
<1>3. \A i \in 1 .. size : mem[addr + size - i] \in Sample  BY <1>1, <1>2
<1> QED BY <1>3 DEF Reverted

(* la_usb_send sends the window last first, over the end of memory too *)
LEMMA SentIs ==
    ASSUME TInv, NEW t \in Nat, t < BufferSize, NEW n \in Nat, n <= BufferSize
    PROVE  /\ Len(la_usb_send(t, n)) = n /\ DOMAIN la_usb_send(t, n) = 1 .. n
           /\ \A i \in 1 .. n : la_usb_send(t, n)[n + 1 - i] = mem[(t + (i - 1)) % BufferSize]
<1> DEFINE B == BufferSize
           w(i) == (t + (i - 1)) % B
           s == la_usb_send(t, n)
<1>1. B \in Nat \ {0}  BY WNumbers
<1>2. \A i \in 1 .. n : w(i) = IF t + (i - 1) < B THEN t + (i - 1) ELSE t + (i - 1) - B
  <2> SUFFICES ASSUME NEW i \in 1 .. n
               PROVE  w(i) = IF t + (i - 1) < B THEN t + (i - 1) ELSE t + (i - 1) - B
    OBVIOUS
  <2>1. i - 1 \in 0 .. B - 1 /\ t \in 0 .. B - 1  BY <1>1
  <2> QED BY <1>1, <2>1, Around
<1>3. CASE t + n <= B
  <2>1. s = Reverted(t, n)  BY <1>3 DEF la_usb_send
  <2>2. s \in Seq(Sample) /\ Len(s) = n /\ \A i \in 1 .. n : s[i] = mem[t + n - i]
    BY <1>3, <2>1, RevertedIs
  <2> HIDE DEF s, w
  <2>3. DOMAIN s = 1 .. n  BY <2>2, LenProperties
  <2>4. ASSUME NEW i \in 1 .. n PROVE s[n + 1 - i] = mem[w(i)]
    <3>1. n + 1 - i \in 1 .. n /\ t + n - (n + 1 - i) = t + (i - 1)  OBVIOUS
    <3>2. w(i) = t + (i - 1)  BY <1>1, <1>2, <1>3
    <3> QED BY <2>2, <3>1, <3>2
  <2> QED BY <2>2, <2>3, <2>4 DEF s, w
<1>4. CASE ~(t + n <= B)
  <2> DEFINE k == n - (B - t)
             m == B - t
             r1 == Reverted(0, k)
             r2 == Reverted(t, m)
  <2>0. s = r1 \o r2  BY <1>4 DEF la_usb_send
  <2>1. k \in Nat /\ m \in Nat /\ k + m = n /\ 0 + k <= B /\ t + m <= B /\ k < B /\ m > 0  BY <1>1, <1>4
  <2>2. r1 \in Seq(Sample) /\ Len(r1) = k /\ \A i \in 1 .. k : r1[i] = mem[0 + k - i]
    <3> HIDE DEF k
    <3> QED BY <2>1, RevertedIs
  <2>3. r2 \in Seq(Sample) /\ Len(r2) = m /\ \A i \in 1 .. m : r2[i] = mem[t + m - i]
    <3> HIDE DEF m
    <3> QED BY <2>1, RevertedIs
  <2> HIDE DEF s, r1, r2
  <2>4. /\ s \in Seq(Sample) /\ Len(s) = n
        /\ \A i \in 1 .. n : s[i] = IF i <= k THEN r1[i] ELSE r2[i - k]
    <3>1. /\ r1 \o r2 \in Seq(Sample) /\ Len(r1 \o r2) = Len(r1) + Len(r2)
          /\ \A i \in 1 .. Len(r1) + Len(r2) :
                (r1 \o r2)[i] = IF i <= Len(r1) THEN r1[i] ELSE r2[i - Len(r1)]
      BY <2>2, <2>3, ConcatProperties
    <3> HIDE DEF k, m
    <3> QED BY <2>0, <2>1, <2>2, <2>3, <3>1
  <2> HIDE DEF w
  <2>5. DOMAIN s = 1 .. n  BY <2>4, LenProperties
  <2>6. ASSUME NEW i \in 1 .. n PROVE s[n + 1 - i] = mem[w(i)]
    <3>1. n + 1 - i \in 1 .. n  OBVIOUS
    <3>2. CASE n + 1 - i <= k
      <4>1. n + 1 - i \in 1 .. k /\ 0 + k - (n + 1 - i) = t + (i - 1) - B  BY <1>1, <2>1, <3>2
      <4>2. w(i) = t + (i - 1) - B  BY <1>1, <1>2, <2>1, <3>2
      <4>3. r1[n + 1 - i] = mem[0 + k - (n + 1 - i)]
        <5> HIDE DEF k
        <5> QED BY <2>2, <4>1
      <4> QED BY <2>4, <3>1, <3>2, <4>1, <4>2, <4>3
    <3>3. CASE ~(n + 1 - i <= k)
      <4>1. (n + 1 - i) - k \in 1 .. m /\ t + m - ((n + 1 - i) - k) = t + (i - 1)  BY <1>1, <2>1, <3>3
      <4>2. w(i) = t + (i - 1)  BY <1>1, <1>2, <2>1, <3>3
      <4>3. r2[(n + 1 - i) - k] = mem[t + m - ((n + 1 - i) - k)]
        <5> HIDE DEF k, m
        <5> QED BY <2>3, <4>1
      <4> QED BY <2>4, <3>1, <3>3, <4>1, <4>2, <4>3
    <3> QED BY <3>2, <3>3
  <2> QED BY <2>4, <2>5, <2>6 DEF s, w
<1> QED BY <1>3, <1>4

(* What is handed to the host or drawn is the window, in its order *)
LEMMA DDeliver == ASSUME DInv, Deliver, Fits PROVE (InOrder = Window)'
<1> DEFINE t == la_trig_offset
           n == la_read_cnt
           B == BufferSize
           s(i) == [n |-> (trigSample + i - 1) % SeqMod, fixed |-> TRUE]
           w(i) == mem[(t + (i - 1)) % B]
<1>0. TInv /\ WInv /\ RInv  BY DEF DInv, RInv, WInv
<1>1. /\ pc = "deliver"
      /\ out' = IF app = "usb" THEN la_usb_send(t, n) ELSE la_display_acq(t)
      /\ UNCHANGED <<app, mem, la_read_cnt, la_trig_offset, trigSample>>
  BY DEF Deliver, Goto, laVars, iocVars
<1>2. WindowHas(TRUE)  BY <1>1 DEF DInv, Handed
<1>3. B \in Nat \ {0} /\ n \in Nat /\ n <= B /\ t \in Nat /\ t < B /\ trigSample \in Int
  <2>1. t \in Addresses
    BY <1>0, <1>1 DEF TInv, TypeOK, LaTypeOK, TriggerKnown
  <2>2. trigSample \in Int  BY <1>0, WNumbers DEF TInv, TypeOK, MemTypeOK, Stale
  <2> QED BY <1>0, <2>1, <2>2, WNumbers DEF Addresses
<1>4. ASSUME NEW i \in 1 .. n PROVE w(i) = s(i)
  <2>1. i - 1 \in 0 .. n - 1  BY <1>3
  <2>2. w(i) = [n |-> (trigSample + (i - 1)) % SeqMod, fixed |-> TRUE]  BY <1>2, <2>1 DEF WindowHas
  <2>3. trigSample + (i - 1) = trigSample + i - 1  BY <1>3
  <2> QED BY <2>2, <2>3
<1>5. Window' = [i \in 1 .. n |-> s(i)]  BY <1>1 DEF Window
<1> HIDE DEF s
<1>6. CASE app = "usb"
  <2> DEFINE x == la_usb_send(t, n)
  <2>1. Len(x) = n /\ DOMAIN x = 1 .. n /\ \A i \in 1 .. n : x[n + 1 - i] = w(i)
    BY <1>0, <1>3, SentIs
  <2>2. out' = x  BY <1>1, <1>6
  <2> HIDE DEF x
  <2>3. InOrder' = [i \in 1 .. n |-> x[n + 1 - i]]  BY <1>1, <1>6, <2>1, <2>2 DEF InOrder
  <2>4. InOrder' = [i \in 1 .. n |-> s(i)]  BY <1>4, <2>1, <2>3
  <2> QED BY <1>5, <2>4
<1>7. CASE app # "usb"
  <2>1. app = "lcd" /\ n = LcdWidth
    <3>1. app \in {"none", "usb", "lcd"}  BY <1>0 DEF TInv, TypeOK, MainTypeOK
    <3> QED BY <1>1, <1>7, <3>1 DEF DInv, AppInv
  <2>2. \A i \in 1 .. n : t + i - 1 = t + (i - 1)  BY <1>3
  <2>3. InOrder' = [i \in 1 .. n |-> mem[(t + i - 1) % B]]
    BY <1>1, <1>7, <2>1 DEF la_display_acq, InOrder
  <2>4. InOrder' = [i \in 1 .. n |-> s(i)]  BY <1>4, <2>2, <2>3
  <2> QED BY <1>5, <2>4
<1> QED BY <1>6, <1>7

(* ioc_start: the PDC gets the first buffer ... *)
LEMMA DStartCount ==
    ASSUME DInv, Goto("count", "next"), StartCount, UNCHANGED <<laVars, app, ret, out, trigSample>>
    PROVE  CaptureInv'
<1>0. TInv /\ WInv /\ RInv /\ CaptureInv  BY DEF DInv, RInv, WInv
<1>1. /\ pc = "count" /\ pc' = "next"
      /\ rp' = rp /\ rc' = ioc_buffers[0].size
      /\ UNCHANGED <<mem, seq, rnp, rnc, busy, ioc_buffers, ioc_buffer_idx, ioc_buffer_current,
                     la_read_cnt, la_state, la_trigger_mask, la_trig_offset>>
  BY DEF Goto, StartCount, ringVars, laVars
<1>2. /\ la_trig_offset = UINT_MAX /\ ioc_buffer_idx = 0 /\ rnc = 0 /\ rp = ioc_buffers[0].addr
  BY <1>0, <1>1 DEF RInv, WInv, Idle, Untouched, Starting, RxBuff
<1> SUFFICES ASSUME ChunkSize > 0 PROVE CaptureInv'
  <2>1. ChunkSize' = ChunkSize  BY <1>1 DEF ChunkSize
  <2> QED BY <2>1, DRest DEF Made, Live
<1>3. Laid /\ Empty  BY <1>0, <1>1 DEF CaptureInv, Made
<1>4. /\ 0 \in BufferIds /\ Addr(0) = 0 /\ Size(0) = ChunkSize /\ ChunkSize \in Nat
      /\ ChunkSize <= RingSize /\ RingSize \in Nat /\ BufferSize \in Nat /\ RingSize <= BufferSize
  <2>1. 0 \in BufferIds  BY <1>0, RTypes
  <2>2. Addr(0) = 0 /\ Addr(0) + ChunkSize <= RingSize  BY <1>3, <2>1 DEF Laid
  <2> QED BY <1>0, <1>2, <1>3, <2>1, <2>2, WNumbers, BufferPlaces
<1>5. rp' = 0 /\ rc' = ChunkSize /\ rnc' = 0 /\ ioc_buffer_idx' = 0
  BY <1>1, <1>2, <1>4 DEF Addr, Size
<1>6. /\ RingSize' = RingSize /\ ChunkSize' = ChunkSize /\ Ring' = Ring
      /\ \A p : Place(p)' = Place(p)
      /\ \A i : Addr(i)' = Addr(i) /\ Size(i)' = Size(i) /\ End(i)' = End(i)
      /\ \A a : Written(a)' <=> Written(a)
  BY <1>1 DEF RingSize, ChunkSize, Place, Addr, Size, End, Written, Ring
<1>7. Laid'  BY <1>1, <1>3, <1>6 DEF Laid, Place, Addr, Size, Last
<1>8. End(0)' = ChunkSize
  BY <1>4, <1>6 DEF End
<1>9. Planned'
  <2>1. rp' + rc' = ChunkSize  BY <1>4, <1>5
  <2>2. Place(rp + rc)' = Place(ChunkSize) /\ Place(End(ioc_buffer_idx))' = Place(ChunkSize)
    <3>1. End(ioc_buffer_idx)' = ChunkSize  BY <1>5, <1>8 DEF End, Addr, Size
    <3> QED BY <1>6, <2>1, <3>1 DEF Place
  <2> QED BY <1>4, <1>5, <1>6, <2>1, <2>2 DEF Planned
<1>10. \A a \in Addresses : ~Written(a)' /\ ~mem'[a].fixed
  BY <1>1, <1>3, <1>6 DEF Empty, Written
<1>11. \A a \in Ring : a \in Addresses /\ ~(a < 0)  BY <1>4 DEF Ring, Addresses
<1>12. Recorded'
  <2>1. FirstLap'  BY <1>5, <1>6, <1>10, <1>11 DEF FirstLap
  <2> QED BY <1>6, <1>10, <1>11, <2>1 DEF Recorded, Addresses
<1>13. Behind'
  <2>1. WrittenTo(0, rp)'
    <3>1. \A a \in Addresses : ~(Addr(0) <= a /\ a < 0)  BY <1>4 DEF Addresses
    <3> QED BY <1>5, <1>6, <3>1 DEF WrittenTo, Addresses
  <2>2. rp' + rc' = End(0)'  BY <1>4, <1>5, <1>8
  <2> QED BY <1>1, <2>1, <2>2 DEF Behind
<1> QED BY <1>1, <1>2, <1>7, <1>9, <1>12, <1>13 DEF CaptureInv, Made, UINT_MAX

(* ... and then the second *)
LEMMA DStartNext ==
    ASSUME DInv, BuffersCnt >= 3, Goto("next", "irq"), StartNext,
           UNCHANGED <<laVars, app, ret, out, trigSample>>
    PROVE  CaptureInv'
<1> DEFINE j == Following(0)
<1>0. TInv /\ WInv /\ RInv /\ CaptureInv  BY DEF DInv, RInv, WInv
<1>1. /\ pc = "next" /\ pc' = "irq" /\ SetNextBuffer /\ MainMayRun
      /\ UNCHANGED <<mem, seq, busy, ioc_buffers, isr, la_read_cnt, la_state, la_trigger_mask,
                     la_trig_offset>>
  BY DEF Goto, StartNext, isrVars, laVars
<1>2. /\ la_trig_offset = UINT_MAX /\ ioc_buffer_idx = 0 /\ rnc = 0 /\ busy /\ isr' = "off"
      /\ RingFresh /\ (rc > 0 => Holds(0, rp, rc))
  BY <1>0, <1>1 DEF RInv, Untouched, Starting, WInv, Phases, MainMayRun
<1> SUFFICES ASSUME ChunkSize > 0 PROVE CaptureInv'
  <2>1. ChunkSize' = ChunkSize  BY <1>1 DEF ChunkSize
  <2> QED BY <2>1, DRest DEF Made, Live
<1>3. Laid /\ Planned /\ Recorded /\ Behind  BY <1>0, <1>1, <1>2 DEF CaptureInv, Live
<1>4. 0 \in BufferIds /\ 0 # BuffersCnt - 1 /\ rp \in Nat /\ rc \in Nat
      /\ j \in BufferIds /\ BufferSize \in Nat
  BY <1>0, RTypes, WNumbers, ThreeInARow
<1>5. ~Last(ioc_buffer_idx)  BY <1>2, <1>4 DEF RingFresh
<1>6. /\ ioc_buffer_idx' = j /\ ioc_buffer_current' = 0
      /\ Planned' /\ Recorded'
      /\ \/ rc = 0 /\ rp' = Addr(j) /\ rc' = Size(j) /\ rnc' = 0 /\ Size(j) > 0
         \/ /\ rc > 0 \/ Size(j) = 0
            /\ rp' = rp /\ rc' = rc /\ rnp' = Addr(j) /\ rnc' = Size(j)
  <2>1. UNCHANGED <<mem, seq, ioc_buffers, la_read_cnt>>  BY <1>1
  <2> QED BY <1>0, <1>1, <1>2, <1>3, <1>5, <2>1, Supplies
<1>7. Size(j) = ChunkSize /\ Addr(j) \in Nat /\ Size(j) \in Nat
  BY <1>0, <1>2, <1>3, <1>4, BufferPlaces
<1>8. /\ RingSize' = RingSize /\ ChunkSize' = ChunkSize
      /\ \A i : Addr(i)' = Addr(i) /\ Size(i)' = Size(i) /\ End(i)' = End(i)
      /\ \A a : Written(a)' <=> Written(a)
  BY <1>1 DEF RingSize, ChunkSize, Addr, Size, End, Written
<1>9. Laid'  BY <1>1, <1>3, <1>8 DEF Laid, Place, Addr, Size, Last
<1>10. \A a \in Addresses : Addr(0) <= a /\ a < rp => Written(a)'
  BY <1>1, <1>3, <1>8 DEF Behind, WrittenTo
<1>11. Behind'
  <2>1. CASE rc = 0 /\ rp' = Addr(j) /\ rc' = Size(j) /\ rnc' = 0
    <3>1. rp = End(0)  BY <1>1, <1>3, <1>4, <2>1 DEF Behind
    <3>2. Addr(ioc_buffer_current)' = Addr(0) /\ End(ioc_buffer_current)' = End(0)
      BY <1>1, <1>6 DEF Addr, End, Size
    <3>3. WrittenTo(ioc_buffer_current, End(ioc_buffer_current))'
      BY <1>10, <3>1, <3>2 DEF WrittenTo, Addresses
    <3>4. Addr(ioc_buffer_idx)' = Addr(j) /\ Size(ioc_buffer_idx)' = Size(j)
      BY <1>1, <1>6 DEF Addr, Size
    <3>5. WrittenTo(ioc_buffer_idx, rp)'
      <4>1. \A a \in Addresses : ~(Addr(j) <= a /\ a < Addr(j))  BY <1>4, <1>7 DEF Addresses
      <4> QED BY <2>1, <3>4, <4>1 DEF WrittenTo, Addresses
    <3>6. Holds(ioc_buffer_idx, rp, rc)'
      <4>1. Addr(j) <= rp' /\ rp' + rc' <= Addr(j) + Size(j)  BY <1>7, <2>1
      <4> QED BY <3>4, <4>1 DEF Holds, Addr
    <3> QED BY <1>1, <1>2, <1>7, <2>1, <3>3, <3>5, <3>6 DEF Behind
  <2>2. CASE rc > 0 /\ rp' = rp /\ rc' = rc /\ rnp' = Addr(j) /\ rnc' = Size(j)
    <3>1. Addr(ioc_buffer_current)' = Addr(0) /\ Size(ioc_buffer_current)' = Size(0)
      BY <1>1, <1>6 DEF Addr, Size
    <3>2. Holds(ioc_buffer_current, rp, rc)'  BY <1>2, <2>2, <3>1 DEF Holds, Addr
    <3>3. WrittenTo(ioc_buffer_current, rp)'  BY <1>10, <2>2, <3>1 DEF WrittenTo, Addresses
    <3> QED BY <1>1, <1>2, <1>7, <2>2, <3>2, <3>3 DEF Behind
  <2> QED BY <1>6, <1>7, <2>1, <2>2
<1> QED BY <1>1, <1>2, <1>6, <1>9, <1>11 DEF CaptureInv, Made

(* A step of the main program that does nothing but go on *)
SameButPlace ==
    UNCHANGED <<mem, seq, rp, rc, rnp, rnc, endrx, ioc_buffers, ioc_buffer_idx, ioc_buffer_current,
                isr, cur_buf, busy, la_read_cnt, la_trigger_mask, la_trig_offset, trigSample>>

LEMMA DMoves ==
    ASSUME CaptureInv, SameButPlace, UNCHANGED la_state,
           pc \notin {"current", "count", "next", "deliver", "delivered"},
           pc' \notin {"run", "current", "count", "next", "deliver", "delivered"}
    PROVE  CaptureInv' /\ Handed'
<1>1. ~Made' /\ Handed'  BY DEF Made, Handed
<1>2. Live' => Live  BY DEF Live, SameButPlace, ChunkSize
<1> QED BY <1>1, <1>2, DElsewhere DEF SameButPlace

LEMMA DMain == ASSUME DInv, BuffersCnt >= 3, Main PROVE CaptureInv' /\ Handed'
<1> USE DEF Goto
<1>0. TInv /\ WInv /\ RInv /\ CaptureInv  BY DEF DInv, RInv, WInv
<1>1. ret \in {"loop", "acq"} /\ (la_state = "IDLE" => ~busy)
  BY <1>0 DEF WInv, TInv, TypeOK, MainTypeOK, Phases
<1>2. CASE la_start_acq
  <2>1. CASE pc = "start" /\ pc' = ret /\ UNCHANGED <<iocVars, laVars, trigSample>>
    BY <1>0, <1>1, <2>1, DMoves DEF iocVars, pdcVars, ringVars, isrVars, laVars, SameButPlace
  <2>2. CASE la_state = "IDLE" /\ pc' = "run" /\ ioc_buffers' = StartRing
             /\ mem' = [a \in Addresses |-> [n |-> Stale, fixed |-> FALSE]]
             /\ UNCHANGED <<busy, la_state, la_trigger_mask, la_read_cnt>>
    <3>1. ChunkSize' = ChunkSize  BY <2>2 DEF ChunkSize
    <3>2. ~Live' /\ Handed'  BY <1>1, <2>2 DEF Live, Handed
    <3>3. CASE ChunkSize > 0
      <4>1. Laid'
        <5>1. ioc_buffers' = StartRing /\ UNCHANGED <<la_trigger_mask, la_read_cnt>>  BY <2>2
        <5> QED BY <1>0, <3>3, <5>1, StartRingLaid
      <4>2. Empty'  BY <2>2 DEF Empty, Addresses
      <4> QED BY <3>2, <4>1, <4>2 DEF CaptureInv
    <3>4. CASE ~(ChunkSize > 0)
      BY <3>1, <3>2, <3>4, DRest DEF Made
    <3> QED BY <3>2, <3>3, <3>4
  <2> QED BY <1>2, <2>1, <2>2 DEF la_start_acq
<1>3. CASE StartRun
  <2>1. /\ pc = "run" /\ pc' = "current" /\ la_state' = "RUNNING"
        /\ UNCHANGED <<mem, ioc_buffers, la_trigger_mask, la_read_cnt, la_trig_offset>>
    BY <1>3 DEF StartRun, StartBookkeeping
  <2>2. ~Live' /\ Handed' /\ (Made' => Made)
    BY <2>1 DEF Live, Handed, Made, ChunkSize
  <2>3. Made => Laid' /\ Empty'
    BY <1>0, <2>1 DEF CaptureInv, Laid, Addr, Size, Last, Place, RingSize, ChunkSize, Empty
  <2> QED BY <2>2, <2>3 DEF CaptureInv
<1>4. CASE ioc_start
  <2>0. CASE Goto("current", "count") /\ StartPointer /\ UNCHANGED <<laVars, app, ret, out, trigSample>>
    <3>1. /\ pc = "current" /\ pc' = "count" /\ la_state = "RUNNING" /\ la_state' = la_state
          /\ UNCHANGED <<mem, ioc_buffers, la_trigger_mask, la_read_cnt, la_trig_offset>>
      BY <1>0, <2>0 DEF StartPointer, ringVars, laVars, WInv, Phases
    <3>2. ~Live' /\ Handed' /\ (Made' => Made)
      BY <3>1 DEF Live, Handed, Made, ChunkSize
    <3>3. Made => Laid' /\ Empty'
      BY <1>0, <3>1 DEF CaptureInv, Laid, Addr, Size, Last, Place, RingSize, ChunkSize, Empty
    <3> QED BY <3>2, <3>3 DEF CaptureInv
  <2>1. CASE Goto("count", "next") /\ StartCount /\ UNCHANGED <<laVars, app, ret, out, trigSample>>
    BY <2>1, DStartCount DEF Handed
  <2>2. CASE Goto("next", "irq") /\ StartNext /\ UNCHANGED <<laVars, app, ret, out, trigSample>>
    BY <2>2, DStartNext DEF Handed
  <2>3. CASE \E dev \in {"irq", "rxten", "clk"} :
               Enable(dev) /\ pc = dev /\ pc' \in {"rxten", "clk", "loop", "acq"}
               /\ UNCHANGED <<laVars, trigSample>>
    <3>1. SameButPlace /\ UNCHANGED la_state
      BY <2>3 DEF Enable, pdcVars, ringVars, isrVars, laVars, SameButPlace
    <3>2. pc \notin {"current", "count", "next", "deliver", "delivered"}
          /\ pc' \notin {"run", "current", "count", "next", "deliver", "delivered"}
      BY <2>3
    <3> QED BY <1>0, <3>1, <3>2, DMoves
  <2> QED BY <1>1, <1>4, <2>0, <2>1, <2>2, <2>3 DEF ioc_start
<1>5. CASE ioc_stop
  <2>1. SameButPlace /\ UNCHANGED la_state
    BY <1>5 DEF ioc_stop, SetStop, iocVars, pdcVars, ringVars, isrVars, laVars, SameButPlace
  <2>2. /\ pc \notin {"current", "count", "next", "deliver", "delivered"}
        /\ pc' \notin {"run", "current", "count", "next", "deliver", "delivered"}
    BY <1>5 DEF ioc_stop
  <2> QED BY <1>0, <2>1, <2>2, DMoves
<1>6. CASE ResetWait
  BY <1>6, DRest DEF ResetWait, iocVars, Made, Live, Handed
<1>7. CASE la_fix_channels
  <2>1. pc = "fix" /\ pc' = "deliver" /\ UNCHANGED <<busy, la_trig_offset, la_read_cnt>>
    BY <1>7 DEF la_fix_channels, laVars
  <2>2. ~busy
    BY <1>0, <1>7, <2>1, SeenComplete DEF la_fix_channels, WInv, Phases, Silent
  <2>3. CaptureInv'  BY <2>1, <2>2, DRest DEF Made, Live
  <2>4. Fits' <=> Fits  BY <2>1 DEF Fits, RingSize, ChunkSize
  <2> QED BY <1>7, <2>1, <2>3, <2>4, DFix DEF Handed
<1>8. CASE Deliver
  <2>1. pc = "deliver" /\ pc' = "delivered" /\ UNCHANGED <<busy, la_trig_offset, la_read_cnt>>
    BY <1>8 DEF Deliver, laVars, iocVars
  <2>2. ~busy
    BY <1>0, <1>8, <2>1, SeenComplete DEF Deliver, WInv, Phases, Silent
  <2>3. CaptureInv'  BY <2>1, <2>2, DRest DEF Made, Live
  <2>4. Fits' <=> Fits  BY <2>1 DEF Fits, RingSize, ChunkSize
  <2>5. Fits => InOrder' = Window'  BY <1>8, DDeliver
  <2> QED BY <2>1, <2>3, <2>4, <2>5 DEF Handed
<1>9. CASE Delivered
  <2>1. ~busy
    BY <1>0, <1>9, SeenComplete DEF Delivered, WInv, Phases, Silent
  <2> QED BY <1>9, <2>1, DRest DEF Delivered, iocVars, Made, Live, Handed
<1>10. CASE Poll
  <2>1. SameButPlace /\ UNCHANGED la_state
    BY <1>10 DEF Poll, iocVars, pdcVars, ringVars, isrVars, laVars, SameButPlace
  <2>2. /\ pc \notin {"current", "count", "next", "deliver", "delivered"}
        /\ pc' \notin {"run", "current", "count", "next", "deliver", "delivered"}
    BY <1>10 DEF Poll
  <2> QED BY <1>0, <2>1, <2>2, DMoves
<1>11. CASE Strange
  BY <1>11, DRest DEF Strange, iocVars, Made, Live, Handed
<1> QED BY <1>2, <1>3, <1>4, <1>5, <1>6, <1>7, <1>8, <1>9, <1>10, <1>11 DEF Main, Start

(* Settings are changed between acquisitions *)
LEMMA DUser == ASSUME DInv, Settled, User PROVE CaptureInv' /\ Handed'
<1> USE DEF Goto
<1>0. TInv /\ WInv /\ RInv /\ CaptureInv  BY DEF DInv, RInv, WInv
<1>1. pc \in {"loop", "menu"} /\ pc' \notin {"run", "current", "count", "next", "deliver", "delivered"}
      /\ UNCHANGED busy
  BY DEF User, cmd_sump, EnterUsb, EnterLcd, Exit, SetClock, iocVars
<1>2. ~Made' /\ Handed'  BY <1>1 DEF Made, Handed
<1>3. CASE ~busy /\ la_state' = "IDLE"
  BY <1>1, <1>2, <1>3, DRest DEF Live
<1>4. CASE UNCHANGED <<mem, seq, rp, rc, rnp, rnc, endrx, ioc_buffers, ioc_buffer_idx,
                       ioc_buffer_current, isr, cur_buf, la_read_cnt, la_trigger_mask, la_trig_offset,
                       la_state, trigSample>>
  BY <1>0, <1>1, <1>2, <1>4, DElsewhere DEF Live, ChunkSize
<1>5. (~busy /\ la_state' = "IDLE")
      \/ UNCHANGED <<mem, seq, rp, rc, rnp, rnc, endrx, ioc_buffers, ioc_buffer_idx,
                     ioc_buffer_current, isr, cur_buf, la_read_cnt, la_trigger_mask, la_trig_offset,
                     la_state, trigSample>>
  <2>1. la_state = "IDLE" => ~busy  BY <1>0 DEF WInv, Phases
  <2>2. "late_config" \notin Env  BY DEF Settled
  <2>3. CASE cmd_sump
    <3>1. CASE UNCHANGED <<iocVars, laVars, trigSample>>
      BY <3>1 DEF iocVars, pdcVars, ringVars, isrVars, laVars
    <3>2. CASE la_state = "IDLE" /\ UNCHANGED la_state
      BY <2>1, <3>2
    <3> QED BY <2>2, <2>3, <3>1, <3>2 DEF cmd_sump
  <2>4. CASE EnterUsb \/ EnterLcd
    BY <2>4 DEF EnterUsb, EnterLcd
  <2>5. CASE Exit
    BY <2>5 DEF Exit, iocVars, pdcVars, ringVars, isrVars, laVars
  <2> QED BY <2>3, <2>4, <2>5 DEF User
<1> QED BY <1>2, <1>3, <1>4, <1>5

(* The display application asks for as many samples as it has columns *)
LEMMA DApp == ASSUME DInv, [Next]_vars PROVE AppInv'
<1> USE DEF Goto
<1>0. AppInv /\ ret \in {"loop", "acq"}
  BY DEF DInv, RInv, WInv, TInv, TypeOK, MainTypeOK
<1>1. CASE Pdc \/ Isr \/ UNCHANGED vars
  <2>1. UNCHANGED <<app, pc, la_read_cnt>>
    BY <1>1 DEF Pdc, Isr, IsrHandler, laVars, mainVars, vars
  <2> QED BY <1>0, <2>1 DEF AppInv
<1>2. CASE Main
  <2>1. UNCHANGED <<app, la_read_cnt>> /\ pc # "menu"
    BY <1>2 DEF Main, Start, la_start_acq, StartRun, ioc_start, ioc_stop, ResetWait,
       la_fix_channels, Deliver, Delivered, Poll, Strange, laVars
  <2> QED BY <1>0, <2>1 DEF AppInv
<1>3. CASE User
  <2>1. CASE cmd_sump \/ EnterUsb
    <3>1. app' = "usb"  BY <2>1 DEF cmd_sump, EnterUsb
    <3> QED BY <3>1 DEF AppInv
  <2>2. CASE EnterLcd
    BY <2>2 DEF EnterLcd, AppInv
  <2>3. CASE Exit
    BY <2>3 DEF Exit, AppInv
  <2> QED BY <1>3, <2>1, <2>2, <2>3 DEF User
<1> QED BY <1>1, <1>2, <1>3 DEF Next

LEMMA DStutter == ASSUME DInv, UNCHANGED vars PROVE CaptureInv' /\ Handed'
<1>1. /\ SameButPlace /\ UNCHANGED <<pc, la_state, mem, app, out>>
  BY DEF vars, iocVars, pdcVars, ringVars, isrVars, laVars, mainVars, SameButPlace
<1>2. CaptureInv'
  <2>1. CASE pc = "next"
    <3>1. (Made' => Made) /\ (Live' <=> Live)  BY <1>1 DEF SameButPlace, Made, Live, ChunkSize
    <3>2. /\ (Laid' <=> Laid) /\ (Empty' <=> Empty) /\ (Planned' <=> Planned)
          /\ (Recorded' <=> Recorded) /\ End(0)' = End(0)
      BY <1>1, DSame DEF SameButPlace
    <3>3. Behind => Behind'
      <4>1. WrittenTo(0, rp) => WrittenTo(0, rp)'
        BY <1>1 DEF SameButPlace, WrittenTo, Addr, Written
      <4> QED BY <1>1, <2>1, <3>2, <4>1 DEF Behind, SameButPlace
    <3>4. Triggered => Triggered'
      BY <1>1 DEF SameButPlace, Triggered, Ring, RingSize, ChunkSize, Written, Last, Place, End, Addr,
         Size, Spared
    <3>5. la_trig_offset' = la_trig_offset  BY <1>1 DEF SameButPlace
    <3> QED BY <3>1, <3>2, <3>3, <3>4, <3>5 DEF DInv, CaptureInv
  <2>2. CASE pc # "next"
    <3>1. (Made' => Made) /\ (Live' => Live)  BY <1>1 DEF SameButPlace, Made, Live, ChunkSize
    <3> QED BY <1>1, <2>2, <3>1, DElsewhere DEF DInv, SameButPlace
  <2> QED BY <2>1, <2>2
<1>3. Handed'
  BY <1>1 DEF DInv, Handed, SameButPlace, Fits, RingSize, ChunkSize, WindowHas, InOrder, Window
<1> QED BY <1>2, <1>3

LEMMA DInit == Init => CaptureInv /\ AppInv /\ Handed
BY DEF Init, IocInit, CaptureInv, AppInv, Handed, Made, Live

LEMMA DStep == ASSUME DInv, BuffersCnt >= 3, Settled, [Next]_vars PROVE DInv'
<1>1. RInv'  BY RStep DEF DInv
<1>2. CaptureInv' /\ Handed'  BY DPdc, DIsr, DMain, DUser, DStutter DEF Next
<1> QED BY <1>1, <1>2, DApp DEF DInv

(* Whatever is sent to the host or drawn is the samples from the trigger   *)
(* on, consecutive and in order, each with its channels fixed once, for    *)
(* every size of memory, read count, trigger and delay of the handler,     *)
(* where the window does not run over the end of a ring shorter than       *)
(* memory.  (Samples that come while the PDC is dry have no numbers, which  *)
(* is why WindowExact only speaks of acquisitions without a gap.)          *)
THEOREM WindowIsExact ==
    ASSUME BuffersCnt >= 3, Settled
    PROVE  Spec => []WindowExact
<1>1. BuffersCnt >= 3 /\ Settled  OBVIOUS
<1>2. Init => DInv  BY WInit, RInit, DInit DEF DInv, RInv
<1>3. DInv /\ [Next]_vars => DInv'  BY <1>1, DStep
<1>4. DInv => WindowExact  BY DEF DInv, Handed, Fits, WindowExact, DeliversWindow
<1> QED BY <1>2, <1>3, <1>4, PTL DEF Spec
-----------------------------------------------------------------------------
(* The applications keep the promise of Acquisition, step by step.  The     *)
(* variables of Promise, by the names they have there:                     *)
St      == IF pc = "delivered" THEN "delivered"
           ELSE IF la_state = "IDLE" THEN "idle"
           ELSE IF la_state = "ACQUIRED" /\ MainMayRun THEN "acquired"
           ELSE "running"
Writing == rxten /\ clk /\ rc > 0
From    == IF la_state = "ACQUIRED" /\ MainMayRun THEN trigSample ELSE Stale
Shown   == [i \in DOMAIN out |-> IF InOrder[i].fixed THEN InOrder[i].n ELSE Stale]

(* Nothing is shown but what has been delivered *)
PInv == DInv /\ (pc # "delivered" => out = <<>>)

PromiseStep == [Promise!Next]_(Promise!vars)

LEMMA PromiseStutters ==
    ASSUME UNCHANGED <<St, Writing, From, Shown>>
    PROVE  PromiseStep
BY DEF PromiseStep, Promise!vars, St, Writing, From, Shown

LEMMA PromiseBegins ==
    ASSUME St = "idle", St' = "running", UNCHANGED <<Writing, From, Shown>>
    PROVE  PromiseStep
<1>1. Promise!Begin  BY DEF Promise!Begin, St, Writing, From, Shown
<1> QED BY <1>1 DEF PromiseStep, Promise!Next

LEMMA PromiseCaptures ==
    ASSUME St = "running", Writing' \in BOOLEAN, UNCHANGED <<St, From, Shown>>
    PROVE  PromiseStep
<1>1. Promise!Capture  BY DEF Promise!Capture, St, Writing, From, Shown
<1> QED BY <1>1 DEF PromiseStep, Promise!Next

LEMMA PromiseCompletes ==
    ASSUME St = "running", St' = "acquired", Writing' = FALSE,
           From' \in (0 .. SeqMod - 1) \cup {Stale}, UNCHANGED Shown
    PROVE  PromiseStep
<1>1. Promise!Complete
  BY DEF Promise!Complete, Promise!NoSample, St, Writing, From, Shown, Stale
<1> QED BY <1>1 DEF PromiseStep, Promise!Next

LEMMA PromiseDelivers ==
    ASSUME St = "acquired", St' = "delivered", UNCHANGED <<Writing, From>>,
           NEW n \in 0 .. BufferSize,
           Shown' = [i \in 1 .. n |-> (From + i - 1) % SeqMod]
    PROVE  PromiseStep
<1>1. Promise!Deliver  BY DEF Promise!Deliver, St, Writing, From, Shown
<1> QED BY <1>1 DEF PromiseStep, Promise!Next

LEMMA PromiseFinishes ==
    ASSUME St = "delivered", St' = "idle", From' = Stale, Shown' = <<>>, UNCHANGED Writing
    PROVE  PromiseStep
<1>1. Promise!Finish
  BY DEF Promise!Finish, Promise!NoSample, St, Writing, From, Shown, Stale
<1> QED BY <1>1 DEF PromiseStep, Promise!Next

LEMMA PromiseAbandons ==
    ASSUME St \in {"running", "acquired"}, ~Writing, St' = "idle", From' = Stale,
           UNCHANGED <<Writing, Shown>>
    PROVE  PromiseStep
<1>1. Promise!Abandon
  BY DEF Promise!Abandon, Promise!NoSample, St, Writing, From, Shown, Stale
<1> QED BY <1>1 DEF PromiseStep, Promise!Next

LEMMA NothingShown == out = <<>> => Shown = <<>>
BY DEF Shown

LEMMA SameShown == ASSUME UNCHANGED <<out, app>> PROVE Shown' = Shown
BY DEF Shown, InOrder

(* Between the PDC and the handler, the acquisition runs *)
LEMMA PPdc == ASSUME PInv, DInv', Pdc PROVE PromiseStep
<1>0. WInv /\ WInv'  BY DEF PInv, DInv, RInv
<1>1. /\ rc > 0 /\ UNCHANGED <<irq, isr, busy, pc, la_state, app, out, trigSample>>
  BY DEF Pdc, PdcStore, enVars, isrVars, laVars, mainVars
<1>2. rc \in Nat  BY <1>0, WNumbers DEF WInv
<1>3. ~RxBuff /\ busy  BY <1>0, <1>1, <1>2 DEF RxBuff, WInv, Idle
<1>4. la_state # "IDLE" /\ ~(la_state = "ACQUIRED" /\ MainMayRun)
  BY <1>0, <1>3, SeenComplete DEF WInv, Phases, Silent
<1>5. ~(la_state' = "ACQUIRED" /\ MainMayRun')
  <2>1. WInv' /\ MainMayRun' /\ la_state' = "ACQUIRED" => Silent'
    BY DEF WInv, Acquired, MainMayRun
  <2> QED BY <1>0, <1>1, <1>3, <2>1 DEF Silent
<1>6. pc # "delivered"
  BY <1>0, <1>3 DEF WInv, Phases, Acquired, Silent, IrqPending
<1>7. St = "running" /\ St' = "running"  BY <1>1, <1>4, <1>5, <1>6 DEF St
<1>8. UNCHANGED <<From, Shown>>  BY <1>1, <1>4, <1>5, SameShown DEF From
<1>9. Writing' \in BOOLEAN  BY DEF Writing
<1> QED BY <1>7, <1>8, <1>9, PromiseCaptures

LEMMA PIsr == ASSUME PInv, DInv', Isr PROVE PromiseStep
<1>0. WInv /\ WInv' /\ TypeOK'  BY DEF PInv, DInv, RInv, WInv, TInv
<1>1. UNCHANGED <<pc, app, out>>
  BY DEF Isr, IsrHandler, mainVars
<1>2. ~MainMayRun /\ irq
  BY <1>0 DEF Isr, IsrEnter, IsrExit, IsrHandler, MainMayRun, IrqPending, WInv, Phases
<1>3. la_state # "IDLE" /\ pc # "delivered"  BY <1>0, <1>2 DEF WInv, Phases
<1>4. la_state' # "IDLE"
  BY <1>3 DEF Isr, IsrHandler, la_acq_finished, laVars
<1>5. St = "running" /\ From = Stale /\ UNCHANGED Shown
  BY <1>1, <1>2, <1>3, SameShown DEF St, From
<1>6. CASE la_state' = "ACQUIRED" /\ MainMayRun'
  <2>1. Silent'  BY <1>0, <1>6 DEF WInv, Acquired, MainMayRun
  <2>2. Writing' = FALSE  BY <2>1 DEF Silent, RxBuff, Writing
  <2>3. From' \in (0 .. SeqMod - 1) \cup {Stale}
    BY <1>0, <1>6 DEF From, TypeOK, MemTypeOK, Stale
  <2>4. St' = "acquired"  BY <1>1, <1>3, <1>4, <1>6 DEF St
  <2> QED BY <1>5, <2>2, <2>3, <2>4, PromiseCompletes
<1>7. CASE ~(la_state' = "ACQUIRED" /\ MainMayRun')
  <2>1. St' = "running" /\ From' = Stale  BY <1>1, <1>3, <1>4, <1>7 DEF St, From
  <2>2. Writing' \in BOOLEAN  BY DEF Writing
  <2> QED BY <1>5, <2>1, <2>2, PromiseCaptures
<1> QED BY <1>6, <1>7

(* Whatever the main program does while nothing is acquired, or after, the *)
(* capture stays silent *)
LEMMA PQuiet ==
    ASSUME PInv, MainMayRun, la_state # "RUNNING"
    PROVE  ~busy /\ ~irq /\ ~Writing
<1>1. WInv  BY DEF PInv, DInv, RInv
<1>2. ~busy /\ ~irq  BY <1>1, SeenComplete DEF WInv, Phases, Silent, TInv, TypeOK, LaTypeOK
<1> QED BY <1>1, <1>2 DEF WInv, Idle, RxBuff, Writing

(* Steps of the main program and the user that neither start nor end       *)
(* anything                                                                *)
LEMMA PKeeps ==
    ASSUME PInv, MainMayRun, UNCHANGED <<la_state, irq, isr, busy, rc, rnc, endrx, Writing>>,
           la_state = "IDLE" \/ UNCHANGED trigSample,
           pc # "delivered", pc' # "delivered", out' = <<>>
    PROVE  PromiseStep
<1>1. MainMayRun'  BY DEF MainMayRun, IrqPending, RxBuff
<1>2. out = <<>>  BY DEF PInv
<1>3. UNCHANGED Shown
  <2>1. Shown = <<>>  BY <1>2, NothingShown
  <2>2. Shown' = <<>>  BY DEF Shown
  <2> QED BY <2>1, <2>2
<1>4. UNCHANGED <<St, From>>  BY <1>1 DEF St, From
<1> QED BY <1>3, <1>4, PromiseStutters

(* The main program gives up what nothing drives *)
LEMMA PGivesUp ==
    ASSUME PInv, MainMayRun, ~busy, la_state' = "IDLE",
           UNCHANGED <<rxten, rc>>, clk' => clk,
           pc # "delivered", pc' # "delivered", out' = <<>>
    PROVE  PromiseStep
<1>1. WInv  BY DEF PInv, DInv, RInv
<1>2. rc = 0  BY <1>1 DEF WInv, Idle, RxBuff
<1>3. ~Writing /\ ~Writing'  BY <1>2 DEF Writing
<1>4. UNCHANGED Shown
  <2>1. Shown = <<>>  BY NothingShown DEF PInv
  <2>2. Shown' = <<>>  BY DEF Shown
  <2> QED BY <2>1, <2>2
<1>5. St' = "idle" /\ From' = Stale  BY DEF St, From
<1>6. Writing' = Writing  BY <1>3 DEF Writing
<1>7. CASE la_state = "IDLE"
  BY <1>4, <1>5, <1>6, <1>7, PromiseStutters DEF St, From
<1>8. CASE la_state # "IDLE"
  <2>1. St \in {"running", "acquired"}  BY <1>8 DEF St
  <2> QED BY <1>3, <1>4, <1>5, <1>6, <2>1, PromiseAbandons
<1> QED BY <1>7, <1>8

LEMMA PDeliver ==
    ASSUME PInv, DInv', Deliver, la_read_cnt = 0 \/ Fits
    PROVE  PromiseStep
<1>0. TInv /\ WInv  BY DEF PInv, DInv, RInv, WInv
<1>1. /\ MainMayRun /\ pc = "deliver" /\ pc' = "delivered"
      /\ UNCHANGED <<app, rxten, clk, irq, isr, rc, rnc, endrx, la_state, la_read_cnt,
                     la_trig_offset, trigSample, mem>>
      /\ out' = IF app = "usb" THEN la_usb_send(la_trig_offset, la_read_cnt)
                               ELSE la_display_acq(la_trig_offset)
  BY DEF Deliver, Goto, iocVars, pdcVars, enVars, isrVars, laVars
<1>2. la_state = "ACQUIRED"  BY <1>0, <1>1 DEF WInv, Phases
<1>3. MainMayRun'  BY <1>1 DEF MainMayRun, IrqPending, RxBuff
<1>4. St = "acquired" /\ St' = "delivered"  BY <1>1, <1>2 DEF St
<1>5. From = trigSample /\ UNCHANGED From  BY <1>1, <1>2, <1>3 DEF From
<1>6. Writing' = Writing  BY <1>1 DEF Writing
<1>7. la_read_cnt \in 0 .. BufferSize  BY <1>0 DEF TInv, TypeOK, LaTypeOK
<1>8. Shown' = [i \in 1 .. la_read_cnt |-> (trigSample + i - 1) % SeqMod]
  <2>1. CASE Fits
    <3>1. InOrder' = Window'  BY <2>1, DDeliver DEF PInv
    <3>2. Window' = [i \in 1 .. la_read_cnt |->
                        [n |-> (trigSample + i - 1) % SeqMod, fixed |-> TRUE]]
      BY <1>1 DEF Window
    <3>3. DOMAIN out' = DOMAIN InOrder'  BY DEF InOrder
    <3> DEFINE s(i) == [n |-> (trigSample + i - 1) % SeqMod, fixed |-> TRUE]
    <3>4. \A i : s(i).n = (trigSample + i - 1) % SeqMod /\ s(i).fixed = TRUE  OBVIOUS
    <3>5. Window' = [i \in 1 .. la_read_cnt |-> s(i)]  BY <3>2
    <3> HIDE DEF s
    <3>6. DOMAIN out' = 1 .. la_read_cnt
      BY <3>1, <3>3, <3>5
    <3>7. \A i \in 1 .. la_read_cnt : InOrder'[i] = s(i)  BY <3>1, <3>5
    <3>8. \A i \in 1 .. la_read_cnt :
            (IF InOrder'[i].fixed THEN InOrder'[i].n ELSE Stale) = (trigSample + i - 1) % SeqMod
      BY <3>4, <3>7
    <3> QED BY <3>6, <3>8 DEF Shown
  <2>2. CASE la_read_cnt = 0
    <3>1. app = "usb"
      <4>1. LcdWidth > 0 /\ LcdWidth \in Int  BY ConstAssumption, LaAssumption
      <4> QED BY <1>1, <2>2, <4>1, <1>0 DEF PInv, DInv, AppInv, TInv, TypeOK, MainTypeOK
    <3>2. la_trig_offset \in Addresses
      BY <1>0, <1>1 DEF TInv, TypeOK, LaTypeOK, TriggerKnown
    <3>3. la_trig_offset \in Nat /\ la_trig_offset + 0 <= BufferSize
      BY <3>2, ConstAssumption DEF Addresses
    <3>4. out' = Reverted(la_trig_offset, 0)  BY <1>1, <2>2, <3>1, <3>3 DEF la_usb_send
    <3>5. out' = <<>>  BY <3>4 DEF Reverted
    <3>6. Shown' = <<>>  BY <3>5 DEF Shown
    <3> QED BY <2>2, <3>6
  <2> QED BY <2>1, <2>2
<1>9. Shown' = [i \in 1 .. la_read_cnt |-> (From + i - 1) % SeqMod]  BY <1>5, <1>8
<1> QED BY <1>4, <1>5, <1>6, <1>7, <1>9, PromiseDelivers

LEMMA PStart == ASSUME PInv, Start PROVE PromiseStep
<1> USE DEF Goto
<1>0. WInv /\ ret \in {"loop", "acq"} /\ la_state \in {"IDLE", "RUNNING", "ACQUIRED"}
  BY DEF PInv, DInv, RInv, WInv, TInv, TypeOK, MainTypeOK, LaTypeOK
<1>1. MainMayRun /\ pc # "delivered" /\ out = <<>>
  BY DEF Start, la_start_acq, StartRun, ioc_start, PInv
<1>2. CASE la_start_acq
  <2>1. /\ UNCHANGED <<la_state, irq, isr, busy, rc, rnc, endrx, rxten, clk, out>>
        /\ pc' # "delivered" /\ (la_state = "IDLE" \/ UNCHANGED trigSample)
    BY <1>0, <1>2 DEF la_start_acq, iocVars, pdcVars, enVars, isrVars, laVars
  <2>2. UNCHANGED Writing  BY <2>1 DEF Writing
  <2> QED BY <1>1, <2>1, <2>2, PKeeps
<1>3. CASE StartRun
  <2>1. /\ la_state' = "RUNNING" /\ pc = "run" /\ pc' = "current"
        /\ UNCHANGED <<rxten, clk, rc, out, app>>
    BY <1>3 DEF StartRun, StartBookkeeping, pdcVars, enVars
  <2>2. la_state = "IDLE"  BY <1>0, <2>1 DEF WInv, Phases
  <2>3. St = "idle" /\ St' = "running" /\ UNCHANGED <<From, Writing>>
    BY <2>1, <2>2 DEF St, From, Writing
  <2> QED BY <2>1, <2>3, SameShown, PromiseBegins
<1>4. CASE ioc_start
  <2>1. UNCHANGED <<la_state, app, out, trigSample>> /\ pc' # "delivered"
    BY <1>0, <1>4 DEF ioc_start, laVars
  <2>2. CASE la_state = "RUNNING"
    <3>1. St = "running" /\ UNCHANGED <<St, From, Shown>>
      BY <1>1, <2>1, <2>2, SameShown DEF St, From
    <3>2. Writing' \in BOOLEAN  BY DEF Writing
    <3> QED BY <3>1, <3>2, PromiseCaptures
  <2>3. CASE la_state # "RUNNING"
    <3>1. pc \in {"rxten", "clk"}
      BY <1>0, <1>4, <2>3 DEF ioc_start, WInv, Phases
    <3>2. UNCHANGED <<irq, isr, busy, rc, rnc, endrx>>
      <4>1. UNCHANGED <<isr, busy, rc, rnc, endrx>> /\ (irq' = (irq \/ FALSE))
        BY <1>4, <3>1 DEF ioc_start, Enable, pdcVars, isrVars
      <4>2. irq \in BOOLEAN  BY <1>0 DEF WInv, TInv, TypeOK, FlagTypeOK
      <4>3. irq' = irq  BY <4>1, <4>2, Zenon
      <4> QED BY <4>1, <4>3
    <3>3. rc = 0 /\ rc' = 0
      BY <1>0, <1>1, <2>3, <3>2, PQuiet DEF WInv, Idle, RxBuff
    <3>4. UNCHANGED Writing  BY <3>3 DEF Writing
    <3> QED BY <1>1, <2>1, <3>2, <3>4, PKeeps
  <2> QED BY <2>2, <2>3
<1> QED BY <1>2, <1>3, <1>4 DEF Start

LEMMA PMain == ASSUME PInv, DInv', Main PROVE PromiseStep \/ (Deliver /\ ~Fits)
<1> USE DEF Goto
<1>0. WInv  BY DEF PInv, DInv, RInv
<1>1. CASE Start
  BY <1>1, PStart
<1>2. CASE ioc_stop \/ Poll
  <2>1. /\ MainMayRun /\ pc # "delivered" /\ pc' # "delivered"
        /\ UNCHANGED <<la_state, irq, isr, busy, rc, rnc, endrx, rxten, clk, out, trigSample>>
    BY <1>2 DEF ioc_stop, Poll, SetStop, iocVars, pdcVars, enVars, isrVars, laVars
  <2>2. UNCHANGED Writing /\ out' = <<>>  BY <2>1 DEF Writing, PInv
  <2> QED BY <2>1, <2>2, PKeeps
<1>3. CASE la_fix_channels
  <2>1. /\ MainMayRun /\ pc # "delivered" /\ pc' # "delivered"
        /\ UNCHANGED <<la_state, irq, isr, busy, rc, rnc, endrx, rxten, clk, out, trigSample>>
    BY <1>3 DEF la_fix_channels, pdcVars, enVars, isrVars, laVars
  <2>2. UNCHANGED Writing /\ out' = <<>>  BY <2>1 DEF Writing, PInv
  <2> QED BY <2>1, <2>2, PKeeps
<1>4. CASE ResetWait \/ Strange
  <2>1. /\ MainMayRun /\ pc # "delivered" /\ pc' # "delivered" /\ ~busy /\ la_state' = "IDLE"
        /\ UNCHANGED <<rc, rxten, clk, out>>
    BY <1>4 DEF ResetWait, Strange, iocVars, pdcVars, enVars
  <2>2. out' = <<>>  BY <2>1 DEF PInv
  <2> QED BY <2>1, <2>2, PGivesUp
<1>5. CASE Deliver
  BY <1>5, PDeliver
<1>6. CASE Delivered
  <2>1. /\ pc = "delivered" /\ pc' # "delivered" /\ la_state' = "IDLE" /\ out' = <<>>
        /\ UNCHANGED <<rc, rxten, clk>>
    BY <1>6 DEF Delivered, iocVars, pdcVars, enVars
  <2>2. St = "delivered" /\ St' = "idle" /\ From' = Stale /\ UNCHANGED Writing
    BY <2>1 DEF St, From, Writing
  <2>3. Shown' = <<>>  BY <2>1 DEF Shown
  <2> QED BY <2>2, <2>3, PromiseFinishes
<1> QED BY <1>1, <1>2, <1>3, <1>4, <1>5, <1>6 DEF Main

LEMMA PUser == ASSUME PInv, Settled, User PROVE PromiseStep
<1> USE DEF Goto
<1>0. WInv  BY DEF PInv, DInv, RInv
<1>1. MainMayRun /\ pc # "delivered" /\ pc' # "delivered" /\ out' = <<>>
  BY DEF User, cmd_sump, EnterUsb, EnterLcd, Exit, PInv
<1>2. CASE cmd_sump
  <2>1. /\ UNCHANGED <<la_state, irq, isr, busy, rc, rnc, endrx, rxten, trigSample>>
        /\ UNCHANGED clk \/ la_state = "IDLE"
    BY <1>2 DEF cmd_sump, SetClock, Settled, iocVars, pdcVars, enVars, isrVars, laVars
  <2>2. la_state = "IDLE" => rc = 0  BY <1>0 DEF WInv, Phases, Idle, RxBuff
  <2>3. UNCHANGED Writing  BY <2>1, <2>2 DEF Writing
  <2> QED BY <1>1, <2>1, <2>3, PKeeps
<1>3. CASE EnterUsb \/ EnterLcd
  <2>1. ~busy /\ la_state' = "IDLE" /\ UNCHANGED <<rxten, rc>> /\ (clk' => clk)
    BY <1>3 DEF EnterUsb, EnterLcd, SetClock, iocVars, pdcVars, enVars
  <2> QED BY <1>1, <2>1, PGivesUp
<1>4. CASE Exit
  <2>1. UNCHANGED <<la_state, irq, isr, busy, rc, rnc, endrx, rxten, clk, trigSample>>
    BY <1>4 DEF Exit, iocVars, pdcVars, enVars, isrVars, laVars
  <2>2. UNCHANGED Writing  BY <2>1 DEF Writing
  <2> QED BY <1>1, <2>1, <2>2, PKeeps
<1> QED BY <1>2, <1>3, <1>4 DEF User

LEMMA PStutter == ASSUME PInv, UNCHANGED vars PROVE PromiseStep
<1>1. UNCHANGED <<la_state, irq, isr, rc, rnc, endrx, rxten, clk, out, app, pc, trigSample>>
  BY DEF vars, iocVars, pdcVars, enVars, isrVars, laVars, mainVars
<1>2. MainMayRun' = MainMayRun
  BY <1>1 DEF MainMayRun, IrqPending, RxBuff
<1> QED BY <1>1, <1>2, SameShown, PromiseStutters DEF St, From, Writing

LEMMA PStep == ASSUME PInv, BuffersCnt >= 3, Settled, [Next]_vars PROVE PInv'
<1> USE DEF Goto
<1>1. DInv'  BY DStep DEF PInv
<1>2. CASE pc' # "delivered" /\ pc # "delivered"
  <2>1. UNCHANGED out \/ out' = <<>>
    BY <1>2 DEF Next, Pdc, Isr, IsrHandler, Main, Start, la_start_acq, StartRun, ioc_start,
       ioc_stop, ResetWait, la_fix_channels, Deliver, Delivered, Poll, Strange, User, cmd_sump,
       EnterUsb, EnterLcd, Exit, vars
  <2> QED BY <1>1, <1>2, <2>1 DEF PInv
<1>3. CASE pc' # "delivered" /\ pc = "delivered"
  <2>1. out' = <<>>
    BY <1>3 DEF Next, Pdc, Isr, IsrHandler, Main, Start, la_start_acq, StartRun, ioc_start,
       ioc_stop, ResetWait, la_fix_channels, Deliver, Delivered, Poll, Strange, User, cmd_sump,
       EnterUsb, EnterLcd, Exit, vars, mainVars
  <2> QED BY <1>1, <2>1 DEF PInv
<1> QED BY <1>1, <1>2, <1>3 DEF PInv

LEMMA PInit == Init => PInv /\ Promise!Init
<1> SUFFICES ASSUME Init PROVE PInv /\ Promise!Init
  OBVIOUS
<1>1. PInv  BY WInit, RInit, DInit DEF PInv, DInv, RInv, Init
<1>2. out = <<>> /\ la_state = "IDLE" /\ pc = "menu" /\ rc = 0
  BY DEF Init, IocInit
<1>3. St = "idle" /\ Writing = FALSE /\ From = Stale  BY <1>2 DEF St, Writing, From
<1>4. Shown = <<>>  BY <1>2, NothingShown
<1> QED BY <1>1, <1>3, <1>4 DEF Promise!Init, Promise!NoSample, Stale, St, Writing, From, Shown

LEMMA PromiseInvariant ==
    ASSUME BuffersCnt >= 3, Settled
    PROVE  Spec => []PInv
<1>1. BuffersCnt >= 3 /\ Settled  OBVIOUS
<1>2. PInv /\ [Next]_vars => PInv'  BY <1>1, PStep
<1> QED BY <1>2, PInit, PTL DEF Spec

LEMMA PromiseSteps ==
    ASSUME PInv, BuffersCnt >= 3, Settled, [Next]_vars
    PROVE  PromiseStep \/ (Deliver /\ ~Fits)
<1>1. DInv'  BY PStep DEF PInv
<1> QED BY <1>1, PPdc, PIsr, PMain, PUser, PStutter DEF Next

(* Every step of the applications is a step of Acquisition or changes      *)
(* nothing it speaks of, whatever the sizes, the trigger and the delay of  *)
(* the handler, but for one: delivering a window that runs over the end of *)
(* a ring shorter than memory.                                             *)
THEOREM PromiseIsKept ==
    ASSUME BuffersCnt >= 3, Settled
    PROVE  Spec => Promise!Init /\ [][PromiseStep \/ (Deliver /\ ~Fits)]_vars
<1>1. BuffersCnt >= 3 /\ Settled  OBVIOUS
<1>2. PInv /\ [Next]_vars => PromiseStep \/ (Deliver /\ ~Fits)  BY <1>1, PromiseSteps
<1>3. Spec => []PInv  BY <1>1, PromiseInvariant
<1>4. Init => Promise!Init  BY PInit
<1> QED BY <1>2, <1>3, <1>4, PTL DEF Spec

(* Every ring the applications ask for covers memory.  With the 64 KiB of  *)
(* LA_BUFFER_SIZE that is so of a host that reads 4096 samples or more,    *)
(* and not of the 128 columns of the display: see PromiseIsKept.           *)
Covering ==
    /\ BufferSize % BuffersCnt = 0
    /\ \A n \in ReadCounts \cup {LcdWidth} :
          n > 0 => n * BuffersCnt >= BufferSize \div BuffersCnt

Asked == la_read_cnt \in ReadCounts \cup {LcdWidth, 0}

LEMMA AskedStep == ASSUME Asked, [Next]_vars PROVE Asked'
<1>1. la_read_cnt' \in ReadCounts \cup {LcdWidth, 0} \cup {la_read_cnt}
  BY DEF Next, Pdc, Isr, IsrHandler, Main, Start, la_start_acq, StartRun, ioc_start,
     ioc_stop, ResetWait, la_fix_channels, Deliver, Delivered, Poll, Strange, User, cmd_sump,
     EnterUsb, EnterLcd, Exit, vars, laVars
<1> QED BY <1>1 DEF Asked

LEMMA CoveredFits ==
    ASSUME PInv, Asked, Covering
    PROVE  la_read_cnt = 0 \/ Fits
<1> SUFFICES ASSUME la_read_cnt # 0 PROVE RingSize = BufferSize
  BY DEF Fits
<1> DEFINE m == BufferSize \div BuffersCnt
           w == la_read_cnt * BuffersCnt
<1>1. BufferSize \in Nat /\ BuffersCnt \in Nat \ {0} /\ la_read_cnt \in Nat
  BY ConstAssumption, WNumbers DEF PInv, DInv, RInv, WInv
<1>2. w >= m  BY <1>1 DEF Asked, Covering
<1>3. m \in Nat /\ w \in Nat /\ BuffersCnt * m = BufferSize
  <2>1. BufferSize = BuffersCnt * (BufferSize \div BuffersCnt) + (BufferSize % BuffersCnt)
    BY <1>1
  <2> QED BY <1>1, <2>1 DEF Covering
<1>4. ChunkSize = IF w <= m THEN w ELSE m  BY DEF ChunkSize
<1> HIDE DEF m, w
<1>5. ChunkSize = m  BY <1>2, <1>3, <1>4
<1> QED BY <1>3, <1>5 DEF RingSize

(* So the applications implement Acquisition wherever the ring always      *)
(* covers memory.                                                          *)
THEOREM ApplicationsImplementAcquisition ==
    ASSUME BuffersCnt >= 3, Settled, Covering
    PROVE  Spec => Implements
<1>1. BuffersCnt >= 3 /\ Settled /\ Covering  OBVIOUS
<1>2. PInv /\ Asked /\ [Next]_vars => PromiseStep
  <2> SUFFICES ASSUME PInv, Asked, [Next]_vars PROVE PromiseStep
    OBVIOUS
  <2>1. DInv'  BY <1>1, PStep DEF PInv
  <2>2. CASE Deliver
    BY <1>1, <2>1, <2>2, CoveredFits, PDeliver
  <2>3. CASE ~Deliver
    BY <1>1, <2>3, PromiseSteps
  <2> QED BY <2>2, <2>3
<1>3. Spec => []PInv  BY <1>1, PromiseInvariant
<1>4. Init => Promise!Init /\ Asked  BY PInit DEF Init, Asked
<1>5. Asked /\ [Next]_vars => Asked'  BY AskedStep
<1> QED BY <1>2, <1>3, <1>4, <1>5, PTL DEF Spec, Implements, Promise!Spec, PromiseStep
=============================================================================
