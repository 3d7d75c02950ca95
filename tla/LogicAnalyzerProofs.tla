------------------------- MODULE LogicAnalyzerProofs -------------------------
(***************************************************************************)
(* Theorems about LogicAnalyzer, for every size of the buffer, number of   *)
(* buffers in the ring and behaviour of the surroundings: types, where the *)
(* DMA writes, and that a complete acquisition is at rest.                 *)
(***************************************************************************)
EXTENDS LogicAnalyzer, SequenceTheorems, TLAPS

-----------------------------------------------------------------------------
(* Types, and addresses that stay in the buffer *)

(* Every buffer of the ring lies in the sample buffer *)
RingInBounds == \A i \in BufferIds : ioc_buffers[i].addr + ioc_buffers[i].size <= BufferSize

(* A trigger offset is known wherever it is used as an address *)
TriggerKnown == la_state = "ACQUIRED" \/ pc \in {"fix", "deliver"} => la_trig_offset # UINT_MAX

TInv == TypeOK /\ DmaInBounds /\ RingInBounds /\ TriggerKnown

(* A quotient times its divisor does not exceed the dividend. *)
LEMMA DivBound ==
    ASSUME NEW n \in Nat, NEW k \in Nat \ {0}
    PROVE  n \div k \in Nat /\ k * (n \div k) <= n
  OBVIOUS

(* Multiplication by a natural number preserves order. *)
LEMMA MulMono ==
    ASSUME NEW a \in Nat, NEW b \in Nat, NEW c \in Nat, NEW d \in Nat, a <= b, c <= d
    PROVE  a * c <= b * d
  OBVIOUS

(* la_start_acq lays the buffers out one behind the other, inside memory *)
LEMMA StartRingInBounds ==
    ASSUME TypeOK
    PROVE  /\ StartRing \in [BufferIds -> IocBuffer]
           /\ \A i \in BufferIds : StartRing[i].addr + StartRing[i].size <= BufferSize
<1> DEFINE most == BufferSize \div BuffersCnt
<1>1. /\ BufferSize \in Nat /\ BuffersCnt \in Nat \ {0} /\ la_read_cnt \in Nat
      BY ConstAssumption DEF TypeOK, LaTypeOK
<1>2. most \in Nat /\ BuffersCnt * most <= BufferSize
  BY <1>1, DivBound
<1>3. la_read_cnt * BuffersCnt \in Nat
  BY <1>1
<1>4. ChunkSize \in Nat /\ ChunkSize <= most
  <2> HIDE DEF most
  <2> QED BY <1>2, <1>3 DEF ChunkSize, most
<1>5. ASSUME NEW i \in BufferIds
      PROVE  /\ i * ChunkSize \in Nat
             /\ i * ChunkSize + ChunkSize <= BufferSize
  <2> HIDE DEF most
  <2> DEFINE c == ChunkSize
  <2>1. c \in Nat /\ c <= most  BY <1>4
  <2>2. i \in Nat /\ i + 1 \in Nat /\ i + 1 <= BuffersCnt  BY <1>1 DEF BufferIds
  <2> HIDE DEF c
  <2>3. (i + 1) * c <= BuffersCnt * most  BY <1>1, <1>2, <2>1, <2>2, MulMono
  <2>4. (i + 1) * c = i * c + c /\ i * c \in Nat  BY <2>1, <2>2
  <2>5. i * c + c <= BufferSize
    <3> DEFINE x == i * c  y == BuffersCnt * most z == (i + 1) * c
    <3>1. x \in Nat /\ y \in Nat /\ z \in Nat /\ z <= y /\ y <= BufferSize /\ z = x + c
      BY <1>1, <1>2, <2>1, <2>2, <2>3, <2>4
    <3> HIDE DEF x, y, z
    <3>2. x + c <= BufferSize  BY <3>1, <1>1, <2>1
    <3> QED BY <3>2 DEF x
  <2> QED BY <2>4, <2>5 DEF c
<1>6. ASSUME NEW i \in BufferIds
      PROVE  StartRing[i] \in IocBuffer /\ StartRing[i].addr + StartRing[i].size <= BufferSize
  <2> DEFINE c == ChunkSize
             x == i * c
  <2>1. c \in Nat /\ x \in Nat /\ x + c <= BufferSize  BY <1>4, <1>5
  <2>2. StartRing[i] = [addr |-> x, size |-> c, last |-> ~la_trigger_mask /\ i = BuffersCnt - 1]
    BY DEF StartRing
  <2> HIDE DEF c, x
  <2>3. x \in 0 .. BufferSize /\ c \in 0 .. BufferSize  BY <2>1, <1>1
  <2> QED BY <2>1, <2>2, <2>3 DEF IocBuffer
<1> QED BY <1>6 DEF StartRing

(* The firmware starts in a well-typed state. *)
LEMMA TInit == Init => TInv
<1> SUFFICES ASSUME Init PROVE TInv
  OBVIOUS
<1> USE DEF Init, IocInit
<1>1. MemTypeOK
  BY ConstAssumption DEF MemTypeOK, Sample, Stale
<1>2. RingTypeOK /\ RingInBounds
  BY ConstAssumption DEF RingTypeOK, RingInBounds, BufferIds, IocBuffer
<1>3. PdcTypeOK /\ LaTypeOK /\ MainTypeOK
  BY ConstAssumption DEF PdcTypeOK, LaTypeOK, MainTypeOK
<1>4. FlagTypeOK
  BY Zenon DEF FlagTypeOK
<1>5. DmaInBounds /\ TriggerKnown
  BY ConstAssumption DEF DmaInBounds, TriggerKnown
<1> QED BY <1>1, <1>2, <1>3, <1>4, <1>5 DEF TInv, TypeOK

(* TInv is kept by a step of the PDC, of the interrupt handler, of the main *)
(* program, and of the host and the user: one lemma for each.               *)
LEMMA TPdc == TInv /\ Pdc => TInv'
<1> SUFFICES ASSUME TInv, Pdc PROVE TInv'
  OBVIOUS
<1> USE DEF TInv, TypeOK, Pdc, PdcStore
<1>1. rp \in Addresses
  BY ConstAssumption DEF PdcTypeOK, DmaInBounds, Addresses
<1>2. MemTypeOK'
  BY <1>1, ConstAssumption DEF MemTypeOK, Sample
<1>3. PdcTypeOK' /\ DmaInBounds'
  BY ConstAssumption DEF PdcTypeOK, DmaInBounds
<1>4. FlagTypeOK'
  BY Zenon DEF FlagTypeOK, enVars, isrVars, laVars
<1>5. RingTypeOK' /\ LaTypeOK' /\ MainTypeOK'
  BY DEF RingTypeOK, LaTypeOK, MainTypeOK, ringVars, isrVars, laVars, mainVars
<1>6. RingInBounds' /\ TriggerKnown'
  BY DEF RingInBounds, TriggerKnown, ringVars, laVars, mainVars
<1> QED BY <1>2, <1>3, <1>4, <1>5, <1>6

(* ioc_set_next_buffer hands the PDC a buffer of the ring *)
LEMMA SetNextBufferInBounds ==
    ASSUME TInv, SetNextBuffer
    PROVE  /\ ioc_buffer_idx' \in BufferIds /\ ioc_buffer_current' \in BufferIds
           /\ PdcTypeOK' /\ DmaInBounds'
           /\ endrx' \in BOOLEAN /\ gap' \in BOOLEAN
<1> DEFINE nxt == (ioc_buffer_idx + 1) % BuffersCnt
           b   == ioc_buffers[nxt]
<1> USE DEF TInv, TypeOK
<1>1. nxt \in BufferIds
  BY ConstAssumption DEF RingTypeOK, BufferIds
<1>2. b \in IocBuffer /\ b.addr + b.size <= BufferSize
  BY <1>1 DEF RingTypeOK, RingInBounds
<1>3. b.addr \in 0 .. BufferSize /\ b.size \in 0 .. BufferSize
  BY <1>2 DEF IocBuffer
<1>4. endrx' \in BOOLEAN /\ gap' \in BOOLEAN
  BY Zenon DEF SetNextBuffer, WriteNext, FlagTypeOK, pdcVars
<1> HIDE DEF nxt, b
<1>5. CASE ioc_buffers[ioc_buffer_idx].last
  BY <1>4, <1>5 DEF SetNextBuffer, RingTypeOK, PdcTypeOK, DmaInBounds, pdcVars
<1>6. CASE ~ioc_buffers[ioc_buffer_idx].last
  <2>1. ioc_buffer_current' = ioc_buffer_idx /\ ioc_buffer_idx' = nxt /\ WriteNext(b)
    BY <1>6 DEF SetNextBuffer, nxt, b
  <2>2. PdcTypeOK' /\ DmaInBounds'
    BY ConstAssumption, <1>2, <1>3, <2>1 DEF WriteNext, PdcTypeOK, DmaInBounds
  <2> QED BY <1>1, <1>4, <2>1, <2>2 DEF RingTypeOK
<1> QED BY <1>5, <1>6

(* Every step of PIOA_Handler, the trigger search of la_acq_finished
   included, keeps the state well typed. *)
LEMMA TIsr == TInv /\ Isr => TInv'
<1> SUFFICES ASSUME TInv, Isr PROVE TInv'
  OBVIOUS
<1> USE DEF TInv, TypeOK
<1>1. CASE IsrEnter /\ UNCHANGED <<laVars, mainVars, out, trigSample>>
  <2> USE <1>1 DEF IsrEnter
  <2>1. MemTypeOK' /\ LaTypeOK' /\ MainTypeOK' /\ RingInBounds' /\ TriggerKnown'
    BY DEF MemTypeOK, LaTypeOK, MainTypeOK, RingInBounds, TriggerKnown, laVars, mainVars
  <2>2. CASE ioc_stop_acq
    <3>1. PdcTypeOK' /\ RingTypeOK' /\ DmaInBounds'
      BY <2>2 DEF PdcTypeOK, RingTypeOK, DmaInBounds, pdcVars
    <3>2. FlagTypeOK'
      BY Zenon, <2>2 DEF FlagTypeOK, pdcVars, enVars, laVars
    <3> QED BY <2>1, <3>1, <3>2
  <2>3. CASE ~ioc_stop_acq
    <3>1. SetNextBuffer
      BY <2>3
    <3>2. PdcTypeOK' /\ RingTypeOK' /\ DmaInBounds'
      BY <2>3, <3>1, SetNextBufferInBounds DEF RingTypeOK
    <3>3. endrx' \in BOOLEAN /\ gap' \in BOOLEAN
      BY <3>1, SetNextBufferInBounds
    <3>4. FlagTypeOK'
      BY Zenon, <2>3, <3>3 DEF FlagTypeOK, enVars, laVars
    <3> QED BY <2>1, <3>2, <3>4
  <2> QED BY <2>2, <2>3
<1>2. CASE IsrExit /\ UNCHANGED <<laVars, mainVars, out, trigSample>>
  <2> USE <1>2 DEF IsrExit
  <2>1. MemTypeOK' /\ LaTypeOK' /\ MainTypeOK' /\ RingInBounds' /\ TriggerKnown'
    BY DEF MemTypeOK, LaTypeOK, MainTypeOK, RingInBounds, TriggerKnown, laVars, mainVars, ringVars
  <2>2. PdcTypeOK' /\ RingTypeOK' /\ DmaInBounds'
    BY ConstAssumption DEF PdcTypeOK, RingTypeOK, BufferIds, DmaInBounds, pdcVars, ringVars
  <2>3. FlagTypeOK'
    BY Zenon DEF FlagTypeOK, pdcVars, enVars, laVars
  <2> QED BY <2>1, <2>2, <2>3
<1>3. CASE IsrHandler
  <2> USE <1>3 DEF IsrHandler
  <2>1. PdcTypeOK' /\ DmaInBounds' /\ MainTypeOK'
    BY DEF PdcTypeOK, DmaInBounds, MainTypeOK, pdcVars, mainVars
  <2>2. CASE /\ la_trig_offset # UINT_MAX
             /\ finished' = ioc_buffers[cur_buf].last
             /\ la_state' = (IF finished' THEN "ACQUIRED" ELSE la_state)
             /\ UNCHANGED <<ioc_buffers, la_trig_offset, trigSample>>
    <3>1. ioc_buffers[cur_buf].last \in BOOLEAN
      BY DEF RingTypeOK, IocBuffer
    <3>2. FlagTypeOK'
      BY Zenon, <2>2, <3>1 DEF FlagTypeOK, pdcVars, enVars
    <3>3. MemTypeOK' /\ LaTypeOK' /\ RingTypeOK' /\ RingInBounds' /\ TriggerKnown'
      BY <2>2 DEF MemTypeOK, LaTypeOK, RingTypeOK, RingInBounds, TriggerKnown, mainVars
    <3> QED BY <2>1, <3>2, <3>3
  <2>3. ASSUME NEW off \in FindTrigger(ioc_buffers[cur_buf].size), TriggerFound(off),
               la_trig_offset = UINT_MAX, finished' = FALSE, UNCHANGED la_state
        PROVE  TInv'
    <3> DEFINE b == ioc_buffers[cur_buf]
    <3>1. b \in IocBuffer /\ b.addr + b.size <= BufferSize
      BY DEF RingTypeOK, RingInBounds
    <3>2. b.addr \in 0 .. BufferSize /\ b.size \in 0 .. BufferSize
      BY <3>1 DEF IocBuffer
    <3>3. FlagTypeOK'
      BY Zenon, <2>3 DEF FlagTypeOK, pdcVars, enVars
    <3>4. CASE off # UINT_MAX /\ la_trigger_mask
      <4>1. off \in 0 .. b.size - 1
        BY <2>3, <3>4 DEF FindTrigger
      <4>2. /\ la_trig_offset' = b.addr + off
            /\ ioc_buffers' = [ioc_buffers EXCEPT ![cur_buf].size = off, ![cur_buf].last = TRUE]
            /\ trigSample' = mem[b.addr + off].n
        BY <2>3, <3>4 DEF TriggerFound
      <4> HIDE DEF b
      <4>3. la_trig_offset' \in Addresses
        BY ConstAssumption, <3>1, <3>2, <4>1, <4>2 DEF Addresses
      <4>4. off \in 0 .. BufferSize
        BY ConstAssumption, <3>2, <4>1
      <4>5. RingTypeOK'
        BY <4>2, <4>4 DEF RingTypeOK, IocBuffer
      <4>6. RingInBounds'
        BY ConstAssumption, <3>1, <3>2, <4>1, <4>2 DEF RingTypeOK, RingInBounds, b, IocBuffer
      <4>7. MemTypeOK'
        BY <4>2, <4>3 DEF MemTypeOK, Sample
      <4>8. LaTypeOK' /\ TriggerKnown'
        BY <2>3, <4>3 DEF LaTypeOK, TriggerKnown, UINT_MAX, Addresses
      <4> QED BY <2>1, <3>3, <4>5, <4>6, <4>7, <4>8
    <3>5. CASE ~(off # UINT_MAX /\ la_trigger_mask)
      <4>1. off \in {0, UINT_MAX}
        BY <2>3, <3>5 DEF FindTrigger
      <4>2. la_trig_offset' = off /\ UNCHANGED ioc_buffers
        BY <2>3, <3>5 DEF TriggerFound
      <4>3. 0 \in Addresses
        BY ConstAssumption DEF Addresses
      <4>4. MemTypeOK'
        BY <2>3, <4>1, <4>2, <4>3 DEF TriggerFound, MemTypeOK, Sample
      <4>5. RingTypeOK' /\ RingInBounds'
        BY <4>2 DEF RingTypeOK, RingInBounds
      <4>6. LaTypeOK' /\ TriggerKnown'
        BY <2>3, <4>1, <4>2, <4>3 DEF LaTypeOK, TriggerKnown, mainVars
      <4> QED BY <2>1, <3>3, <4>4, <4>5, <4>6
    <3> QED BY <3>4, <3>5
  <2> QED BY <2>2, <2>3 DEF la_acq_finished
<1> QED BY <1>1, <1>2, <1>3 DEF Isr

(* What is sent or drawn is made of samples *)
LEMMA DeliveredType ==
    ASSUME TypeOK, la_trig_offset \in Addresses
    PROVE  /\ la_usb_send(la_trig_offset, la_read_cnt) \in Seq(Sample)
           /\ la_display_acq(la_trig_offset) \in Seq(Sample)
<1> USE ConstAssumption, LaAssumption DEF TypeOK
<1>1. ASSUME NEW addr \in Nat, NEW size \in Nat, addr + size <= BufferSize
      PROVE  Reverted(addr, size) \in Seq(Sample)
  <2>1. \A i \in 1 .. size : addr + size - i \in Addresses
    BY <1>1 DEF Addresses
  <2>2. \A i \in 1 .. size : mem[addr + size - i] \in Sample
    BY <2>1 DEF MemTypeOK
  <2> QED BY <2>2 DEF Reverted
<1>2. la_trig_offset \in Nat /\ la_read_cnt \in Nat /\ la_trig_offset < BufferSize
      /\ la_read_cnt <= BufferSize /\ BufferSize \in Nat
  BY DEF LaTypeOK, Addresses
<1>3. la_usb_send(la_trig_offset, la_read_cnt) \in Seq(Sample)
  <2>1. CASE la_trig_offset + la_read_cnt <= BufferSize
    BY <1>1, <1>2, <2>1 DEF la_usb_send
  <2>2. CASE ~(la_trig_offset + la_read_cnt <= BufferSize)
    <3> DEFINE s1 == la_read_cnt - (BufferSize - la_trig_offset)
               s2 == BufferSize - la_trig_offset
    <3>1. s1 \in Nat /\ s2 \in Nat /\ 0 + s1 <= BufferSize /\ la_trig_offset + s2 <= BufferSize
      BY <1>2, <2>2
    <3>2. la_usb_send(la_trig_offset, la_read_cnt) = Reverted(0, s1) \o Reverted(la_trig_offset, s2)
      BY <2>2 DEF la_usb_send
    <3> HIDE DEF s1, s2
    <3>3. Reverted(0, s1) \in Seq(Sample) /\ Reverted(la_trig_offset, s2) \in Seq(Sample)
      BY <1>1, <1>2, <3>1
    <3> QED BY <3>2, <3>3
  <2> QED BY <2>1, <2>2
<1>4. la_display_acq(la_trig_offset) \in Seq(Sample)
  <2>1. \A x \in 1 .. LcdWidth : (la_trig_offset + x - 1) % BufferSize \in Addresses
    BY <1>2 DEF Addresses
  <2>2. \A x \in 1 .. LcdWidth : mem[(la_trig_offset + x - 1) % BufferSize] \in Sample
    BY <2>1 DEF MemTypeOK
  <2>3. LcdWidth \in Nat
    OBVIOUS
  <2> QED BY <2>2, <2>3 DEF la_display_acq
<1> QED BY <1>3, <1>4

(* The PDC has nothing to write between acquisitions and until ioc_start    *)
(* gives it a count; it gets the count with the pointer already in place    *)
Idle ==
    /\ ~busy \/ pc \in {"run", "current", "count"} => RxBuff
    /\ pc = "count" => rp = ioc_buffers[0].addr

(* Every step of the application loop keeps the state well typed: in
   particular the sizes la_start_acq computes stay inside the buffer, and
   the two stores of ioc_start find the PDC idle. *)
LEMMA TMain == TInv /\ Idle /\ Main => TInv'
<1> SUFFICES ASSUME TInv, Idle, Main PROVE TInv'
  OBVIOUS
<1> USE DEF TInv, TypeOK, Goto
<1>1. CASE la_start_acq
  <2> USE <1>1
  <2>1. CASE la_state # "IDLE" /\ Goto("start", ret)
             /\ UNCHANGED <<iocVars, laVars, app, ret, out, trigSample>>
    <3> USE <2>1 DEF iocVars, pdcVars, enVars, ringVars, isrVars, laVars
    <3>1. MemTypeOK' /\ PdcTypeOK' /\ RingTypeOK' /\ LaTypeOK' /\ MainTypeOK'
      BY DEF MemTypeOK, PdcTypeOK, RingTypeOK, LaTypeOK, MainTypeOK
    <3>2. FlagTypeOK'
      BY Zenon DEF FlagTypeOK
    <3>3. DmaInBounds' /\ RingInBounds' /\ TriggerKnown'
      BY DEF DmaInBounds, RingInBounds, TriggerKnown, MainTypeOK
    <3> QED BY <3>1, <3>2, <3>3
  <2>2. CASE ~(la_state # "IDLE")
    <3> USE <2>2 DEF la_start_acq
    <3>1. RingTypeOK' /\ RingInBounds'
      BY StartRingInBounds DEF RingTypeOK, RingInBounds, isrVars
    <3>2. MemTypeOK'
      <4>1. mem' \in [Addresses -> Sample]
        <5>1. [n |-> Stale, fixed |-> FALSE] \in Sample
          BY DEF Sample
        <5> QED BY <5>1
      <4>2. seq' \in 0 .. SeqMod - 1 /\ trigSample' = Stale /\ out' = out
        BY ConstAssumption
      <4> QED BY <4>1, <4>2 DEF MemTypeOK
    <3>3. PdcTypeOK' /\ LaTypeOK' /\ MainTypeOK' /\ DmaInBounds' /\ TriggerKnown'
      BY DEF PdcTypeOK, LaTypeOK, MainTypeOK, DmaInBounds, TriggerKnown, pdcVars
    <3>4. FlagTypeOK'
      BY Zenon DEF FlagTypeOK, pdcVars, enVars, isrVars
    <3> QED BY <3>1, <3>2, <3>3, <3>4
  <2> QED BY <2>1, <2>2 DEF la_start_acq
<1>2. CASE StartRun
  <2> USE <1>2 DEF StartRun, StartBookkeeping
  <2>1. MemTypeOK' /\ PdcTypeOK' /\ RingTypeOK' /\ LaTypeOK' /\ MainTypeOK'
    BY ConstAssumption DEF MemTypeOK, PdcTypeOK, RingTypeOK, LaTypeOK, MainTypeOK, BufferIds, pdcVars, isrVars
  <2>2. FlagTypeOK'
    BY Zenon DEF FlagTypeOK, pdcVars, enVars, isrVars
  <2>3. DmaInBounds' /\ RingInBounds' /\ TriggerKnown'
    BY DEF DmaInBounds, RingInBounds, TriggerKnown, pdcVars
  <2> QED BY <2>1, <2>2, <2>3
<1>3. CASE ioc_start
  <2>0. ioc_buffers[0] \in IocBuffer /\ ioc_buffers[0].addr + ioc_buffers[0].size <= BufferSize
    <3>1. 0 \in BufferIds
      BY ConstAssumption DEF BufferIds
    <3> QED BY <3>1 DEF RingTypeOK, RingInBounds
  <2>1. CASE Goto("current", "count") /\ StartPointer /\ UNCHANGED <<laVars, app, ret, out, trigSample>>
    <3> USE <2>1 DEF StartPointer
    <3>1. rc = 0
      BY DEF Idle, RxBuff
    <3>2. PdcTypeOK' /\ DmaInBounds'
      BY <2>0, <3>1 DEF PdcTypeOK, DmaInBounds, IocBuffer
    <3>3. FlagTypeOK'
      BY Zenon DEF FlagTypeOK, enVars, isrVars, laVars
    <3>4. MemTypeOK' /\ RingTypeOK' /\ LaTypeOK' /\ MainTypeOK' /\ RingInBounds' /\ TriggerKnown'
      BY DEF MemTypeOK, RingTypeOK, LaTypeOK, MainTypeOK, RingInBounds, TriggerKnown,
         ringVars, isrVars, laVars
    <3> QED BY <3>2, <3>3, <3>4
  <2>2. CASE Goto("count", "next") /\ StartCount /\ UNCHANGED <<laVars, app, ret, out, trigSample>>
    <3> USE <2>2 DEF StartCount
    <3>1. rp = ioc_buffers[0].addr
      BY DEF Idle
    <3>2. PdcTypeOK' /\ DmaInBounds'
      BY <2>0, <3>1 DEF PdcTypeOK, DmaInBounds, IocBuffer
    <3>3. FlagTypeOK'
      BY Zenon DEF FlagTypeOK, enVars, isrVars, laVars
    <3>4. MemTypeOK' /\ RingTypeOK' /\ LaTypeOK' /\ MainTypeOK' /\ RingInBounds' /\ TriggerKnown'
      BY DEF MemTypeOK, RingTypeOK, LaTypeOK, MainTypeOK, RingInBounds, TriggerKnown,
         ringVars, isrVars, laVars
    <3> QED BY <3>2, <3>3, <3>4
  <2>3. CASE Goto("next", "irq") /\ StartNext /\ UNCHANGED <<laVars, app, ret, out, trigSample>>
    <3> USE <2>3 DEF StartNext
    <3>1. PdcTypeOK' /\ DmaInBounds' /\ RingTypeOK' /\ endrx' \in BOOLEAN /\ gap' \in BOOLEAN
      BY SetNextBufferInBounds DEF RingTypeOK, isrVars
    <3>2. FlagTypeOK'
      BY Zenon, <3>1 DEF FlagTypeOK, enVars, isrVars, laVars
    <3>3. MemTypeOK' /\ LaTypeOK' /\ MainTypeOK' /\ RingInBounds' /\ TriggerKnown'
      BY DEF MemTypeOK, LaTypeOK, MainTypeOK, RingInBounds, TriggerKnown, laVars
    <3> QED BY <3>1, <3>2, <3>3
  <2>4. ASSUME NEW dev, NEW to, NEW fr, Goto(fr, to), to \in {"rxten", "clk", "loop", "acq"},
               Enable(dev), UNCHANGED <<laVars, app, ret, out, trigSample>>
        PROVE  TInv'
    <3> USE <2>4 DEF Enable
    <3>1. FlagTypeOK'
      BY Zenon DEF FlagTypeOK, pdcVars, isrVars, laVars
    <3>2. MemTypeOK' /\ PdcTypeOK' /\ RingTypeOK' /\ LaTypeOK' /\ MainTypeOK'
      BY DEF MemTypeOK, PdcTypeOK, RingTypeOK, LaTypeOK, MainTypeOK, pdcVars, ringVars, isrVars, laVars
    <3>3. DmaInBounds' /\ RingInBounds' /\ TriggerKnown'
      BY DEF DmaInBounds, RingInBounds, TriggerKnown, pdcVars, ringVars, laVars
    <3> QED BY <3>1, <3>2, <3>3
  <2>5. ret \in {"loop", "acq"}
    BY DEF MainTypeOK
  <2> QED BY <1>3, <2>1, <2>2, <2>3, <2>4, <2>5 DEF ioc_start
<1>4. CASE ioc_stop
  <2> USE <1>4 DEF ioc_stop, SetStop
  <2>1. FlagTypeOK'
    BY Zenon DEF FlagTypeOK, iocVars, pdcVars, enVars, isrVars, laVars
  <2>2. MemTypeOK' /\ PdcTypeOK' /\ RingTypeOK' /\ LaTypeOK' /\ MainTypeOK'
    BY DEF MemTypeOK, PdcTypeOK, RingTypeOK, LaTypeOK, MainTypeOK, iocVars, pdcVars, ringVars, isrVars, laVars
  <2>3. DmaInBounds' /\ RingInBounds' /\ TriggerKnown'
    BY DEF DmaInBounds, RingInBounds, TriggerKnown, iocVars, pdcVars, ringVars, laVars
  <2> QED BY <2>1, <2>2, <2>3
<1>5. CASE la_fix_channels
  <2> USE <1>5 DEF la_fix_channels
  <2>1. MemTypeOK'
    BY DEF MemTypeOK, Fixed, Sample
  <2>2. FlagTypeOK'
    BY Zenon DEF FlagTypeOK, pdcVars, enVars, isrVars, laVars
  <2>3. PdcTypeOK' /\ RingTypeOK' /\ LaTypeOK' /\ MainTypeOK'
    BY DEF PdcTypeOK, RingTypeOK, LaTypeOK, MainTypeOK, pdcVars, ringVars, isrVars, laVars
  <2>4. DmaInBounds' /\ RingInBounds' /\ TriggerKnown'
    BY DEF DmaInBounds, RingInBounds, TriggerKnown, pdcVars, ringVars, laVars
  <2> QED BY <2>1, <2>2, <2>3, <2>4
<1>6. CASE Deliver
  <2> USE <1>6 DEF Deliver
  <2>1. la_trig_offset \in Addresses
    BY DEF TriggerKnown, LaTypeOK
  <2>2. MemTypeOK'
    BY <2>1, DeliveredType DEF MemTypeOK, iocVars
  <2>3. FlagTypeOK'
    BY Zenon DEF FlagTypeOK, iocVars, pdcVars, enVars, isrVars, laVars
  <2>4. PdcTypeOK' /\ RingTypeOK' /\ LaTypeOK' /\ MainTypeOK'
    BY DEF PdcTypeOK, RingTypeOK, LaTypeOK, MainTypeOK, iocVars, pdcVars, ringVars, isrVars, laVars
  <2>5. DmaInBounds' /\ RingInBounds' /\ TriggerKnown'
    BY DEF DmaInBounds, RingInBounds, TriggerKnown, iocVars, pdcVars, ringVars, laVars
  <2> QED BY <2>2, <2>3, <2>4, <2>5
<1>7. CASE ResetWait \/ Delivered \/ Strange \/ Poll
  <2> USE <1>7 DEF ResetWait, Delivered, Strange, Poll
  <2>1. FlagTypeOK'
    BY Zenon DEF FlagTypeOK, iocVars, pdcVars, enVars, isrVars, laVars
  <2>2. PdcTypeOK' /\ RingTypeOK'
    BY DEF PdcTypeOK, RingTypeOK, iocVars, pdcVars, ringVars, isrVars
  <2>3. MemTypeOK'
    <3>1. UNCHANGED <<mem, seq, trigSample>> /\ (out' = out \/ out' = <<>>)
      BY DEF iocVars
    <3>2. <<>> \in Seq(Sample)
      OBVIOUS
    <3>3. out' \in Seq(Sample)
      BY <3>1, <3>2 DEF MemTypeOK
    <3> QED BY <3>1, <3>3 DEF MemTypeOK
  <2>4. LaTypeOK' /\ MainTypeOK'
    BY DEF LaTypeOK, MainTypeOK, laVars
  <2>5. DmaInBounds' /\ RingInBounds' /\ TriggerKnown'
    BY DEF DmaInBounds, RingInBounds, TriggerKnown, iocVars, pdcVars, ringVars, laVars
  <2> QED BY <2>1, <2>2, <2>3, <2>4, <2>5
<1> QED BY <1>1, <1>2, <1>3, <1>4, <1>5, <1>6, <1>7 DEF Main, Start

(* Entering and leaving an application keeps the state well typed. *)
LEMMA TUser == TInv /\ User => TInv'
<1> SUFFICES ASSUME TInv, User PROVE TInv'
  OBVIOUS
<1> USE DEF TInv, TypeOK, Goto
<1>1. CASE cmd_sump
  <2> USE <1>1 DEF cmd_sump, SetClock
  <2>1. FlagTypeOK'
    BY Zenon DEF FlagTypeOK, iocVars, pdcVars, enVars, isrVars, laVars
  <2>2. MemTypeOK' /\ PdcTypeOK' /\ RingTypeOK' /\ MainTypeOK'
    BY DEF MemTypeOK, PdcTypeOK, RingTypeOK, MainTypeOK, iocVars, pdcVars, ringVars, isrVars, laVars
  <2>3. LaTypeOK' /\ DmaInBounds' /\ RingInBounds' /\ TriggerKnown'
    BY LaAssumption DEF LaTypeOK, DmaInBounds, RingInBounds, TriggerKnown, iocVars, pdcVars, ringVars, laVars
  <2> QED BY <2>1, <2>2, <2>3
<1>2. CASE EnterUsb \/ EnterLcd \/ Exit
  <2> USE <1>2 DEF EnterUsb, EnterLcd, Exit, SetClock
  <2>1. FlagTypeOK'
    BY Zenon DEF FlagTypeOK, iocVars, pdcVars, enVars, isrVars, laVars
  <2>2. MemTypeOK' /\ PdcTypeOK' /\ RingTypeOK' /\ MainTypeOK'
    BY DEF MemTypeOK, PdcTypeOK, RingTypeOK, MainTypeOK, iocVars, pdcVars, ringVars, isrVars, laVars
  <2>3. LaTypeOK' /\ DmaInBounds' /\ RingInBounds' /\ TriggerKnown'
    BY ConstAssumption, LaAssumption DEF LaTypeOK, DmaInBounds, RingInBounds, TriggerKnown, iocVars, pdcVars, ringVars, laVars
  <2> QED BY <2>1, <2>2, <2>3
<1> QED BY <1>1, <1>2 DEF User

(* The type invariant depends on nothing but the variables of the
   specification. *)
LEMMA TStutter == TInv /\ UNCHANGED vars => TInv'
<1> SUFFICES ASSUME TInv, UNCHANGED vars PROVE TInv'
  OBVIOUS
<1> USE DEF TInv, TypeOK, vars, iocVars, pdcVars, enVars, ringVars, isrVars, laVars, mainVars
<1>1. FlagTypeOK'
  BY Zenon DEF FlagTypeOK
<1>2. MemTypeOK' /\ PdcTypeOK' /\ RingTypeOK' /\ LaTypeOK' /\ MainTypeOK'
  BY DEF MemTypeOK, PdcTypeOK, RingTypeOK, LaTypeOK, MainTypeOK
<1>3. DmaInBounds' /\ RingInBounds' /\ TriggerKnown'
  BY DEF DmaInBounds, RingInBounds, TriggerKnown
<1> QED BY <1>1, <1>2, <1>3

-----------------------------------------------------------------------------
(***************************************************************************)
(* When the main program sees an acquisition complete, the PDC has nothing *)
(* left to write (WindowStable), for every size of the buffer and of the   *)
(* ring, for settings changed at any time, a handler that is late by any   *)
(* amount and applications left during an acquisition.                     *)
(*                                                                         *)
(* The argument: the index of the buffer that is filled and the index of   *)
(* the one after it stay one apart until the last buffer is reached; from  *)
(* then on ioc_set_next_buffer supplies nothing, so the interrupt that     *)
(* reports the last buffer stays pending, and keeps the main program out,  *)
(* until the handler finds the PDC dry and stops it.  So an acquisition    *)
(* starts only when the one before it is over, and the PDC idle, which is  *)
(* also what keeps the DMA in the sample buffer (Idle).                    *)
(***************************************************************************)
Last(i) == ioc_buffers[i].last

(* The driver has supplied its last buffer *)
AtLast == ioc_buffer_current = ioc_buffer_idx /\ Last(ioc_buffer_idx)

Chained ==
    irq \/ pc = "irq" =>
        AtLast \/ (ioc_buffer_idx # ioc_buffer_current /\ ~Last(ioc_buffer_current))

(* The buffer the handler reports is the last one only if the interrupt    *)
(* stays pending                                                           *)
Reported ==
    isr = "handler" =>
        \/ AtLast /\ cur_buf = ioc_buffer_idx /\ IrqPending
        \/ cur_buf # ioc_buffer_current /\ ~Last(cur_buf)

Silent == ~irq /\ ~busy /\ RxBuff

Acquired ==
    la_state = "ACQUIRED" =>
        \/ Silent
        \/ AtLast /\ IrqPending /\ (isr = "handler" => cur_buf = ioc_buffer_idx)

(* Where the main program is while the capture is idle, being started, and *)
(* complete                                                                *)
Phases ==
    /\ irq => busy
    /\ isr # "off" => irq
    /\ la_state = "IDLE" => ~busy
    /\ pc = "run" => la_state = "IDLE"
    /\ pc \in {"current", "count", "next", "irq"} => la_state = "RUNNING" /\ busy /\ ~irq
    /\ pc \in {"fix", "deliver", "delivered"} => la_state = "ACQUIRED" /\ ~irq

WInv == TInv /\ Chained /\ Reported /\ Acquired /\ Phases /\ Idle

(* The firmware starts with the strengthening true: no buffer is chained. *)
LEMMA WInit == Init => WInv
<1>1. Init => TInv
  BY TInit
<1>2. Init => Chained /\ Reported /\ Acquired /\ Phases /\ Idle
  BY DEF Init, IocInit, Chained, Reported, Acquired, Phases, Idle, RxBuff
<1> QED BY <1>1, <1>2 DEF WInv

(* Two buffers or more: the next buffer is another one *)
LEMMA NextDiffers ==
    ASSUME NEW i \in BufferIds
    PROVE  (i + 1) % BuffersCnt # i
<1>1. BuffersCnt \in Nat /\ BuffersCnt > 1 /\ i \in Nat /\ i < BuffersCnt
  BY ConstAssumption DEF BufferIds
<1>2. CASE i + 1 < BuffersCnt
  BY <1>1, <1>2
<1>3. CASE i + 1 = BuffersCnt
  BY <1>1, <1>3
<1> QED BY <1>1, <1>2, <1>3

(* ioc_set_next_buffer leaves the indexes chained, and changes nothing once *)
(* the last buffer has been supplied                                        *)
LEMMA SetNextChains ==
    ASSUME TypeOK, SetNextBuffer, UNCHANGED ioc_buffers
    PROVE  /\ AtLast' \/ (ioc_buffer_idx' # ioc_buffer_current' /\ ~Last(ioc_buffer_current)')
           /\ ioc_buffer_current' = ioc_buffer_idx
           /\ AtLast => AtLast' /\ UNCHANGED <<ioc_buffer_idx, pdcVars>>
  BY NextDiffers DEF SetNextBuffer, AtLast, Last, TypeOK, RingTypeOK

(* The capture DMA storing a sample, or moving on to its next buffer, keeps
   the strengthening: the last buffer of the chain stays the last. *)
LEMMA WPdc == ASSUME WInv, Pdc PROVE WInv'
<1> USE DEF WInv, Pdc, PdcStore
<1>1. TInv'
  BY TPdc
<1>2. /\ UNCHANGED <<irq, busy, isr, cur_buf, ioc_buffers, ioc_buffer_idx, ioc_buffer_current>>
      /\ UNCHANGED <<pc, la_state>>
  BY DEF enVars, ringVars, isrVars, laVars, mainVars
<1>3. ~RxBuff /\ (endrx => endrx')
  BY DEF RxBuff, TInv, TypeOK, PdcTypeOK
<1>4. IrqPending => IrqPending'
  BY <1>2, <1>3 DEF IrqPending
<1>5. Chained' /\ Phases' /\ Idle'
  BY <1>2, <1>3 DEF Chained, Phases, Idle, AtLast, Last
<1>6. Reported' /\ Acquired'
  BY <1>2, <1>3, <1>4 DEF Reported, Acquired, AtLast, Last, Silent
<1> QED BY <1>1, <1>5, <1>6

(* PIOA_Handler keeps the strengthening. The steps that matter are the one
   that supplies another buffer, the one that declares the acquisition
   complete (la_acq_finished), and the one that stops the capture. *)
LEMMA WIsr == ASSUME WInv, Isr PROVE WInv'
<1> USE DEF WInv
<1>1. TInv' /\ Idle'
  <2>1. TInv'
    BY TIsr
  <2>2. irq /\ busy /\ pc \notin {"run", "current", "count"}
    BY DEF Isr, IsrEnter, IsrExit, IsrHandler, IrqPending, Phases
  <2>3. Idle'
    BY <2>2 DEF Isr, IsrEnter, IsrExit, IsrHandler, Idle, RxBuff, pdcVars, mainVars
  <2> QED BY <2>1, <2>3
<1>2. CASE IsrEnter /\ UNCHANGED <<laVars, mainVars, out, trigSample>>
  <2> USE <1>2 DEF IsrEnter
  <2>1. irq /\ irq' /\ isr' # "off" /\ UNCHANGED <<busy, ioc_buffers, pc, la_state>>
    BY DEF IrqPending, enVars, laVars, mainVars
  <2>2. Phases'
    BY <2>1 DEF Phases
  <2>3. CASE ioc_stop_acq
    <3>1. isr' = "status" /\ UNCHANGED <<rc, rnc, endrx, irq, ioc_buffer_idx, ioc_buffer_current>>
      BY <2>3 DEF pdcVars, enVars
    <3>2. Chained' /\ Reported'
      BY <2>1, <3>1 DEF Chained, Reported, AtLast, Last
    <3>3. Acquired'
      BY <2>1, <3>1 DEF Acquired, AtLast, Last, IrqPending, RxBuff, Silent
    <3> QED BY <1>1, <2>2, <3>2, <3>3
  <2>4. CASE ~ioc_stop_acq
    <3>1. SetNextBuffer /\ cur_buf' = ioc_buffer_current
      BY <2>4
    <3>2. /\ AtLast' \/ (ioc_buffer_idx' # ioc_buffer_current' /\ ~Last(ioc_buffer_current)')
          /\ ioc_buffer_current' = ioc_buffer_idx
          /\ AtLast => AtLast' /\ UNCHANGED <<ioc_buffer_idx, pdcVars>>
      BY <2>1, <3>1, SetNextChains DEF TInv
    <3>3. AtLast \/ (ioc_buffer_idx # ioc_buffer_current /\ ~Last(ioc_buffer_current))
      BY <2>1 DEF Chained
    <3>4. AtLast => IrqPending'
      BY <3>2 DEF IrqPending, RxBuff, pdcVars, enVars
    <3>5. Chained'
      BY <3>2 DEF Chained
    <3>6. Reported'
      BY <2>1, <3>1, <3>2, <3>3, <3>4 DEF Reported, AtLast, Last
    <3>7. Acquired'
      BY <2>1, <3>1, <3>2, <3>4 DEF Acquired, Silent, AtLast
    <3> QED BY <1>1, <2>2, <3>5, <3>6, <3>7
  <2> QED BY <2>3, <2>4
<1>3. CASE IsrExit /\ UNCHANGED <<laVars, mainVars, out, trigSample>>
  <2> USE <1>3 DEF IsrExit
  <2>1. isr' = "off" /\ UNCHANGED <<rc, rnc, endrx, ioc_buffers, ioc_buffer_idx, ioc_buffer_current>>
        /\ UNCHANGED <<pc, la_state>>
    BY DEF pdcVars, ringVars, laVars, mainVars
  <2>2. (finished /\ RxBuff /\ ~irq' /\ ~busy') \/ UNCHANGED <<irq, busy>>
    BY DEF enVars
  <2>3. Reported'
    BY <2>1 DEF Reported
  <2>4. Chained' /\ Phases'
    BY <2>1, <2>2 DEF Chained, Phases, AtLast, Last
  <2>5. Acquired'
    BY <2>1, <2>2 DEF Acquired, AtLast, Last, Silent, RxBuff, IrqPending
  <2> QED BY <1>1, <2>3, <2>4, <2>5
<1>4. CASE IsrHandler
  <2> USE <1>4 DEF IsrHandler
  <2>1. isr = "handler" /\ isr' = "status"
        /\ UNCHANGED <<rc, rnc, endrx, irq, busy, ioc_buffer_idx, ioc_buffer_current, cur_buf, pc>>
    BY DEF pdcVars, enVars, mainVars
  <2>2. irq /\ la_state # "IDLE"
    BY <2>1 DEF Phases
  <2>3. Reported'
    BY <2>1 DEF Reported
  <2>4. CASE /\ la_trig_offset # UINT_MAX
             /\ finished' = Last(cur_buf)
             /\ la_state' = (IF finished' THEN "ACQUIRED" ELSE la_state)
             /\ UNCHANGED <<ioc_buffers, la_trig_offset, trigSample>>
    <3>1. Chained' /\ Phases'
      BY <2>1, <2>2, <2>4 DEF Chained, Phases, AtLast, Last
    <3>2. Last(cur_buf) => AtLast /\ cur_buf = ioc_buffer_idx /\ IrqPending
      BY <2>1 DEF Reported
    <3>3. la_state = "ACQUIRED" => AtLast /\ IrqPending
      BY <2>2 DEF Acquired, Silent
    <3>4. la_state' = "ACQUIRED" => AtLast /\ IrqPending
      BY <2>4, <3>2, <3>3
    <3>5. Acquired'
      BY <2>1, <2>4, <3>4 DEF Acquired, AtLast, Last, IrqPending, RxBuff
    <3> QED BY <1>1, <2>3, <3>1, <3>5
  <2>5. ASSUME NEW off, TriggerFound(off), la_trig_offset = UINT_MAX, UNCHANGED la_state
        PROVE  WInv'
    <3>1. la_state # "ACQUIRED"
      BY <2>5 DEF TInv, TriggerKnown
    <3>2. Acquired'
      BY <2>5, <3>1 DEF Acquired
    <3>3. Phases'
      BY <2>1, <2>2, <2>5 DEF Phases
    <3>4. \A i \in BufferIds : Last(i)' = Last(i) \/ (i = cur_buf /\ Last(i)')
      <4>1. CASE UNCHANGED ioc_buffers
        BY <4>1 DEF Last
      <4>2. CASE ioc_buffers' = [ioc_buffers EXCEPT ![cur_buf].size = off, ![cur_buf].last = TRUE]
        <5>1. ASSUME NEW i \in BufferIds, i # cur_buf
              PROVE  ioc_buffers'[i] = ioc_buffers[i]
          BY <4>2, <5>1 DEF TInv, TypeOK, RingTypeOK
        <5>2. ioc_buffers'[cur_buf].last
          BY <4>2 DEF TInv, TypeOK, RingTypeOK, IocBuffer
        <5> QED BY <5>1, <5>2 DEF Last
      <4> QED BY <2>5, <4>1, <4>2 DEF TriggerFound
    <3>5. Chained'
      BY <2>1, <3>4 DEF Chained, Reported, AtLast, TInv, TypeOK, RingTypeOK
    <3> QED BY <1>1, <2>3, <3>2, <3>3, <3>5
  <2> QED BY <2>4, <2>5 DEF la_acq_finished, Last
<1> QED BY <1>2, <1>3, <1>4 DEF Isr

(* While the main program runs, a finished acquisition is Silent *)
LEMMA SeenComplete == WInv /\ MainMayRun /\ la_state = "ACQUIRED" => Silent
  BY DEF WInv, Acquired, MainMayRun

(* The main program hands the PDC a count only while it starts a capture *)
LEMMA IdleMain == ASSUME WInv, Main PROVE Idle'
<1> USE DEF WInv, Goto, Idle, RxBuff
<1>1. ret \in {"loop", "acq"}
  BY DEF TInv, TypeOK, MainTypeOK
<1>2. CASE la_start_acq
  BY <1>1, <1>2 DEF la_start_acq, Phases, iocVars, pdcVars
<1>3. CASE StartRun
  BY <1>3 DEF StartRun, StartBookkeeping, pdcVars
<1>4. CASE ioc_start
  BY <1>1, <1>4 DEF ioc_start, StartPointer, StartCount, StartNext, Enable, Phases, pdcVars, ringVars
<1>5. CASE ioc_stop \/ ResetWait \/ la_fix_channels \/ Deliver \/ Delivered \/ Poll \/ Strange
  BY <1>5 DEF ioc_stop, SetStop, ResetWait, la_fix_channels, Deliver, Delivered, Poll, Strange,
     iocVars, pdcVars
<1> QED BY <1>2, <1>3, <1>4, <1>5 DEF Main, Start

(* The application loop keeps the strengthening: starting an acquisition,
   RESET, settings, fixing and sending the samples. *)
LEMMA WMain == ASSUME WInv, Main PROVE WInv'
<1> USE DEF WInv, Goto
<1>1. TInv' /\ Idle'
  BY TMain, IdleMain
<1>2. CASE la_start_acq
  BY <1>1, <1>2 DEF la_start_acq, Chained, Reported, Acquired, Phases, AtLast, Last, Silent,
     IrqPending, RxBuff, MainMayRun, iocVars, pdcVars, enVars, ringVars, isrVars, laVars, TInv, TypeOK, MainTypeOK
<1>3. CASE StartRun
  BY <1>1, <1>3 DEF StartRun, StartBookkeeping, Chained, Reported, Acquired, Phases,
     MainMayRun, enVars, isrVars
<1>4. CASE ioc_start
  <2>1. CASE \/ Goto("current", "count") /\ StartPointer /\ UNCHANGED <<laVars, app, ret, out, trigSample>>
             \/ Goto("count", "next") /\ StartCount /\ UNCHANGED <<laVars, app, ret, out, trigSample>>
    BY <1>1, <2>1 DEF StartPointer, StartCount, Chained, Reported, Acquired, Phases, MainMayRun,
       enVars, isrVars, laVars
  <2>2. CASE Goto("next", "irq") /\ StartNext /\ UNCHANGED <<laVars, app, ret, out, trigSample>>
    <3>1. UNCHANGED <<irq, busy, isr, la_state, ioc_buffers>> /\ SetNextBuffer
      BY <2>2 DEF StartNext, enVars, isrVars, laVars
    <3>2. Chained'
      BY <3>1, SetNextChains DEF Chained, TInv
    <3>3. Reported' /\ Acquired' /\ Phases'
      BY <2>2, <3>1 DEF Reported, Acquired, Phases, MainMayRun
    <3> QED BY <1>1, <3>2, <3>3
  <2>3. CASE Goto("irq", "rxten") /\ Enable("irq") /\ UNCHANGED <<laVars, app, ret, out, trigSample>>
    <3>1. irq' /\ pc' = "rxten" /\ la_state = "RUNNING"
          /\ UNCHANGED <<busy, isr, la_state, ioc_buffers, ioc_buffer_idx, ioc_buffer_current>>
      BY <2>3 DEF Enable, Phases, ringVars, isrVars, laVars
    <3>2. Chained' /\ Reported' /\ Acquired' /\ Phases'
      BY <2>3, <3>1 DEF Chained, Reported, Acquired, Phases, MainMayRun, AtLast, Last
    <3> QED BY <1>1, <3>2
  <2>4. ASSUME NEW dev \in {"rxten", "clk"}, NEW to, Goto(dev, to),
               to \in {"clk", "loop", "acq"}, Enable(dev),
               UNCHANGED <<laVars, app, ret, out, trigSample>>
        PROVE  WInv'
    <3>1. UNCHANGED <<rc, rnc, busy, isr, la_state, ioc_buffers, ioc_buffer_idx, ioc_buffer_current>>
      BY <2>4 DEF Enable, pdcVars, ringVars, isrVars, laVars
    <3>2. irq' <=> irq
      BY <2>4 DEF Enable
    <3>3. isr = "off" /\ (la_state = "ACQUIRED" => Silent)
      BY <2>4, SeenComplete DEF MainMayRun
    <3>4. Chained' /\ Reported' /\ Phases'
      BY <2>4, <3>1, <3>2, <3>3 DEF Chained, Reported, Phases, AtLast, Last
    <3>5. Acquired'
      BY <3>1, <3>2, <3>3 DEF Acquired, Silent, RxBuff
    <3> QED BY <1>1, <3>4, <3>5
  <2>5. ret \in {"loop", "acq"}
    BY DEF TInv, TypeOK, MainTypeOK
  <2> QED BY <1>4, <2>1, <2>2, <2>3, <2>4, <2>5 DEF ioc_start
<1>5. ASSUME UNCHANGED <<irq, busy, isr, cur_buf, rc, rnc, endrx>>,
             UNCHANGED <<ioc_buffers, ioc_buffer_idx, ioc_buffer_current>>,
             isr = "off", la_state = "ACQUIRED" => Silent,
             la_state' # la_state => la_state' = "IDLE" /\ ~busy,
             pc' \in {"fix", "deliver", "delivered"} => la_state' = "ACQUIRED",
             pc' \notin {"run", "current", "count", "next", "irq"}
      PROVE  WInv'
  <2>1. Chained' /\ Reported'
    BY <1>5 DEF Chained, Reported, AtLast, Last
  <2>2. Acquired'
    BY <1>5 DEF Acquired, Silent, RxBuff
  <2>3. Phases'
    BY <1>5 DEF Phases, Silent
  <2> QED BY <1>1, <2>1, <2>2, <2>3
<1>6. MainMayRun => isr = "off" /\ (la_state = "ACQUIRED" => Silent)
  BY SeenComplete DEF MainMayRun
<1>7. CASE ioc_stop
  BY <1>5, <1>6, <1>7 DEF ioc_stop, SetStop, iocVars, pdcVars, enVars, ringVars, isrVars, laVars
<1>8. CASE la_fix_channels
  BY <1>5, <1>6, <1>8 DEF la_fix_channels, Phases, pdcVars, enVars, ringVars, isrVars, laVars
<1>9. CASE Deliver
  BY <1>5, <1>6, <1>9 DEF Deliver, Phases, iocVars, pdcVars, enVars, ringVars, isrVars, laVars
<1>10. CASE Delivered
  BY <1>5, <1>6, <1>10 DEF Delivered, Phases, Silent, iocVars, pdcVars, enVars, ringVars, isrVars
<1>11. CASE ResetWait \/ Strange
  BY <1>5, <1>6, <1>11 DEF ResetWait, Strange, iocVars, pdcVars, enVars, ringVars, isrVars
<1>12. CASE Poll
  BY <1>5, <1>6, <1>12 DEF Poll, iocVars, pdcVars, enVars, ringVars, isrVars, laVars
<1> QED BY <1>2, <1>3, <1>4, <1>7, <1>8, <1>9, <1>10, <1>11, <1>12 DEF Main, Start

(* Entering an application, the commands of the host and leaving, with the
   capture idle or not, keep the strengthening. *)
LEMMA WUser == ASSUME WInv, User PROVE WInv'
<1> USE DEF WInv, Goto
<1>1. TInv'
  BY TUser
<1>2. /\ UNCHANGED <<irq, busy, isr, cur_buf, rc, rnc, endrx>>
      /\ UNCHANGED <<ioc_buffers, ioc_buffer_idx, ioc_buffer_current>>
      /\ MainMayRun
  BY DEF User, cmd_sump, EnterUsb, EnterLcd, Exit, SetClock, iocVars, pdcVars, enVars, ringVars, isrVars
<1>3. /\ pc' \in {"menu", "loop", "acq", "start", "stop"}
      /\ la_state' = la_state \/ (la_state' = "IDLE" /\ ~busy)
  BY DEF User, cmd_sump, EnterUsb, EnterLcd, Exit, Phases, laVars
<1>4. isr = "off" /\ (la_state = "ACQUIRED" => Silent)
  BY <1>2, SeenComplete DEF MainMayRun
<1>5. Chained' /\ Reported' /\ Phases' /\ Idle'
  BY <1>2, <1>3, <1>4 DEF Chained, Reported, Phases, Idle, RxBuff, AtLast, Last
<1>6. Acquired'
  BY <1>2, <1>3, <1>4 DEF Acquired, Silent, RxBuff
<1> QED BY <1>1, <1>5, <1>6

(* The strengthening depends on nothing but the variables of the
   specification. *)
LEMMA WStutter == WInv /\ UNCHANGED vars => WInv'
<1> SUFFICES ASSUME WInv, UNCHANGED vars PROVE WInv'
  OBVIOUS
<1>1. TInv'
  BY TStutter DEF WInv
<1> QED BY <1>1 DEF WInv, Chained, Reported, Acquired, Phases, Idle, AtLast, Last, Silent, IrqPending,
        RxBuff, vars, iocVars, pdcVars, enVars, ringVars, isrVars, laVars, mainVars

(* The strengthening holds in every reachable state *)
LEMMA WInvariant == Spec => []WInv
<1>1. WInv /\ [Next]_vars => WInv'
  BY WPdc, WIsr, WMain, WUser, WStutter DEF Next
<1> QED BY WInit, <1>1, PTL DEF Spec

(* The variables keep their types, those of the PDC the bounds of memory:  *)
(* no acquisition starts while the PDC still has something to write.       *)
THEOREM TypeCorrect == Spec => []TypeOK
<1>1. WInv => TypeOK
  BY DEF WInv, TInv
<1> QED BY WInvariant, <1>1, PTL

(* The DMA never leaves the sample buffer, whatever settings the host       *)
(* changes, however late the interrupts are and whenever the user leaves    *)
(* an application, if the next is entered when the capture is over: no      *)
(* acquisition starts while the PDC still has something to write, so that   *)
(* the two stores that hand it the first buffer are not torn.               *)
THEOREM DmaStaysInBuffer == Spec => []DmaInBounds
<1>1. WInv => DmaInBounds
  BY DEF WInv, TInv
<1> QED BY WInvariant, <1>1, PTL

(* The main program never sees an acquisition complete, nor works on its    *)
(* samples, while the PDC may still write                                   *)
THEOREM CompleteMeansSilent == Spec => []WindowStable
<1>1. WInv => WindowStable
  BY SeenComplete DEF WInv, WindowStable, Phases, Acquired, Silent, IrqPending
<1> QED BY WInvariant, <1>1, PTL
=============================================================================
