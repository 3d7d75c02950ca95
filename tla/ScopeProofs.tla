----------------------------- MODULE ScopeProofs ------------------------------
(***************************************************************************)
(* Theorems about Scope, for every size of the display, range of the ADC,  *)
(* periodic signal and number of starts: who has the channel buffers, how  *)
(* much is stored and drawn of each, and that what is drawn is what is     *)
(* due.                                                                    *)
(*                                                                         *)
(* The loop of ADC_Handler is a function of how many conversions it has    *)
(* looked at; what holds of it at every turn is proved by induction, as    *)
(* the statement that a set of numbers is all of them (LoopLemmas).        *)
(***************************************************************************)
EXTENDS Scope, SequenceTheorems, LoopLemmas

-----------------------------------------------------------------------------
(* Who has the channel buffers *)

(* scope_draw has them from the moment it looks at adc_buffers_rdy until   *)
(* it clears it.                                                           *)
DrawsReady == pc \in {"draw", "drawn"} => adc_buffers_rdy

LEMMA DrawsReadyInit == Init => DrawsReady
BY DEF Init, DrawsReady

LEMMA DrawsReadyStep == ASSUME DrawsReady, [Next]_vars PROVE DrawsReady'
<1> USE DEF DrawsReady
<1>1. CASE UNCHANGED vars  BY <1>1 DEF vars, mainVars, chanVars
<1>2. CASE Convert  BY <1>2 DEF Convert, mainVars, chanVars
<1>3. CASE ADC_Handler  BY <1>3 DEF ADC_Handler, HandlerPass, mainVars, chanVars
<1>4. CASE LcdDone  BY <1>4 DEF LcdDone, chanVars
<1>5. CASE ReadBuffer  BY <1>5 DEF ReadBuffer
<1>6. CASE DrawBegin  BY <1>6 DEF DrawBegin, chanVars
<1>7. CASE DrawPixel  BY <1>7 DEF DrawPixel, chanVars
<1>8. CASE DrawRefresh  BY <1>8 DEF DrawRefresh, chanVars
<1>9. CASE DrawEnd  BY <1>9 DEF DrawEnd
<1>10. CASE User  BY <1>10 DEF User, Configure, Leave, LaAcquire, LaShow
<1> QED
  BY <1>1, <1>2, <1>3, <1>4, <1>5, <1>6, <1>7, <1>8, <1>9, <1>10 DEF Next, MainOwn, Drawing

(* Only a pass of the handler that finds the last frame drawn, the start   *)
(* of the oscilloscope and the logic analyzer change the channel buffers,  *)
(* and none of them comes while scope_draw draws.                          *)
LEMMA HeldStep ==
    ASSUME DrawsReady, [Next]_vars PROVE [pc = "draw" => UNCHANGED <<adc_channels, area>>]_vars
<1> SUFFICES ASSUME Next, pc = "draw" PROVE UNCHANGED <<adc_channels, area>>
  OBVIOUS
<1>1. CASE Convert  BY <1>1 DEF Convert, chanVars
<1>2. CASE ADC_Handler  BY <1>2 DEF ADC_Handler, DrawsReady, chanVars
<1>3. CASE LcdDone  BY <1>3 DEF LcdDone, chanVars
<1>4. CASE MainOwn
  BY <1>4 DEF MainOwn, Drawing, ReadBuffer, DrawBegin, DrawPixel, DrawRefresh, DrawEnd, chanVars
<1>5. CASE User  BY <1>5 DEF User, Configure, Leave, LaAcquire, LaShow
<1> QED BY <1>1, <1>2, <1>3, <1>4, <1>5 DEF Next

(* ADC_Handler never touches the channel buffers while scope_draw draws    *)
(* from them, wherever it interrupts it.                                   *)
THEOREM FrameIsHeld == Spec => FrameHeld
<1>1. DrawsReady /\ [Next]_vars => DrawsReady'  BY DrawsReadyStep
<1>2. DrawsReady /\ [Next]_vars => [pc = "draw" => UNCHANGED <<adc_channels, area>>]_vars
  BY HeldStep
<1> QED BY <1>1, <1>2, DrawsReadyInit, PTL DEF Spec, FrameHeld

-----------------------------------------------------------------------------
(* The least of a set of numbers is the one that is *)
LEMMA MinIs ==
    ASSUME NEW T \in SUBSET Int, NEW x \in T, \A y \in T : x <= y
    PROVE  Min(T) = x
<1>1. Min(T) \in T /\ \A y \in T : Min(T) <= y  BY DEF Min
<1>2. Min(T) <= x /\ x <= Min(T) /\ x \in Int /\ Min(T) \in Int  BY <1>1
<1> QED BY <1>2

-----------------------------------------------------------------------------
(* The loop of ADC_Handler, for one channel *)

Pix       == [y : Int, n : Nat]
LoopState == [px : Seq(Pix), thr_found : BOOLEAN, thr_index : Nat]
LoopStart == [px |-> <<>>, thr_found |-> FALSE, thr_index |-> 0]

(* The fields of a state of the loop *)
LEMMA Fields ==
    ASSUME NEW a, NEW b, NEW c
    PROVE  /\ [px |-> a, thr_found |-> b, thr_index |-> c].px = a
           /\ [px |-> a, thr_found |-> b, thr_index |-> c].thr_found = b
           /\ [px |-> a, thr_found |-> b, thr_index |-> c].thr_index = c
OBVIOUS

(* What the constants are *)
LEMMA Constants ==
    /\ W \in Nat /\ W > 0 /\ Period \in Nat /\ Period > 0 /\ Threshold \in Int
    /\ MAX_DIGITAL \in Nat /\ MAX_DIGITAL > 0 /\ LCD_PAGES \in Nat /\ LCD_PAGE_SIZE \in Nat
<1>1. LCD_PAGES * LCD_PAGE_SIZE \in Nat  BY ScopeAssumption
<1> QED BY <1>1, ScopeAssumption DEF W, Threshold

(* The trace begins at this conversion *)
Here(s, pixel) == ~s.thr_found /\ pixel.y >= Threshold

(* One turn of the loop *)
LEMMA CollectIs ==
    ASSUME NEW s \in LoopState, NEW pixel \in Pix
    PROVE  /\ Collect(s, pixel) \in LoopState
           /\ Len(s.px) - s.thr_index >= W => Collect(s, pixel) = s
           /\ ~(Len(s.px) - s.thr_index >= W) =>
                /\ Collect(s, pixel).px = Append(s.px, pixel)
                /\ Collect(s, pixel).thr_found <=> s.thr_found \/ Here(s, pixel)
                /\ Collect(s, pixel).thr_index =
                       IF Here(s, pixel) THEN Len(s.px) ELSE s.thr_index
<1> DEFINE r == Collect(s, pixel)
           here == Here(s, pixel)
           px == Append(s.px, pixel)
           tf == s.thr_found \/ here
           ti == IF here THEN Len(s.px) ELSE s.thr_index
           new == [px |-> px, thr_found |-> tf, thr_index |-> ti]
<1>1. s.px \in Seq(Pix) /\ s.thr_found \in BOOLEAN /\ s.thr_index \in Nat
  BY DEF LoopState
<1>2. px \in Seq(Pix) /\ Len(s.px) \in Nat  BY <1>1
<1>3. tf \in BOOLEAN /\ ti \in Nat
  <2>1. ti \in Nat  BY <1>1, <1>2
  <2>2. tf \in BOOLEAN  BY <1>1, Zenon
  <2> QED BY <2>1, <2>2
<1>4. Collected(s, pixel) = new  BY DEF Collected, Here
<1>5. r = IF Len(s.px) - s.thr_index >= W THEN s ELSE new  BY <1>4 DEF Collect
<1>6. new.px = px /\ new.thr_found = tf /\ new.thr_index = ti
  <2> HIDE DEF px, tf, ti
  <2> QED BY Fields
<1>7. new \in LoopState
  <2> HIDE DEF px, tf, ti
  <2> QED BY <1>2, <1>3 DEF LoopState
<1>8. CASE Len(s.px) - s.thr_index >= W  BY <1>5, <1>8
<1>9. CASE ~(Len(s.px) - s.thr_index >= W)
  <2>1. r = new  BY <1>5, <1>9
  <2>2. r.px = px /\ r.thr_found = tf /\ r.thr_index = ti
    <3> HIDE DEF new, r
    <3> QED BY <1>6, <2>1
  <2>3. r \in LoopState
    <3> HIDE DEF new, r
    <3> QED BY <1>7, <2>1
  <2>4. r.thr_found <=> s.thr_found \/ here
    <3> HIDE DEF r, new
    <3> QED BY <2>2
  <2> QED BY <1>9, <2>2, <2>3, <2>4, Zenon
<1> QED BY <1>8, <1>9

(* The states of the loop *)
Turns(pixels, f) ==
    f = [i \in 0 .. Len(pixels) |-> IF i = 0 THEN LoopStart ELSE Collect(f[i - 1], pixels[i])]

(* The loop starts empty and goes on by Collect *)
LEMMA LoopRuns ==
    ASSUME NEW pixels \in Seq(Pix)
    PROVE  \E f : /\ Demultiplexed(pixels) = f[Len(pixels)]
                  /\ f[0] = LoopStart
                  /\ \A i \in 1 .. Len(pixels) : f[i] = Collect(f[i - 1], pixels[i])
<1> DEFINE N == Len(pixels)
           g == [i \in 1 .. N |-> [s \in LoopState |-> Collect(s, pixels[i])]]
<1>1. N \in Nat /\ \A i \in 1 .. N : pixels[i] \in Pix  OBVIOUS
<1>2. g \in [1 .. N -> [LoopState -> LoopState]]
  <2>1. \A i \in 1 .. N : \A s \in LoopState : Collect(s, pixels[i]) \in LoopState
    BY <1>1, CollectIs
  <2> QED BY <2>1
<1>3. LoopStart \in LoopState  BY DEF LoopStart, LoopState
<1>4. \A i \in 1 .. N : \A s \in LoopState : g[i][s] = Collect(s, pixels[i])  OBVIOUS
<1> HIDE DEF N, g
<1>5. PICK f \in [0 .. N -> LoopState] : Goes(N, LoopStart, g, f)
  BY <1>1, <1>2, <1>3, Recursion
<1> USE DEF Goes
<1>6. \A i \in 0 .. N : f[i] = IF i = 0 THEN LoopStart ELSE Collect(f[i - 1], pixels[i])
  <2> SUFFICES ASSUME NEW i \in 0 .. N, i # 0 PROVE f[i] = Collect(f[i - 1], pixels[i])
    BY <1>5
  <2>1. i \in 1 .. N /\ i - 1 \in 0 .. N  BY <1>1
  <2> QED BY <1>4, <1>5, <2>1
<1>7. Turns(pixels, f)
  <2>1. f = [i \in 0 .. N |-> f[i]]  OBVIOUS
  <2>2. f = [i \in 0 .. N |-> IF i = 0 THEN LoopStart ELSE Collect(f[i - 1], pixels[i])]
    BY <1>6, <2>1, Zenon
  <2> QED BY <2>2 DEF Turns, N
<1> DEFINE h == CHOOSE e : Turns(pixels, e)
<1>8. Turns(pixels, h)  BY <1>7
<1>9. Demultiplexed(pixels) = h[Len(pixels)]  BY DEF Demultiplexed, Turns, LoopStart
<1> HIDE DEF h
<1>10. h[0] = LoopStart /\ \A i \in 1 .. Len(pixels) : h[i] = Collect(h[i - 1], pixels[i])
  <2>1. \A i \in 0 .. N : h[i] = IF i = 0 THEN LoopStart ELSE Collect(h[i - 1], pixels[i])
    BY <1>8, Zenon DEF Turns, N
  <2>2. 0 \in 0 .. N /\ \A i \in 1 .. N : i \in 0 .. N /\ i # 0  BY <1>1
  <2> QED BY <2>1, <2>2 DEF N
<1> QED BY <1>9, <1>10

(* What the loop has done after n of the conversions: it keeps the width   *)
(* of the display, from the first conversion at or above the threshold     *)
(* among the first W, or else from the first                               *)
Low(pixels, n) == \A j \in 1 .. n : ~(pixels[j].y >= Threshold)

LoopInv(pixels, s, n) ==
    /\ s \in LoopState
    /\ Len(s.px) = IF n <= s.thr_index + W THEN n ELSE s.thr_index + W
    /\ \A k \in 1 .. Len(s.px) : s.px[k] = pixels[k]
    /\ Low(pixels, s.thr_index)
    /\ s.thr_found => s.thr_index < W /\ s.thr_index < n /\ pixels[s.thr_index + 1].y >= Threshold
    /\ ~s.thr_found => s.thr_index = 0 /\ Low(pixels, IF n <= W THEN n ELSE W)

(* One turn of the loop keeps what is known of it *)
LEMMA LoopStep ==
    ASSUME NEW pixels \in Seq(Pix), NEW n \in Nat, n + 1 <= Len(pixels), NEW s,
           LoopInv(pixels, s, n), NEW p, p = pixels[n + 1], NEW r, r = Collect(s, p)
    PROVE  LoopInv(pixels, r, n + 1)
<1>1. /\ s \in LoopState /\ p \in Pix /\ W \in Nat /\ W > 0
      /\ s.px \in Seq(Pix) /\ Len(s.px) \in Nat /\ s.thr_index \in Nat
  BY Constants DEF LoopInv, LoopState
<1>2. /\ Len(s.px) = IF n <= s.thr_index + W THEN n ELSE s.thr_index + W
      /\ \A k \in 1 .. Len(s.px) : s.px[k] = pixels[k]
      /\ Low(pixels, s.thr_index)
      /\ s.thr_found => s.thr_index < W /\ s.thr_index < n
                        /\ pixels[s.thr_index + 1].y >= Threshold
      /\ ~s.thr_found => s.thr_index = 0 /\ Low(pixels, IF n <= W THEN n ELSE W)
  BY DEF LoopInv
<1>3. CASE Len(s.px) - s.thr_index >= W
  <2>1. r = s /\ ~(n + 1 <= s.thr_index + W) /\ n >= s.thr_index + W
        /\ Len(s.px) = s.thr_index + W
    BY <1>1, <1>2, <1>3, CollectIs
  <2>2. s.thr_index < n => s.thr_index < n + 1  BY <1>1
  <2>3. (IF n <= W THEN n ELSE W) = (IF n + 1 <= W THEN n + 1 ELSE W) \/ s.thr_found
    BY <1>1, <1>2, <2>1
  <2>4. ~r.thr_found => Low(pixels, IF n + 1 <= W THEN n + 1 ELSE W)
    BY <1>2, <2>1, <2>3
  <2>5. Len(r.px) = IF n + 1 <= r.thr_index + W THEN n + 1 ELSE r.thr_index + W
    BY <2>1
  <2> QED BY <1>1, <1>2, <2>1, <2>2, <2>4, <2>5 DEF LoopInv
<1>4. CASE ~(Len(s.px) - s.thr_index >= W)
  <2>1. /\ r \in LoopState /\ r.px = Append(s.px, p)
        /\ r.thr_found <=> s.thr_found \/ Here(s, p)
        /\ r.thr_index = IF Here(s, p) THEN Len(s.px) ELSE s.thr_index
    BY <1>1, <1>4, CollectIs, Zenon
  <2>2. Len(s.px) = n /\ n < s.thr_index + W  BY <1>1, <1>2, <1>4
  <2>3. Len(r.px) = n + 1 /\ \A k \in 1 .. n + 1 : r.px[k] = pixels[k]
    <3>1. Len(r.px) = n + 1  BY <1>1, <2>1, <2>2
    <3>2. ASSUME NEW k \in 1 .. n + 1 PROVE r.px[k] = pixels[k]
      <4>1. CASE k = n + 1  BY <1>1, <2>1, <2>2, <4>1
      <4>2. CASE k # n + 1
        <5>1. k \in 1 .. n  BY <4>2
        <5> QED BY <1>1, <1>2, <2>1, <2>2, <5>1
      <4> QED BY <4>1, <4>2
    <3> QED BY <3>1, <3>2
  <2>4. CASE Here(s, p)
    <3>1. r.thr_found /\ r.thr_index = n /\ ~s.thr_found /\ s.thr_index = 0 /\ p.y >= Threshold
      BY <1>2, <2>1, <2>2, <2>4 DEF Here
    <3>2. n < W /\ n < n + 1 /\ n + 1 <= n + W  BY <1>1, <2>2, <3>1
    <3>3. Low(pixels, n)
      <4>1. (IF n <= W THEN n ELSE W) = n  BY <1>1, <3>2
      <4> QED BY <1>2, <3>1, <4>1
    <3>4. Len(r.px) = IF n + 1 <= r.thr_index + W THEN n + 1 ELSE r.thr_index + W
      BY <2>3, <3>1, <3>2
    <3>5. pixels[r.thr_index + 1].y >= Threshold  BY <3>1
    <3> QED BY <2>1, <2>3, <3>1, <3>2, <3>3, <3>4, <3>5 DEF LoopInv
  <2>5. CASE ~Here(s, p)
    <3>1. (r.thr_found <=> s.thr_found) /\ r.thr_index = s.thr_index  BY <2>1, <2>5
    <3>2. n + 1 <= r.thr_index + W /\ (s.thr_index < n => r.thr_index < n + 1)
      BY <1>1, <2>2, <3>1
    <3>3. ~s.thr_found => Low(pixels, IF n + 1 <= W THEN n + 1 ELSE W)
      <4> SUFFICES ASSUME ~s.thr_found PROVE Low(pixels, n + 1) /\ n + 1 <= W
        OBVIOUS
      <4>1. n + 1 <= W /\ s.thr_index = 0  BY <1>1, <1>2, <2>2
      <4>2. (IF n <= W THEN n ELSE W) = n  BY <1>1, <4>1
      <4>3. Low(pixels, n) /\ ~(p.y >= Threshold)  BY <1>2, <2>5, <4>2 DEF Here
      <4>4. \A j \in 1 .. n + 1 : j \in 1 .. n \/ j = n + 1  OBVIOUS
      <4> QED BY <4>1, <4>3, <4>4 DEF Low
    <3>4. Len(r.px) = IF n + 1 <= r.thr_index + W THEN n + 1 ELSE r.thr_index + W
      BY <2>3, <3>2
    <3> QED BY <1>2, <2>1, <2>3, <3>1, <3>2, <3>3, <3>4 DEF LoopInv
  <2> QED BY <2>4, <2>5
<1> QED BY <1>3, <1>4

(* What is left in the channel's buffer when the loop ends *)
LEMMA LoopDoes ==
    ASSUME NEW pixels \in Seq(Pix)
    PROVE  LoopInv(pixels, Demultiplexed(pixels), Len(pixels))
<1> DEFINE N == Len(pixels)
<1>1. PICK f : /\ Demultiplexed(pixels) = f[N]
               /\ f[0] = LoopStart
               /\ \A i \in 1 .. N : f[i] = Collect(f[i - 1], pixels[i])
  BY LoopRuns
<1> DEFINE T == {n \in Nat : n <= N => LoopInv(pixels, f[n], n)}
<1>2. 0 \in T
  <2>1. LoopStart \in LoopState /\ LoopStart.px = <<>> /\ ~LoopStart.thr_found
        /\ LoopStart.thr_index = 0
    BY DEF LoopStart, LoopState
  <2>2. LoopInv(pixels, LoopStart, 0)  BY <2>1, Constants DEF LoopInv, Low
  <2> QED BY <1>1, <2>2
<1>3. ASSUME NEW n \in Nat, n \in T PROVE n + 1 \in T
  <2> SUFFICES ASSUME n + 1 <= N PROVE LoopInv(pixels, f[n + 1], n + 1)
    OBVIOUS
  <2>1. N \in Nat  OBVIOUS
  <2>2. LoopInv(pixels, f[n], n)  BY <1>3, <2>1
  <2>3. n + 1 \in 1 .. N /\ (n + 1) - 1 = n  BY <2>1
  <2>4. f[n + 1] = Collect(f[n], pixels[n + 1])  BY <1>1, <2>3
  <2> QED BY <2>2, <2>4, LoopStep
<1> HIDE DEF T
<1>4. N \in T  BY <1>2, <1>3, SetInduction
<1> QED BY <1>1, <1>4 DEF T

(* A buffer is never more than half of the transfer, and a screen of it    *)
(* from draw_buffer on is inside, whatever was converted                   *)
LEMMA LoopBounds ==
    ASSUME NEW pixels \in Seq(Pix)
    PROVE  /\ Demultiplexed(pixels).px \in Seq(Pix)
           /\ Len(Demultiplexed(pixels).px) <= 2 * W
           /\ Demultiplexed(pixels).thr_index \in 0 .. W - 1
<1> DEFINE s == Demultiplexed(pixels)
<1>1. LoopInv(pixels, s, Len(pixels)) /\ W \in Nat /\ W > 0 /\ Len(pixels) \in Nat
  BY LoopDoes, Constants
<1> HIDE DEF s
<1>2. s.px \in Seq(Pix) /\ s.thr_index \in Nat /\ s.thr_index < W
  BY <1>1 DEF LoopInv, LoopState
<1>3. Len(s.px) <= s.thr_index + W  BY <1>1, <1>2 DEF LoopInv
<1>4. Len(s.px) \in Nat  BY <1>2
<1> QED BY <1>1, <1>2, <1>3, <1>4 DEF s

(* A trace begins at the first conversion at or above the threshold *)
LEMMA DueIs ==
    ASSUME NEW pixels \in Seq(Pix), Len(pixels) = 2 * W, NEW t \in 0 .. W - 1, Low(pixels, t),
           pixels[t + 1].y >= Threshold \/ (t = 0 /\ Low(pixels, W))
    PROVE  /\ Due(pixels) \in Seq(Pix) /\ Len(Due(pixels)) = W
           /\ \A k \in 1 .. W : Due(pixels)[k] = pixels[t + k]
<1> DEFINE high == {i \in 1 .. W : i <= Len(pixels) /\ pixels[i].y >= Threshold}
           from == IF high = {} THEN 1 ELSE Min(high)
           to == Min({from + W - 1, Len(pixels)})
<1>1. W \in Nat /\ W > 0  BY Constants
<1>2. t + 1 \in 1 .. W /\ t + 1 <= 2 * W /\ t + W \in 1 .. 2 * W /\ (t + 1) + W - 1 = t + W
  BY <1>1
<1>3. from = t + 1
  <2>1. CASE pixels[t + 1].y >= Threshold
    <3>1. t + 1 \in high  BY <1>2, <2>1
    <3>2. \A i \in high : t + 1 <= i  BY DEF Low
    <3>3. high \in SUBSET Int  OBVIOUS
    <3> HIDE DEF high
    <3> QED BY <3>1, <3>2, <3>3, MinIs
  <2>2. CASE t = 0 /\ Low(pixels, W)
    <3>1. high = {}  BY <2>2 DEF Low
    <3> HIDE DEF high
    <3> QED BY <2>2, <3>1
  <2> QED BY <2>1, <2>2
<1>4. to = t + W
  <2> HIDE DEF from
  <2>1. {from + W - 1, Len(pixels)} = {t + W, 2 * W}  BY <1>2, <1>3
  <2>2. t + W \in {t + W, 2 * W} /\ {t + W, 2 * W} \in SUBSET Int
        /\ \A y \in {t + W, 2 * W} : t + W <= y
    BY <1>1, <1>2
  <2> QED BY <2>1, <2>2, MinIs
<1>5. Due(pixels) = SubSeq(pixels, from, to)  BY DEF Due
<1>6. Due(pixels) = SubSeq(pixels, t + 1, t + W)
  <2> HIDE DEF from, to
  <2> QED BY <1>3, <1>4, <1>5
<1> HIDE DEF from, to, high
<1>7. /\ SubSeq(pixels, t + 1, t + W) \in Seq(Pix)
      /\ Len(SubSeq(pixels, t + 1, t + W)) = W
      /\ \A k \in 1 .. W : SubSeq(pixels, t + 1, t + W)[k] = pixels[t + k]
  <2>1. t + 1 \in Int /\ t + W \in Int /\ t + 1 <= t + W /\ t + W <= Len(pixels) /\ 1 <= t + 1
        /\ (t + W) - (t + 1) + 1 = W
    BY <1>1, <1>2
  <2>2. \A i \in t + 1 .. t + W : pixels[i] \in Pix
    <3>1. \A i \in t + 1 .. t + W : i \in 1 .. Len(pixels)  BY <1>1, <2>1
    <3> QED BY <3>1, ElementOfSeq
  <2>3. SubSeq(pixels, t + 1, t + W) = [k \in 1 .. W |-> pixels[(t + 1) + k - 1]]
    BY <2>1
  <2>4. \A k \in 1 .. W : (t + 1) + k - 1 = t + k /\ t + k \in t + 1 .. t + W  BY <1>1
  <2> DEFINE q == [k \in 1 .. W |-> pixels[(t + 1) + k - 1]]
  <2>5. \A k \in 1 .. W : q[k] = pixels[t + k] /\ q[k] \in Pix  BY <2>2, <2>4
  <2>6. q \in [1 .. W -> Pix]  BY <2>5
  <2> HIDE DEF q
  <2>7. q \in Seq(Pix) /\ Len(q) = W  BY <1>1, <2>6
  <2> QED BY <2>3, <2>5, <2>7 DEF q
<1> QED BY <1>6, <1>7

(* The part of a buffer that is shown is what is due, if the channel had   *)
(* two screens of conversions                                              *)
LEMMA LoopIsDue ==
    ASSUME NEW pixels \in Seq(Pix), Len(pixels) = 2 * W, NEW s, s = Demultiplexed(pixels)
    PROVE  /\ Due(pixels) \in Seq(Pix) /\ Len(Due(pixels)) = W
           /\ s.thr_index \in 0 .. W - 1 /\ Len(s.px) = s.thr_index + W
           /\ \A k \in 1 .. W : /\ Due(pixels)[k] = pixels[s.thr_index + k]
                                /\ s.px[s.thr_index + k] = Due(pixels)[k]
<1>1. LoopInv(pixels, s, 2 * W) /\ W \in Nat /\ W > 0  BY LoopDoes, Constants
<1>2. PICK t : t = s.thr_index  OBVIOUS
<1>3. s.px \in Seq(Pix) /\ t \in Nat /\ s.thr_found \in BOOLEAN
  BY <1>1, <1>2 DEF LoopInv, LoopState
<1>4. /\ t < W /\ Low(pixels, t)
      /\ pixels[t + 1].y >= Threshold \/ (t = 0 /\ Low(pixels, W))
  <2>1. CASE s.thr_found  BY <1>1, <1>2, <2>1 DEF LoopInv
  <2>2. CASE ~s.thr_found
    <3>1. (IF 2 * W <= W THEN 2 * W ELSE W) = W  BY <1>1
    <3>2. t = 0 /\ Low(pixels, W)  BY <1>1, <1>2, <2>2, <3>1 DEF LoopInv
    <3> QED BY <1>1, <3>2 DEF Low
  <2> QED BY <2>1, <2>2
<1>5. t \in 0 .. W - 1 /\ Len(s.px) = t + W
  <2>1. Len(s.px) = IF 2 * W <= t + W THEN 2 * W ELSE t + W  BY <1>1, <1>2 DEF LoopInv
  <2> QED BY <1>1, <1>3, <1>4, <2>1
<1>6. \A k \in 1 .. W : t + k \in 1 .. t + W  BY <1>1, <1>5
<1>7. \A k \in 1 .. t + W : s.px[k] = pixels[k]  BY <1>1, <1>5 DEF LoopInv
<1>8. /\ Due(pixels) \in Seq(Pix) /\ Len(Due(pixels)) = W
      /\ \A k \in 1 .. W : Due(pixels)[k] = pixels[t + k]
  BY <1>4, <1>5, DueIs
<1> QED BY <1>2, <1>5, <1>6, <1>7, <1>8

-----------------------------------------------------------------------------
(* The conversions of a channel *)

Samples == [tag : {-1, 0, 3, 9}, n : 0 .. Period - 1]

(* What is known of the settings and of the transfer where it is looked at *)
ReadTypes ==
    /\ chans \in {<<3>>, <<9>>, <<3, 9>>}
    /\ us_value \in [1 .. 4 * W -> Samples]
    /\ signal \in [0 .. Period - 1 -> 0 .. MAX_DIGITAL]

(* A transfer has two screens of each channel and fits into us_value *)
LEMMA SizeIs ==
    ASSUME chans \in {<< 3 >>, << 9 >>, << 3, 9 >>}
    PROVE  /\ Len(chans) \in {1, 2}
           /\ Size = 2 * W * Len(chans) /\ Size \in Nat /\ Size > 0 /\ Size <= 4 * W
<1>1. Len(chans) \in {1, 2}  OBVIOUS
<1>2. W \in Nat /\ W > 0  BY Constants
<1>3. CASE Len(chans) = 1  BY <1>2, <1>3 DEF Size
<1>4. CASE Len(chans) = 2  BY <1>2, <1>4 DEF Size
<1> QED BY <1>1, <1>3, <1>4

(* The handler looks at the whole transfer if all of it is of the channels *)
LEMMA LookedIs ==
    ASSUME ReadTypes
    PROVE  /\ Looked \in 0 .. Size
           /\ (\A i \in 1 .. Size : us_value[i].tag \in {Tag(0), Tag(1)}) => Looked = Size
<1> DEFINE strange == {i \in 1 .. Size : us_value[i].tag \notin {Tag(0), Tag(1)}}
<1>1. Size \in Nat  BY SizeIs DEF ReadTypes
<1>2. Looked = IF strange = {} THEN Size ELSE Min(strange) - 1  BY DEF Looked
<1>3. CASE strange = {}  BY <1>1, <1>2, <1>3
<1>4. CASE strange # {}
  <2>1. strange \in SUBSET Nat /\ strange \subseteq 1 .. Size  BY <1>1
  <2>2. ~(\A i \in 1 .. Size : us_value[i].tag \in {Tag(0), Tag(1)})  BY <1>4
  <2> HIDE DEF strange
  <2>3. PICK x \in strange : \A y \in strange : x <= y  BY <1>4, <2>1, NatLeast
  <2>4. strange \in SUBSET Int  BY <2>1
  <2>5. Min(strange) = x  BY <2>3, <2>4, MinIs
  <2> QED BY <1>1, <1>2, <1>4, <2>1, <2>2, <2>3, <2>5
<1> QED BY <1>3, <1>4

Sorts(c, f) ==
    f = [i \in 0 .. Looked |->
            IF i = 0 THEN <<>>
            ELSE IF Mine(c, us_value[i]) THEN Append(f[i - 1], us_value[i]) ELSE f[i - 1]]

(* What a channel gets, turn by turn *)
LEMMA OfRuns ==
    ASSUME ReadTypes, NEW c
    PROVE  \E f \in [0 .. Looked -> Seq(Samples)] :
              /\ Of(c) = f[Looked]
              /\ f[0] = <<>>
              /\ \A i \in 1 .. Looked :
                    f[i] = IF Mine(c, us_value[i]) THEN Append(f[i - 1], us_value[i]) ELSE f[i - 1]
<1> DEFINE N == Looked
           S == Seq(Samples)
           g == [i \in 1 .. N |-> [s \in S |->
                   IF Mine(c, us_value[i]) THEN Append(s, us_value[i]) ELSE s]]
<1>1. N \in Nat /\ \A i \in 1 .. N : us_value[i] \in Samples
  <2>1. N \in 0 .. Size /\ Size \in Nat /\ Size <= 4 * W /\ W \in Nat
    BY LookedIs, SizeIs, Constants DEF ReadTypes
  <2>2. \A i \in 1 .. N : i \in 1 .. 4 * W  BY <2>1
  <2> QED BY <2>1, <2>2 DEF ReadTypes
<1>2. g \in [1 .. N -> [S -> S]]
  <2>1. \A i \in 1 .. N : \A s \in S : Append(s, us_value[i]) \in S  BY <1>1
  <2> HIDE DEF S, N
  <2> QED BY <2>1
<1>3. <<>> \in S  OBVIOUS
<1>4. \A i \in 1 .. N : \A s \in S :
         g[i][s] = IF Mine(c, us_value[i]) THEN Append(s, us_value[i]) ELSE s
  OBVIOUS
<1> HIDE DEF N, g, S
<1>5. PICK f \in [0 .. N -> S] : Goes(N, <<>>, g, f)
  BY <1>1, <1>2, <1>3, Recursion
<1>6. \A i \in 1 .. N :
         f[i] = IF Mine(c, us_value[i]) THEN Append(f[i - 1], us_value[i]) ELSE f[i - 1]
  <2> SUFFICES ASSUME NEW i \in 1 .. N
               PROVE  f[i] = IF Mine(c, us_value[i]) THEN Append(f[i - 1], us_value[i])
                                                     ELSE f[i - 1]
    OBVIOUS
  <2>1. i - 1 \in 0 .. N  BY <1>1
  <2>2. f[i] = g[i][f[i - 1]]  BY <1>5 DEF Goes
  <2>3. f[i - 1] \in S  BY <2>1
  <2> QED BY <1>4, <2>2, <2>3
<1>7. f[0] = <<>>  BY <1>5 DEF Goes
<1> DEFINE h == CHOOSE e : Sorts(c, e)
           Turn(e, i) == IF i = 0 THEN <<>>
                         ELSE IF Mine(c, us_value[i]) THEN Append(e[i - 1], us_value[i]) ELSE e[i - 1]
<1>8. Sorts(c, h)
  <2>1. \A i \in 0 .. N : f[i] = Turn(f, i)
    <3>1. \A i \in 0 .. N : i = 0 \/ i \in 1 .. N  BY <1>1
    <3> QED BY <1>6, <1>7, <3>1
  <2>2. f = [i \in 0 .. N |-> f[i]]  OBVIOUS
  <2>3. f = [i \in 0 .. N |-> Turn(f, i)]
    <3> HIDE DEF Turn
    <3> QED BY <2>1, <2>2, Zenon
  <2>4. Sorts(c, f)  BY <2>3 DEF Sorts, N
  <2> QED BY <2>4
<1>9. Of(c) = h[Looked]  BY DEF Of, Sorts
<1> HIDE DEF h
<1>10. h = [i \in 0 .. N |-> Turn(h, i)]  BY <1>8 DEF Sorts, N
<1>11. \A i \in 0 .. N : h[i] = Turn(h, i)
  <2> HIDE DEF Turn
  <2> QED BY <1>10, Zenon
<1>12. h[0] = <<>> /\ \A i \in 1 .. N :
         h[i] = IF Mine(c, us_value[i]) THEN Append(h[i - 1], us_value[i]) ELSE h[i - 1]
  <2>1. 0 \in 0 .. N /\ \A i \in 1 .. N : i \in 0 .. N /\ i # 0  BY <1>1
  <2> QED BY <1>11, <2>1
<1>13. \A i \in 0 .. N : h[i] \in S
  <2> DEFINE T == {n \in Nat : n <= N => h[n] \in S}
  <2>1. 0 \in T  BY <1>3, <1>12
  <2>2. ASSUME NEW n \in Nat, n \in T PROVE n + 1 \in T
    <3> SUFFICES ASSUME n + 1 <= N PROVE h[n + 1] \in S
      OBVIOUS
    <3>1. h[n] \in S /\ n + 1 \in 1 .. N /\ (n + 1) - 1 = n  BY <1>1, <2>2
    <3>2. us_value[n + 1] \in Samples  BY <1>1, <3>1
    <3>3. Append(h[n], us_value[n + 1]) \in S  BY <3>1, <3>2 DEF S
    <3> QED BY <1>12, <3>1, <3>3
  <2> HIDE DEF T
  <2>3. \A n \in Nat : n \in T  BY <2>1, <2>2, SetInduction
  <2> QED BY <1>1, <2>3 DEF T
<1>14. h \in [0 .. N -> S]
  <2>1. h = [i \in 0 .. N |-> h[i]]  BY <1>10, <1>11
  <2> QED BY <1>13, <2>1
<1> QED BY <1>9, <1>12, <1>14 DEF N, S

(* A channel gets conversions *)
LEMMA OfTyped == ASSUME ReadTypes, NEW c PROVE Of(c) \in Seq(Samples)
<1>1. Looked \in 0 .. Looked  BY LookedIs, SizeIs DEF ReadTypes
<1> QED BY <1>1, OfRuns

(* If every d-th conversion of the transfer is of the channel, the loop    *)
(* gives it just those *)
LEMMA OfEvery ==
    ASSUME ReadTypes, NEW c, NEW d \in {1, 2}, NEW b \in 0 .. d - 1, Looked = 2 * W * d,
           \A i \in 1 .. Looked : Mine(c, us_value[i]) <=> (i + b) % d = 0
    PROVE  Len(Of(c)) = 2 * W /\ \A k \in 1 .. 2 * W : Of(c)[k] = us_value[d * k - b]
<1>1. PICK f \in [0 .. Looked -> Seq(Samples)] :
        /\ Of(c) = f[Looked]
        /\ f[0] = <<>>
        /\ \A i \in 1 .. Looked :
              f[i] = IF Mine(c, us_value[i]) THEN Append(f[i - 1], us_value[i]) ELSE f[i - 1]
  BY OfRuns
<1>2. W \in Nat /\ W > 0 /\ Looked \in Nat  BY Constants
<1> DEFINE P(n) == Len(f[n]) = (n + b) \div d /\ \A k \in 1 .. (n + b) \div d : f[n][k] = us_value[d * k - b]
           T == {n \in Nat : n <= Looked => P(n)}
<1>3. 0 \in T
  <2>1. b \div d = 0  OBVIOUS
  <2> QED BY <1>1, <2>1
<1>4. ASSUME NEW n \in Nat, n \in T PROVE n + 1 \in T
  <2> SUFFICES ASSUME n + 1 <= Looked PROVE P(n + 1)
    OBVIOUS
  <2>1. P(n) /\ n + 1 \in 1 .. Looked /\ (n + 1) - 1 = n /\ n \in 0 .. Looked  BY <1>2, <1>4
  <2>2. f[n] \in Seq(Samples)  BY <2>1
  <2>3. (n + b) \div d \in Nat /\ (n + 1 + b) \div d \in Nat
    BY SMT
  <2>4. CASE (n + 1 + b) % d = 0
    <3>1. (n + 1 + b) \div d = (n + b) \div d + 1 /\ n + 1 = d * ((n + 1 + b) \div d) - b
      <4>1. CASE d = 1  BY <2>4, <4>1
      <4>2. CASE d = 2  BY <2>4, <4>2
      <4> QED BY <4>1, <4>2
    <3>2. f[n + 1] = Append(f[n], us_value[n + 1])
      <4>1. Mine(c, us_value[n + 1])  BY <2>1, <2>4
      <4> QED BY <1>1, <2>1, <4>1
    <3>3. PICK m : m = (n + b) \div d  OBVIOUS
    <3>4. m \in Nat /\ Len(f[n]) = m /\ (n + 1 + b) \div d = m + 1 /\ n + 1 = d * (m + 1) - b
          /\ \A k \in 1 .. m : f[n][k] = us_value[d * k - b]
      BY <2>1, <2>3, <3>1, <3>3
    <3>5. Len(f[n + 1]) = m + 1  BY <2>2, <3>2, <3>4
    <3>6. ASSUME NEW k \in 1 .. m + 1 PROVE f[n + 1][k] = us_value[d * k - b]
      <4>1. CASE k = m + 1  
        <5>1. f[n + 1][k] = us_value[n + 1]  BY <2>2, <3>2, <3>4, <4>1
        <5> QED BY <3>4, <4>1, <5>1
      <4>2. CASE k # m + 1
        <5>1. k \in 1 .. m  BY <3>4, <4>2
        <5>2. f[n + 1][k] = f[n][k]  BY <2>2, <3>2, <3>4, <5>1
        <5> QED BY <3>4, <5>1, <5>2
      <4> QED BY <4>1, <4>2
    <3> QED BY <3>4, <3>5, <3>6
  <2>5. CASE (n + 1 + b) % d # 0
    <3>1. (n + 1 + b) \div d = (n + b) \div d
      <4>1. CASE d = 1  BY <2>5, <4>1
      <4>2. CASE d = 2  BY <2>5, <4>2
      <4> QED BY <4>1, <4>2
    <3>2. f[n + 1] = f[n]
      <4>1. ~Mine(c, us_value[n + 1])  BY <2>1, <2>5
      <4> QED BY <1>1, <2>1, <4>1
    <3> QED BY <2>1, <3>1, <3>2
  <2> QED BY <2>4, <2>5
<1> HIDE DEF T
<1>5. Looked \in T  BY <1>2, <1>3, <1>4, SetInduction
<1>6. P(Looked)  BY <1>2, <1>5 DEF T
<1>7. (Looked + b) \div d = 2 * W
  <2>1. CASE d = 1  BY <1>2, <2>1
  <2>2. CASE d = 2  BY <1>2, <2>2
  <2> QED BY <2>1, <2>2
<1> QED BY <1>1, <1>6, <1>7

(* A conversion is drawn at some row *)
LEMMA PixelTyped == ASSUME ReadTypes, NEW sample \in Samples, NEW c PROVE Pixel(sample, c) \in Pix
<1>1. sample.n \in 0 .. Period - 1 /\ Period \in Nat  BY Constants DEF Samples
<1>2. signal[sample.n] \in Nat  BY <1>1, Constants DEF ReadTypes
<1>3. PagesPerChannel \in Nat
  <2>1. Len(chans) = 1 \/ Len(chans) = 2  BY SizeIs DEF ReadTypes
  <2>2. LCD_PAGES \in Nat  BY Constants
  <2> QED BY <2>1, <2>2 DEF PagesPerChannel
<1>4. PagesPerChannel * LCD_PAGE_SIZE \in Nat  BY <1>3, Constants
<1>5. OffsetPixels(c) \in Int  BY <1>4 DEF OffsetPixels
<1> DEFINE v == signal[sample.n] * (PagesPerChannel * LCD_PAGE_SIZE - 1)
<1>6. v \in Int  BY <1>2, <1>4
<1>7. v \div MAX_DIGITAL \in Int
  <2> HIDE DEF v
  <2> QED BY <1>6, Constants
<1>8. v \div MAX_DIGITAL + OffsetPixels(c) \in Int
  <2> HIDE DEF v
  <2> QED BY <1>5, <1>7
<1>9. sample.n \in Nat  BY <1>1
<1> QED BY <1>8, <1>9 DEF Pixel, Pix

(* There are as many pixels as conversions, and they keep their numbers *)
LEMMA PixelsTyped ==
    ASSUME ReadTypes, NEW c
    PROVE  /\ Pixels(c) \in Seq(Pix) /\ Len(Pixels(c)) = Len(Of(c))
           /\ \A k \in 1 .. Len(Of(c)) : Pixels(c)[k].n = Of(c)[k].n
<1>1. Of(c) \in Seq(Samples)  BY OfTyped
<1> DEFINE N == Len(Of(c))
           q == [i \in 1 .. N |-> Pixel(Of(c)[i], c)]
<1>2. N \in Nat /\ \A i \in 1 .. N : Of(c)[i] \in Samples  BY <1>1
<1>3. Pixels(c) = q  BY DEF Pixels
<1>4. q \in [1 .. N -> Pix]
  <2> HIDE DEF N
  <2> QED BY <1>2, PixelTyped
<1>5. \A k \in 1 .. N : q[k].n = Of(c)[k].n  BY DEF Pixel
<1> HIDE DEF N, q
<1>6. q \in Seq(Pix) /\ Len(q) = N  BY <1>2, <1>4
<1> QED BY <1>3, <1>5, <1>6 DEF N

-----------------------------------------------------------------------------
(* Types *)

STypes ==
    /\ ReadTypes
    /\ time \in 0 .. Period - 1 /\ turn \in 1 .. Len(chans)
    /\ rcr \in 0 .. Size /\ rncr \in {0, Size} /\ stored \in Nat
    /\ rcr = 0 => stored = 0 /\ rncr = 0
    /\ rcr > 0 => stored + rcr = Size
    /\ adc_channels \in [Indices -> [channel : {0, 3, 9}, draw : 0 .. W - 1]]
    /\ area \in [Indices -> Seq(Pix)] /\ \A c \in Indices : Len(area[c]) <= 2 * W
    /\ irq_on \in BOOLEAN /\ adc_buffers_rdy \in BOOLEAN /\ lcd_busy \in BOOLEAN
    /\ pc \in {"menu", "read_buffer", "loop", "draw", "drawn", "la"}

(* STypes is stronger than TypeOK *)
LEMMA TypesImply == ASSUME STypes PROVE TypeOK
<1>1. \A i \in 1 .. 4 * W : us_value[i].tag \in {-1, 0, 3, 9}
  BY DEF STypes, ReadTypes, Samples
<1>2. rcr \in 0 .. Size /\ rncr \in {0, Size} /\ stored + rcr \in {0, Size}
  BY SizeIs DEF STypes, ReadTypes
<1>3. \A c \in Indices : /\ adc_channels[c].channel \in {0, 3, 9}
                         /\ adc_channels[c].draw \in 0 .. W - 1
                         /\ Len(area[c]) <= 2 * W
  BY DEF STypes
<1> QED BY <1>1, <1>2, <1>3 DEF STypes, ReadTypes, TypeOK

(* What is ever written into us_value *)
LEMMA SamplesHas ==
    /\ Zero \in Samples /\ LaWord \in Samples
    /\ \A t \in {3, 9} : \A n \in 0 .. Period - 1 : [tag |-> t, n |-> n] \in Samples
BY Constants DEF Zero, LaWord, Samples

LEMMA TypesInit == ASSUME Init PROVE STypes
<1>1. ReadTypes
  <2>1. us_value \in [1 .. 4 * W -> Samples]  BY SamplesHas DEF Init
  <2>2. signal \in [0 .. Period - 1 -> 0 .. MAX_DIGITAL]
    BY ScopeAssumption DEF Init
  <2> QED BY <2>1, <2>2 DEF Init, ReadTypes
<1>2. chans = <<3>> /\ Len(chans) = 1 /\ Size \in Nat  BY <1>1, SizeIs DEF Init, ReadTypes
<1>3. adc_channels \in [Indices -> [channel : {0, 3, 9}, draw : 0 .. W - 1]]
  BY Constants DEF Init
<1>4. area \in [Indices -> Seq(Pix)] /\ \A c \in Indices : Len(area[c]) <= 2 * W
  BY Constants DEF Init
<1>5. irq_on \in BOOLEAN /\ adc_buffers_rdy \in BOOLEAN /\ lcd_busy \in BOOLEAN
  BY Zenon DEF Init
<1>6. time = 0 /\ turn = 1 /\ stored = 0 /\ rcr = 0 /\ rncr = 0 /\ pc = "menu"  BY DEF Init
<1> QED BY <1>1, <1>2, <1>3, <1>4, <1>5, <1>6, Constants DEF STypes

(* Steps that leave the ADC, its PDC and the channel buffers alone *)
LEMMA TypesSame ==
    ASSUME STypes, UNCHANGED <<adcVars, pdcVars, adc_channels, area>>,
           adc_buffers_rdy' \in BOOLEAN, lcd_busy' \in BOOLEAN,
           pc' \in {"menu", "read_buffer", "loop", "draw", "drawn", "la"}
    PROVE  STypes'
BY DEF STypes, ReadTypes, Size, adcVars, pdcVars

(* What adc_read_buffer does with a PDC that stores, and with one that     *)
(* does not                                                                *)
LEMMA ReadBufferTyped ==
    ASSUME STypes, adc_read_buffer
    PROVE  /\ rcr' \in 0 .. Size /\ rncr' \in {0, Size} /\ stored' \in Nat
           /\ rcr' = 0 => stored' = 0 /\ rncr' = 0
           /\ rcr' > 0 => stored' + rcr' = Size
           /\ RXBUFF => rcr' = Size /\ stored' = 0 /\ rncr' = rncr
           /\ ~RXBUFF => UNCHANGED <<rcr, stored>>
           /\ ~RXBUFF'
BY SizeIs DEF STypes, ReadTypes, adc_read_buffer, RXBUFF

(* The channels that can be set *)
LEMMA ChannelsAre ==
    ASSUME ReadTypes
    PROVE  /\ Len(chans) \in {1, 2}
           /\ \A c \in 1 .. Len(chans) : (c = 1 \/ c = 2) /\ chans[c] \in {3, 9}
           /\ Len(chans) = 2 => chans[1] = 3 /\ chans[2] = 9
<1>1. CASE chans = <<3>>  BY <1>1
<1>2. CASE chans = <<9>>  BY <1>2
<1>3. CASE chans = <<3, 9>>
  <2>1. Len(chans) = 2 /\ chans[1] = 3 /\ chans[2] = 9  BY <1>3
  <2>2. \A c \in 1 .. 2 : c = 1 \/ c = 2  OBVIOUS
  <2> QED BY <2>1, <2>2
<1> QED BY <1>1, <1>2, <1>3 DEF ReadTypes

(* What a pass of the handler leaves *)
LEMMA PassIs ==
    ASSUME STypes, HandlerPass
    PROVE  /\ adc_channels' \in [Indices -> [channel : {0, 3, 9}, draw : 0 .. W - 1]]
           /\ area' \in [Indices -> Seq(Pix)] /\ \A c \in Indices : Len(area'[c]) <= 2 * W
           /\ \A c \in Indices :
                /\ adc_channels'[c].channel = adc_channels[c].channel
                /\ adc_channels'[c].draw = Demultiplexed(Pixels(c)).thr_index
                /\ area'[c] = Demultiplexed(Pixels(c)).px
           /\ frame' = [c \in 1 .. Len(chans) |-> Due(Pixels(c - 1))]
           /\ adc_buffers_rdy' = TRUE
<1> DEFINE d == <<Demultiplexed(Pixels(0)), Demultiplexed(Pixels(1))>>
           q == <<Pixels(0), Pixels(1)>>
<1>1. /\ adc_channels' = [c \in Indices |-> [adc_channels[c] EXCEPT !.draw = d[c + 1].thr_index]]
      /\ area' = [c \in Indices |-> d[c + 1].px]
      /\ frame' = [c \in 1 .. Len(chans) |-> Due(q[c])]
      /\ adc_buffers_rdy' = TRUE
  <2>0. PICK read \in {<<Pixels(0), Pixels(1)>>} :
          \E done \in {<<Demultiplexed(read[1]), Demultiplexed(read[2])>>} :
            /\ adc_channels' = [c \in Indices |->
                                  [adc_channels[c] EXCEPT !.draw = done[c + 1].thr_index]]
            /\ area' = [c \in Indices |-> done[c + 1].px]
            /\ frame' = [c \in 1 .. Len(chans) |-> Due(read[c])]
            /\ adc_buffers_rdy' = TRUE
    BY Zenon DEF HandlerPass
  <2>1. PICK done \in {<<Demultiplexed(read[1]), Demultiplexed(read[2])>>} :
          /\ adc_channels' = [c \in Indices |->
                                [adc_channels[c] EXCEPT !.draw = done[c + 1].thr_index]]
          /\ area' = [c \in Indices |-> done[c + 1].px]
          /\ frame' = [c \in 1 .. Len(chans) |-> Due(read[c])]
          /\ adc_buffers_rdy' = TRUE
    BY <2>0, Zenon
  <2>2. read = q /\ read[1] = Pixels(0) /\ read[2] = Pixels(1)  OBVIOUS
  <2>3. done = d  BY <2>2
  <2> HIDE DEF d, q
  <2> QED BY <2>1, <2>2, <2>3
<1>2. \A c \in Indices : d[c + 1] = Demultiplexed(Pixels(c))  BY DEF Indices
<1>3. \A c \in 1 .. Len(chans) : q[c] = Pixels(c - 1)
  <2>1. \A c \in 1 .. Len(chans) : c = 1 \/ c = 2  BY ChannelsAre DEF STypes
  <2> QED BY <2>1
<1> HIDE DEF d, q
<1>4. \A c \in Indices : /\ d[c + 1].px \in Seq(Pix) /\ Len(d[c + 1].px) <= 2 * W
                         /\ d[c + 1].thr_index \in 0 .. W - 1
  BY <1>2, PixelsTyped, LoopBounds DEF STypes
<1>5. ASSUME NEW c \in Indices
      PROVE  /\ adc_channels'[c] \in [channel : {0, 3, 9}, draw : 0 .. W - 1]
             /\ adc_channels'[c].channel = adc_channels[c].channel
             /\ adc_channels'[c].draw = d[c + 1].thr_index
  <2>1. adc_channels[c] \in [channel : {0, 3, 9}, draw : 0 .. W - 1]  BY DEF STypes
  <2>2. adc_channels'[c] = [adc_channels[c] EXCEPT !.draw = d[c + 1].thr_index]  BY <1>1
  <2>3. d[c + 1].thr_index \in 0 .. W - 1  BY <1>4
  <2> QED BY <2>1, <2>2, <2>3
<1>6. adc_channels' \in [Indices -> [channel : {0, 3, 9}, draw : 0 .. W - 1]]
  BY <1>1, <1>5
<1>7. area' \in [Indices -> Seq(Pix)] /\ \A c \in Indices : Len(area'[c]) <= 2 * W
  BY <1>1, <1>4
<1>8. \A c \in Indices : /\ adc_channels'[c].draw = Demultiplexed(Pixels(c)).thr_index
                         /\ area'[c] = Demultiplexed(Pixels(c)).px
  BY <1>1, <1>2, <1>5
<1>9. frame' = [c \in 1 .. Len(chans) |-> Due(Pixels(c - 1))]  BY <1>1, <1>3
<1> QED BY <1>1, <1>5, <1>6, <1>7, <1>8, <1>9

(* What the ADC does to its PDC *)
LEMMA ConvertIs ==
    ASSUME STypes, Convert
    PROVE  /\ time' = (time + 1) % Period /\ time' \in 0 .. Period - 1
           /\ turn' = IF turn = Len(chans) THEN 1 ELSE turn + 1
           /\ us_value' \in [1 .. 4 * W -> Samples]
           /\ rcr = 0 => UNCHANGED pdcVars
           /\ rcr > 0 => /\ stored + 1 \in 1 .. Size
                         /\ us_value' = [us_value EXCEPT
                               ![stored + 1] = [tag |-> chans[turn], n |-> time]]
                         /\ rcr = 1 => stored + 1 = Size /\ stored' = 0 /\ rcr' = rncr /\ rncr' = 0
                         /\ rcr # 1 => stored' = stored + 1 /\ rcr' = rcr - 1 /\ rncr' = rncr
<1>1. time \in 0 .. Period - 1 /\ Period \in Nat /\ Period > 0 /\ turn \in 1 .. Len(chans)
      /\ Len(chans) \in {1, 2} /\ Size \in Nat /\ Size > 0 /\ Size <= 4 * W /\ W \in Nat
  BY Constants, SizeIs DEF STypes, ReadTypes
<1>2. time' = (time + 1) % Period /\ turn' = (turn % Len(chans)) + 1  BY DEF Convert
<1>3. time' \in 0 .. Period - 1
  <2>1. time + 1 \in Nat  BY <1>1
  <2> QED BY <1>1, <1>2, <2>1
<1>4. turn' = IF turn = Len(chans) THEN 1 ELSE turn + 1
  <2>1. CASE Len(chans) = 1  BY <1>1, <1>2, <2>1
  <2>2. CASE Len(chans) = 2  BY <1>1, <1>2, <2>2
  <2> QED BY <1>1, <2>1, <2>2
<1>5. CASE rcr = 0 /\ UNCHANGED pdcVars
  BY <1>2, <1>3, <1>4, <1>5 DEF STypes, ReadTypes, pdcVars
<1>6. CASE /\ rcr > 0
           /\ us_value' = [us_value EXCEPT ![stored + 1] = [tag |-> chans[turn], n |-> time]]
           /\ stored' = IF rcr = 1 THEN 0 ELSE stored + 1
           /\ rcr' = IF rcr = 1 THEN rncr ELSE rcr - 1
           /\ rncr' = IF rcr = 1 THEN 0 ELSE rncr
  <2>1. stored + rcr = Size /\ stored \in Nat /\ rcr \in Nat  BY <1>1, <1>6 DEF STypes
  <2>2. stored + 1 \in 1 .. Size /\ stored + 1 \in 1 .. 4 * W /\ (rcr = 1 => stored + 1 = Size)
    BY <1>1, <1>6, <2>1
  <2>3. chans[turn] \in {3, 9}  BY <1>1, ChannelsAre DEF STypes
  <2>4. [tag |-> chans[turn], n |-> time] \in Samples  BY <1>1, <2>3, SamplesHas
  <2>5. us_value' \in [1 .. 4 * W -> Samples]  BY <1>6, <2>2, <2>4 DEF STypes, ReadTypes
  <2>6. ~(rcr = 0)  BY <1>6
  <2> QED BY <1>2, <1>3, <1>4, <1>6, <2>2, <2>5, <2>6
<1> QED BY <1>5, <1>6 DEF Convert

LEMMA TypesStep == ASSUME STypes, [Next]_vars PROVE STypes'
<1>1. CASE UNCHANGED vars
  <2>1. UNCHANGED <<adcVars, pdcVars, adc_channels, area, adc_buffers_rdy, lcd_busy, pc>>
    BY <1>1 DEF vars, chanVars, mainVars
  <2> QED BY <2>1, TypesSame DEF STypes
<1>2. CASE Convert
  <2>1. UNCHANGED <<signal, chans, irq_on, adc_channels, area, adc_buffers_rdy, lcd_busy, pc>>
    BY <1>2 DEF Convert, chanVars, mainVars
  <2>2. Size' = Size /\ Size \in Nat /\ Size > 0  BY <2>1, SizeIs DEF Size, STypes, ReadTypes
  <2>3. turn' \in 1 .. Len(chans)'
    BY <1>2, <2>1, ConvertIs, SizeIs DEF STypes, ReadTypes
  <2>4. /\ rcr' \in 0 .. Size /\ rncr' \in {0, Size} /\ stored' \in Nat
        /\ rcr' = 0 => stored' = 0 /\ rncr' = 0
        /\ rcr' > 0 => stored' + rcr' = Size
    <3>1. CASE rcr = 0  BY <1>2, <2>2, <3>1, ConvertIs DEF STypes, pdcVars
    <3>2. CASE rcr = 1  BY <1>2, <2>2, <3>2, ConvertIs DEF STypes
    <3>3. CASE rcr > 1
      <4>1. stored' = stored + 1 /\ rcr' = rcr - 1 /\ rncr' = rncr
        BY <1>2, <2>2, <3>3, ConvertIs DEF STypes
      <4> QED BY <2>2, <3>3, <4>1 DEF STypes
    <3> QED BY <2>2, <3>1, <3>2, <3>3 DEF STypes
  <2> QED BY <1>2, <2>1, <2>2, <2>3, <2>4, ConvertIs DEF STypes, ReadTypes
<1>3. CASE ADC_Handler
  <2>1. UNCHANGED <<signal, time, chans, turn, irq_on, us_value, lcd_busy, pc>> /\ adc_read_buffer
    BY <1>3 DEF ADC_Handler, adcVars, mainVars
  <2>2. Size' = Size  BY <2>1 DEF Size
  <2>3. /\ adc_channels' \in [Indices -> [channel : {0, 3, 9}, draw : 0 .. W - 1]]
        /\ area' \in [Indices -> Seq(Pix)] /\ \A c \in Indices : Len(area'[c]) <= 2 * W
        /\ adc_buffers_rdy' \in BOOLEAN
    BY <1>3, PassIs DEF ADC_Handler, STypes, chanVars
  <2> QED BY <2>1, <2>2, <2>3, ReadBufferTyped DEF STypes, ReadTypes
<1>4. CASE LcdDone
  BY <1>4, TypesSame DEF LcdDone, chanVars, STypes
<1>5. CASE ReadBuffer
  <2>1. UNCHANGED <<adcVars, us_value, chanVars, lcd_busy>> /\ adc_read_buffer /\ pc' = "loop"
    BY <1>5 DEF ReadBuffer
  <2>2. Size' = Size  BY <2>1 DEF Size, adcVars
  <2> QED BY <2>1, <2>2, ReadBufferTyped DEF STypes, ReadTypes, adcVars, chanVars
<1>6. CASE Drawing \/ Leave \/ LaShow
  BY <1>6, TypesSame
  DEF Drawing, DrawBegin, DrawPixel, DrawRefresh, DrawEnd, Leave, LaShow, chanVars, STypes
<1>7. CASE Configure
  <2>1. PICK val \in ChannelSettings :
          /\ chans' = Channels(val)
          /\ adc_channels' = [c \in Indices |->
                IF c < Len(Channels(val)) THEN [channel |-> Channels(val)[c + 1], draw |-> 0]
                ELSE adc_channels[c]]
    BY <1>7 DEF Configure
  <2>2. Channels(val) \in {<<3>>, <<9>>, <<3, 9>>}  BY ScopeAssumption DEF Channels
  <2>3. adc_channels' \in [Indices -> [channel : {0, 3, 9}, draw : 0 .. W - 1]]
    <3> SUFFICES ASSUME NEW c \in Indices
                 PROVE  adc_channels'[c] \in [channel : {0, 3, 9}, draw : 0 .. W - 1]
      BY <2>1
    <3>1. CASE c < Len(Channels(val))
      <4>1. c + 1 \in 1 .. Len(Channels(val))  BY <2>2, <3>1 DEF Indices
      <4>2. Channels(val)[c + 1] \in {3, 9}  BY <2>2, <4>1
      <4>3. adc_channels'[c] = [channel |-> Channels(val)[c + 1], draw |-> 0]  BY <2>1, <3>1
      <4> QED BY <4>2, <4>3, Constants
    <3>2. CASE ~(c < Len(Channels(val)))
      <4>1. adc_channels'[c] = adc_channels[c]  BY <2>1, <3>2
      <4> QED BY <4>1 DEF STypes
    <3> QED BY <3>1, <3>2
  <2>4. us_value' \in [1 .. 4 * W -> Samples]
    <3>1. DOMAIN us_value = 1 .. 4 * W  BY DEF STypes, ReadTypes
    <3> QED BY <1>7, <3>1, SamplesHas DEF Configure
  <2>5. UNCHANGED <<signal, time, area, adc_buffers_rdy, lcd_busy>> /\ irq_on' = TRUE
        /\ turn' = 1 /\ stored' = 0 /\ rcr' = 0 /\ rncr' = 0 /\ pc' = "read_buffer"
    BY <1>7 DEF Configure
  <2>6. chans' \in {<<3>>, <<9>>, <<3, 9>>} /\ Size' \in Nat /\ turn' \in 1 .. Len(chans)'
    <3>1. chans' \in {<<3>>, <<9>>, <<3, 9>>}  BY <2>1, <2>2
    <3>2. Len(chans') \in {1, 2}  BY <3>1
    <3>3. Size' \in Nat
      <4>1. CASE Len(chans') = 1  BY <4>1, Constants DEF Size
      <4>2. CASE Len(chans') = 2  BY <4>2, Constants DEF Size
      <4> QED BY <3>2, <4>1, <4>2
    <3> QED BY <2>5, <3>1, <3>2, <3>3
  <2>7. irq_on' \in BOOLEAN  BY <2>5, Zenon
  <2> QED BY <2>3, <2>4, <2>5, <2>6, <2>7 DEF STypes, ReadTypes
<1>8. CASE LaAcquire
  <2>1. us_value' \in [1 .. 4 * W -> Samples]
    <3>1. DOMAIN us_value = 1 .. 4 * W  BY DEF STypes, ReadTypes
    <3> QED BY <1>8, <3>1, SamplesHas DEF LaAcquire
  <2>2. UNCHANGED <<adcVars, stored, rcr, rncr, adc_channels, adc_buffers_rdy, lcd_busy>>
        /\ area' = [c \in Indices |-> <<>>] /\ pc' = "la"
    BY <1>8 DEF LaAcquire
  <2>3. area' \in [Indices -> Seq(Pix)] /\ \A c \in Indices : Len(area'[c]) <= 2 * W
    BY <2>2, Constants
  <2> QED BY <2>1, <2>2, <2>3 DEF STypes, ReadTypes, Size, adcVars
<1> QED
  BY <1>1, <1>2, <1>3, <1>4, <1>5, <1>6, <1>7, <1>8 DEF Next, MainOwn, User

(* The PDC never leaves us_value; a pass of the handler stores no more for *)
(* a channel than a channel buffer holds, wherever the threshold is and    *)
(* whatever the transfer holds; and scope_draw draws from inside that: for *)
(* every width of the display and every signal.  It bounds lengths, and    *)
(* says nothing of an entry of adc_channels that has no buffer: after      *)
(* power-on with one channel the first pass stores through NULL.           *)
THEOREM BuffersHold == Spec => []TypeOK
<1>1. STypes /\ [Next]_vars => STypes'  BY TypesStep
<1>2. Init => STypes  BY TypesInit
<1>3. STypes => TypeOK  BY TypesImply
<1> QED BY <1>1, <1>2, <1>3, PTL DEF Spec

-----------------------------------------------------------------------------
(* What is drawn is what is due *)

(* The part of the program that draws, and what of it goes with a transfer *)
(* begun since the start of the oscilloscope *)
AtWork  == pc \in {"loop", "draw", "drawn"}
Running == AtWork \/ (pc = "read_buffer" /\ ~RXBUFF)

(* How much of us_value is of the transfer: all, when it is over *)
Held == IF rcr = 0 THEN Size ELSE stored

(* The channel of conversion i of the transfer: one channel, or two in     *)
(* turn, and either of them first *)
Whose(b, i) == IF Len(chans) = 1 \/ (i + b) % 2 = 0 THEN 1 ELSE 2

Sorted(b) ==
    /\ \A i \in 1 .. Held : us_value[i].tag = chans[Whose(b, i)]
    /\ rcr > 0 => turn = Whose(b, stored + 1)

(* The conversions of the transfer follow one another *)
Consecutive ==
    /\ \A i \in 1 .. Held - 1 : us_value[i + 1].n = (us_value[i].n + 1) % Period
    /\ rcr > 0 /\ stored > 0 => time = (us_value[stored].n + 1) % Period

InTransfer == Running => Consecutive /\ \E b \in {0, 1} : Sorted(b)

Configured ==
    AtWork \/ pc = "read_buffer" =>
        irq_on /\ \A c \in 1 .. Len(chans) : adc_channels[c - 1].channel = chans[c]

(* The frame scope_draw draws from is the one that is due *)
FrameGood ==
    /\ frame \in [1 .. Len(chans) -> Seq(Pix)]
    /\ \A c \in 1 .. Len(chans) :
        /\ Len(frame[c]) = W /\ InOrder(frame[c])
        /\ adc_channels[c - 1].draw + W <= Len(area[c - 1])
        /\ \A k \in 1 .. W : area[c - 1][adc_channels[c - 1].draw + k] = frame[c][k]

FrameReady ==
    /\ pc = "read_buffer" => first
    /\ AtWork /\ ~first /\ adc_buffers_rdy => FrameGood

CanvasGood ==
    pc \in {"draw", "drawn"} =>
        /\ canvas \in [1 .. Len(chans) -> Seq(Pix)]
        /\ \A c \in 1 .. Len(chans) :
            /\ Len(canvas[c]) <= W /\ (pc = "drawn" => Len(canvas[c]) = W)
            /\ ~first => \A k \in 1 .. Len(canvas[c]) : canvas[c][k] = frame[c][k]

DInv ==
    /\ STypes /\ DrawsReady
    /\ InTransfer /\ Configured /\ FrameReady /\ CanvasGood

(* Two steps around the period *)
LEMMA ModTwo ==
    ASSUME NEW n \in 0 .. Period - 1
    PROVE  /\ (n + 1) % Period \in 0 .. Period - 1
           /\ (((n + 1) % Period) + 1) % Period = (n + 2) % Period
<1> DEFINE p == Period
<1>1. p \in Nat /\ p > 0 /\ n \in 0 .. p - 1  BY Constants
<1> HIDE DEF p
<1>2. (n + 1) % p = IF n + 1 = p THEN 0 ELSE n + 1
  <2>1. CASE n + 1 = p  BY <1>1, <2>1
  <2>2. CASE n + 1 # p  BY <1>1, <2>2
  <2> QED BY <2>1, <2>2
<1>3. (((n + 1) % p) + 1) % p = (n + 2) % p
  <2>1. CASE n + 1 # p  BY <1>1, <1>2, <2>1
  <2>2. CASE n + 1 = p /\ p = 1
    <3>1. n = 0  BY <1>1, <2>2
    <3> QED BY <2>2, <3>1
  <2>3. CASE n + 1 = p /\ p > 1
    <3>1. (n + 1) % p = 0 /\ 1 % p = 1  BY <1>1, <1>2, <2>3
    <3>2. (p + 1) % p = 1  BY <1>1, <2>3
    <3>3. n + 2 = p + 1  BY <1>1, <2>3
    <3> QED BY <3>1, <3>2, <3>3
  <2> QED BY <1>1, <2>1, <2>2, <2>3
<1> QED BY <1>1, <1>2, <1>3 DEF p

(* Of two conversions in a row one is at an even place *)
LEMMA Parity ==
    ASSUME NEW i \in Nat
    PROVE  i % 2 # 0 <=> (i + 1) % 2 = 0
<1>1. PICK q \in Nat, r \in 0 .. 1 : i = 2 * q + r
  <2>1. i = 2 * (i \div 2) + (i % 2) /\ i \div 2 \in Nat /\ i % 2 \in 0 .. 1  OBVIOUS
  <2> QED BY <2>1
<1>2. CASE r = 0
  <2>1. i % 2 = 0 /\ (i + 1) % 2 = 1  BY <1>1, <1>2
  <2> QED BY <2>1
<1>3. CASE r = 1
  <2>1. i + 1 = 2 * (q + 1) /\ i % 2 = 1  BY <1>1, <1>3
  <2>2. (i + 1) % 2 = 0  BY <1>1, <2>1
  <2> QED BY <2>1, <2>2
<1> QED BY <1>1, <1>2, <1>3

(* The conversions of a channel in a transfer that is over *)
LEMMA EachHasItsOwn ==
    ASSUME ReadTypes, NEW b \in {0, 1}, Sorted(b), rcr = 0,
           \A c \in 1 .. Len(chans) : adc_channels[c - 1].channel = chans[c],
           NEW c \in 1 .. Len(chans)
    PROVE  \E o \in 0 .. Len(chans) - 1 :
              /\ Len(Of(c - 1)) = 2 * W
              /\ \A k \in 1 .. 2 * W : Of(c - 1)[k] = us_value[Len(chans) * k - o]
<1>1. /\ Len(chans) \in {1, 2} /\ Size = 2 * W * Len(chans) /\ W \in Nat /\ Size \in Nat
      /\ \A i \in 1 .. Len(chans) : Tag(i - 1) = chans[i]
      /\ \A i \in 1 .. Size : us_value[i].tag = chans[Whose(b, i)]
  BY SizeIs, Constants DEF Sorted, Held, ReadTypes, Tag
<1>2. CASE Len(chans) = 1
  <2>1. c = 1 /\ Tag(0) = chans[1]
    <3>1. c = 1 /\ 1 \in 1 .. Len(chans) /\ 1 - 1 = 0  BY <1>2
    <3> QED BY <1>1, <3>1
  <2>2. \A i \in 1 .. Size : us_value[i].tag = Tag(0)  BY <1>1, <1>2, <2>1 DEF Whose
  <2>3. Looked = Size  BY <2>2, LookedIs
  <2>4. \A i \in 1 .. Looked : Mine(0, us_value[i]) <=> (i + 0) % 1 = 0
    <3>1. \A i \in 1 .. Looked : Mine(0, us_value[i])  BY <2>2, <2>3 DEF Mine
    <3>2. \A i \in 1 .. Looked : (i + 0) % 1 = 0  OBVIOUS
    <3> QED BY <3>1, <3>2
  <2>5. Looked = 2 * W * 1 /\ 1 \in {1, 2} /\ 0 \in 0 .. 1 - 1
    <3>1. Looked = 2 * W * Len(chans)  BY <1>1, <2>3, Zenon
    <3>2. Looked = 2 * W * 1  BY <1>2, <3>1, Zenon
    <3> QED BY <3>2
  <2>6. Len(Of(0)) = 2 * W /\ \A k \in 1 .. 2 * W : Of(0)[k] = us_value[1 * k - 0]
    BY <2>4, <2>5, OfEvery
  <2> QED BY <1>2, <2>1, <2>6
<1>3. CASE Len(chans) = 2
  <2>1. Tag(0) = 3 /\ Tag(1) = 9 /\ (c = 1 \/ c = 2) /\ chans[1] = 3 /\ chans[2] = 9
    <3>1. chans[1] = 3 /\ chans[2] = 9 /\ (c = 1 \/ c = 2)  BY <1>3, ChannelsAre
    <3>2. 1 \in 1 .. Len(chans) /\ 2 \in 1 .. Len(chans) /\ 1 - 1 = 0 /\ 2 - 1 = 1  BY <1>3
    <3> QED BY <1>1, <3>1, <3>2
  <2>2. \A i \in 1 .. Size : us_value[i].tag = IF (i + b) % 2 = 0 THEN 3 ELSE 9
    BY <1>1, <1>3, <2>1 DEF Whose
  <2>3. Looked = Size
    <3>1. \A i \in 1 .. Size : us_value[i].tag \in {Tag(0), Tag(1)}  BY <2>1, <2>2
    <3> QED BY <3>1, LookedIs
  <2>4. Looked = 2 * W * 2 /\ 2 \in {1, 2} /\ b \in 0 .. 2 - 1 /\ 1 - b \in 0 .. 2 - 1
    <3>1. Looked = 2 * W * Len(chans)  BY <1>1, <2>3, Zenon
    <3>2. Looked = 2 * W * 2  BY <1>3, <3>1, Zenon
    <3>3. b \in 0 .. 2 - 1 /\ 1 - b \in 0 .. 2 - 1
      <4>1. CASE b = 0  BY <4>1
      <4>2. CASE b = 1  BY <4>2
      <4> QED BY <4>1, <4>2
    <3> QED BY <3>2, <3>3
  <2>5. CASE c = 1
    <3>1. \A i \in 1 .. Looked : Mine(0, us_value[i]) <=> (i + b) % 2 = 0
      BY <2>1, <2>2, <2>3 DEF Mine
    <3>2. Len(Of(0)) = 2 * W /\ \A k \in 1 .. 2 * W : Of(0)[k] = us_value[2 * k - b]
      BY <2>4, <3>1, OfEvery
    <3>3. c - 1 = 0 /\ Len(chans) - 1 = 1 /\ b \in 0 .. 1  BY <1>3, <2>5
    <3>4. \E o \in 0 .. 1 : Len(Of(0)) = 2 * W /\ \A k \in 1 .. 2 * W : Of(0)[k] = us_value[2 * k - o]
      BY <3>2, <3>3
    <3> QED BY <1>3, <3>3, <3>4
  <2>6. CASE c = 2
    <3>1. \A i \in 1 .. Looked : Mine(1, us_value[i]) <=> (i + (1 - b)) % 2 = 0
      <4> SUFFICES ASSUME NEW i \in 1 .. Looked
                   PROVE  Mine(1, us_value[i]) <=> (i + (1 - b)) % 2 = 0
        OBVIOUS
      <4>1. Mine(1, us_value[i]) <=> (i + b) % 2 # 0  BY <2>1, <2>2, <2>3 DEF Mine
      <4>2. (i + b) % 2 # 0 <=> (i + (1 - b)) % 2 = 0
        <5>i. i \in Nat  BY <1>1, <2>3
        <5>1. CASE b = 0
          <6>1. i + b = i /\ i + (1 - b) = i + 1  BY <5>i, <5>1
          <6>2. i % 2 # 0 <=> (i + 1) % 2 = 0  BY <5>i, Parity
          <6> QED BY <6>1, <6>2
        <5>2. CASE b = 1
          <6>1. i + b = i + 1 /\ i + (1 - b) = i  BY <5>i, <5>2
          <6>2. (i + 1) % 2 # 0 <=> i % 2 = 0  BY <5>i, Parity
          <6> QED BY <6>1, <6>2
        <5> QED BY <5>1, <5>2
      <4> QED BY <4>1, <4>2
    <3>2. Len(Of(1)) = 2 * W /\ \A k \in 1 .. 2 * W : Of(1)[k] = us_value[2 * k - (1 - b)]
      BY <2>4, <3>1, OfEvery
    <3>3. c - 1 = 1 /\ Len(chans) - 1 = 1 /\ 1 - b \in 0 .. 1  BY <1>3, <2>6
    <3>4. \E o \in 0 .. 1 : Len(Of(1)) = 2 * W /\ \A k \in 1 .. 2 * W : Of(1)[k] = us_value[2 * k - o]
      BY <3>2, <3>3
    <3> QED BY <1>3, <3>3, <3>4
  <2> QED BY <2>1, <2>5, <2>6
<1> QED BY <1>1, <1>2, <1>3

(* The pixels of a channel in a transfer that is over follow one another *)
LEMMA EachInOrder ==
    ASSUME ReadTypes, NEW b \in {0, 1}, Sorted(b), Consecutive, rcr = 0,
           \A c \in 1 .. Len(chans) : adc_channels[c - 1].channel = chans[c],
           NEW c \in 1 .. Len(chans)
    PROVE  /\ Pixels(c - 1) \in Seq(Pix) /\ Len(Pixels(c - 1)) = 2 * W
           /\ \A k \in 1 .. 2 * W - 1 :
                Pixels(c - 1)[k + 1].n = (Pixels(c - 1)[k].n + Len(chans)) % Period
<1>1. PICK o \in 0 .. Len(chans) - 1 :
         /\ Len(Of(c - 1)) = 2 * W
         /\ \A k \in 1 .. 2 * W : Of(c - 1)[k] = us_value[Len(chans) * k - o]
  BY EachHasItsOwn
<1>2. /\ Pixels(c - 1) \in Seq(Pix) /\ Len(Pixels(c - 1)) = 2 * W
      /\ \A k \in 1 .. 2 * W : Pixels(c - 1)[k].n = Of(c - 1)[k].n
  BY <1>1, PixelsTyped
<1>3. ASSUME NEW k \in 1 .. 2 * W - 1
      PROVE  us_value[Len(chans) * (k + 1) - o].n
                = (us_value[Len(chans) * k - o].n + Len(chans)) % Period
  <2>0. /\ W \in Nat /\ W > 0 /\ Size = 2 * W * Len(chans) /\ Size <= 4 * W /\ Size \in Nat
        /\ Len(chans) \in {1, 2} /\ Period \in Nat /\ Period > 0
    BY Constants, SizeIs DEF ReadTypes
  <2>1. \A i \in 1 .. Size - 1 : us_value[i + 1].n = (us_value[i].n + 1) % Period
    BY DEF Consecutive, Held
  <2>2. \A i \in 1 .. Size : us_value[i].n \in 0 .. Period - 1
    <3>1. \A i \in 1 .. Size : i \in 1 .. 4 * W  BY <2>0
    <3> QED BY <3>1 DEF ReadTypes, Samples
  <2>3. CASE Len(chans) = 1
    <3>1. o = 0 /\ k \in 1 .. Size - 1  BY <2>0, <2>3
    <3> QED BY <2>1, <2>3, <3>1
  <2>4. CASE Len(chans) = 2
    <3>1. PICK i : i = 2 * k - o  OBVIOUS
    <3>2. i \in 1 .. Size - 1 /\ i + 1 \in 1 .. Size - 1 /\ 2 * (k + 1) - o = (i + 1) + 1
      BY <2>0, <2>4, <3>1
    <3>3. us_value[i + 1].n = (us_value[i].n + 1) % Period
          /\ us_value[(i + 1) + 1].n = (us_value[i + 1].n + 1) % Period
      BY <2>1, <3>2
    <3>4. us_value[i].n \in 0 .. Period - 1  BY <2>0, <2>2, <3>2
    <3>5. us_value[(i + 1) + 1].n = (us_value[i].n + 2) % Period  BY <3>3, <3>4, ModTwo
    <3> QED BY <2>4, <3>1, <3>2, <3>5
  <2> QED BY <2>0, <2>3, <2>4
<1>4. \A k \in 1 .. 2 * W - 1 : k \in 1 .. 2 * W /\ k + 1 \in 1 .. 2 * W  BY Constants
<1> QED BY <1>1, <1>2, <1>3, <1>4

(* A pass after a transfer that is over makes a frame that is due *)
LEMMA PassIsGood ==
    ASSUME STypes, InTransfer, Configured, AtWork, rcr = 0, HandlerPass, UNCHANGED chans
    PROVE  FrameGood'
<1>1. PICK b \in {0, 1} : Sorted(b)  BY DEF InTransfer, Running
<1>2. Consecutive /\ \A c \in 1 .. Len(chans) : adc_channels[c - 1].channel = chans[c]
  BY DEF InTransfer, Running, Configured
<1>3. \A c \in 1 .. Len(chans) :
         /\ Pixels(c - 1) \in Seq(Pix) /\ Len(Pixels(c - 1)) = 2 * W
         /\ \A k \in 1 .. 2 * W - 1 :
              Pixels(c - 1)[k + 1].n = (Pixels(c - 1)[k].n + Len(chans)) % Period
  BY <1>1, <1>2, EachInOrder DEF STypes
<1>4. frame' = [c \in 1 .. Len(chans) |-> Due(Pixels(c - 1))]  BY PassIs
<1>5. ASSUME NEW c \in 1 .. Len(chans)
      PROVE  /\ frame'[c] \in Seq(Pix) /\ Len(frame'[c]) = W
             /\ \A k \in 1 .. W - 1 :
                    frame'[c][k + 1].n = (frame'[c][k].n + Len(chans)) % Period
             /\ adc_channels'[c - 1].draw + W <= Len(area'[c - 1])
             /\ \A k \in 1 .. W : area'[c - 1][adc_channels'[c - 1].draw + k] = frame'[c][k]
  <2>1. PICK s : s = Demultiplexed(Pixels(c - 1))  OBVIOUS
  <2>2. PICK t : t = s.thr_index  OBVIOUS
  <2>3. /\ Pixels(c - 1) \in Seq(Pix) /\ Len(Pixels(c - 1)) = 2 * W
        /\ \A k \in 1 .. 2 * W - 1 :
              Pixels(c - 1)[k + 1].n = (Pixels(c - 1)[k].n + Len(chans)) % Period
    BY <1>3
  <2>4. frame'[c] = Due(Pixels(c - 1))  BY <1>4
  <2>5. /\ frame'[c] \in Seq(Pix) /\ Len(frame'[c]) = W
        /\ t \in 0 .. W - 1 /\ Len(s.px) = t + W
        /\ \A k \in 1 .. W : frame'[c][k] = Pixels(c - 1)[t + k] /\ s.px[t + k] = frame'[c][k]
    BY <2>1, <2>2, <2>3, <2>4, LoopIsDue
  <2>6. c - 1 \in Indices  BY ChannelsAre DEF Indices, STypes
  <2>7. adc_channels'[c - 1].draw = t /\ area'[c - 1] = s.px  BY <2>1, <2>2, <2>6, PassIs
  <2>8. W \in Nat /\ W > 0  BY Constants
  <2>9. ASSUME NEW k \in 1 .. W - 1
        PROVE  frame'[c][k + 1].n = (frame'[c][k].n + Len(chans)) % Period
    <3>1. k \in 1 .. W /\ k + 1 \in 1 .. W /\ t + k \in 1 .. 2 * W - 1 /\ (t + k) + 1 = t + (k + 1)
      BY <2>5, <2>8
    <3>2. frame'[c][k] = Pixels(c - 1)[t + k] /\ frame'[c][k + 1] = Pixels(c - 1)[t + (k + 1)]
      BY <2>5, <3>1
    <3>3. Pixels(c - 1)[(t + k) + 1].n = (Pixels(c - 1)[t + k].n + Len(chans)) % Period
      BY <2>3, <3>1
    <3> QED BY <3>1, <3>2, <3>3
  <2>10. t + W <= Len(s.px)  BY <2>5, <2>8
  <2> QED BY <2>5, <2>7, <2>9, <2>10
<1>6. frame' \in [1 .. Len(chans)' -> Seq(Pix)]
  <2>1. frame' = [c \in 1 .. Len(chans) |-> frame'[c]]  BY <1>4
  <2> QED BY <1>5, <2>1
<1>7. \A c \in 1 .. Len(chans)' : InOrder(frame[c])'  BY <1>5 DEF InOrder
<1> QED BY <1>5, <1>6, <1>7 DEF FrameGood

(* The PDC goes on where it is *)
LEMMA TransferSame ==
    ASSUME InTransfer, Running' => Running, UNCHANGED <<time, chans, turn, us_value, stored, rcr>>
    PROVE  InTransfer'
BY DEF InTransfer, Consecutive, Sorted, Whose, Held, Size

(* ... or begins a transfer, at either channel *)
LEMMA TransferNew ==
    ASSUME STypes, STypes', stored' = 0, rcr' > 0
    PROVE  InTransfer'
<1>1. PICK b \in {0, 1} : turn' = Whose(b, 1)'
  <2>1. ReadTypes' /\ turn' \in 1 .. Len(chans)'  BY DEF STypes
  <2>2. CASE Len(chans)' = 1
    <3>1. turn' = Whose(0, 1)'  BY <2>1, <2>2 DEF Whose
    <3> QED BY <3>1
  <2>3. CASE Len(chans)' = 2 /\ turn' = 1
    <3>1. turn' = Whose(1, 1)'  BY <2>3 DEF Whose
    <3> QED BY <3>1
  <2>4. CASE Len(chans)' = 2 /\ turn' = 2
    <3>1. turn' = Whose(0, 1)'  BY <2>4 DEF Whose
    <3> QED BY <3>1
  <2>5. Len(chans)' \in {1, 2}  BY <2>1 DEF ReadTypes
  <2>6. turn' = 1 \/ (turn' = 2 /\ Len(chans)' = 2)
    <3>1. PICK n : n = Len(chans)'  OBVIOUS
    <3>2. turn' \in 1 .. n /\ n \in {1, 2}  BY <2>1, <2>5, <3>1
    <3>3. turn' = 1 \/ (turn' = 2 /\ n = 2)
      <4>1. CASE n = 1  BY <3>2, <4>1
      <4>2. CASE n = 2  BY <3>2, <4>2
      <4> QED BY <3>2, <4>1, <4>2
    <3> QED BY <3>1, <3>3
  <2> QED BY <2>2, <2>3, <2>4, <2>5, <2>6
<1>2. Held' = 0  BY DEF Held
<1>3. Sorted(b)' /\ Consecutive'  BY <1>1, <1>2 DEF Sorted, Consecutive
<1> QED BY <1>3 DEF InTransfer

(* The channels of two conversions in a row *)
LEMMA NextOne ==
    ASSUME ReadTypes, NEW b \in {0, 1}, NEW i \in Nat
    PROVE  Whose(b, i + 1) = IF Whose(b, i) = Len(chans) THEN 1 ELSE Whose(b, i) + 1
<1>1. Len(chans) \in {1, 2}  BY ChannelsAre
<1>2. CASE Len(chans) = 1  BY <1>2 DEF Whose
<1>3. CASE Len(chans) = 2
  <2>1. i + b \in Nat /\ (i + 1) + b = (i + b) + 1  OBVIOUS
  <2>2. (i + b) % 2 # 0 <=> ((i + b) + 1) % 2 = 0  BY <2>1, Parity
  <2>3. (i + b) % 2 # 0 <=> ((i + 1) + b) % 2 = 0  BY <2>1, <2>2
  <2>4. /\ Whose(b, i) = IF (i + b) % 2 = 0 THEN 1 ELSE 2
        /\ Whose(b, i + 1) = IF ((i + 1) + b) % 2 = 0 THEN 1 ELSE 2
    BY <1>3 DEF Whose
  <2> QED BY <1>3, <2>3, <2>4
<1> QED BY <1>1, <1>2, <1>3

(* A conversion that is stored is the next of the transfer *)
LEMMA OneMore ==
    ASSUME STypes, Convert, rcr > 0, Consecutive, NEW b \in {0, 1}, Sorted(b)
    PROVE  /\ \A i \in 1 .. stored + 1 : us_value'[i].tag = chans[Whose(b, i)]
           /\ \A i \in 1 .. stored : us_value'[i + 1].n = (us_value'[i].n + 1) % Period
           /\ turn' = Whose(b, stored + 2) /\ time' = (us_value'[stored + 1].n + 1) % Period
<1>1. /\ Held = stored /\ turn = Whose(b, stored + 1) /\ stored \in Nat
      /\ \A i \in 1 .. stored : us_value[i].tag = chans[Whose(b, i)]
      /\ \A i \in 1 .. stored - 1 : us_value[i + 1].n = (us_value[i].n + 1) % Period
      /\ stored > 0 => time = (us_value[stored].n + 1) % Period
  BY DEF Held, Sorted, Consecutive, STypes
<1>2. stored + 1 \in 1 .. 4 * W /\ stored + 1 \in 1 .. Size
  <2>1. stored + 1 \in 1 .. Size  BY ConvertIs
  <2>2. Size \in Nat /\ Size <= 4 * W /\ W \in Nat  BY SizeIs, Constants DEF STypes, ReadTypes
  <2> QED BY <2>1, <2>2
<1>3. us_value' = [us_value EXCEPT ![stored + 1] = [tag |-> chans[turn], n |-> time]]
  BY ConvertIs
<1>4. DOMAIN us_value = 1 .. 4 * W  BY DEF STypes, ReadTypes
<1>5. /\ us_value'[stored + 1] = [tag |-> chans[turn], n |-> time]
      /\ \A i \in 1 .. stored : us_value'[i] = us_value[i]
  <2>1. \A i \in 1 .. stored : i \in 1 .. 4 * W /\ i # stored + 1  BY <1>1, <1>2, Constants
  <2> QED BY <1>2, <1>3, <1>4, <2>1
<1>6. ASSUME NEW i \in 1 .. stored + 1 PROVE us_value'[i].tag = chans[Whose(b, i)]
  <2>1. CASE i = stored + 1  BY <1>1, <1>5, <2>1
  <2>2. CASE i # stored + 1
    <3>1. i \in 1 .. stored  BY <1>1, <2>2
    <3> QED BY <1>1, <1>5, <3>1
  <2> QED BY <2>1, <2>2
<1>7. ASSUME NEW i \in 1 .. stored PROVE us_value'[i + 1].n = (us_value'[i].n + 1) % Period
  <2>1. CASE i = stored
    <3>1. stored > 0  BY <1>1, <2>1
    <3>2. us_value'[i] = us_value[i] /\ us_value'[i + 1].n = time  BY <1>5, <2>1
    <3> QED BY <1>1, <2>1, <3>1, <3>2
  <2>2. CASE i # stored
    <3>1. i \in 1 .. stored - 1 /\ i + 1 \in 1 .. stored  BY <1>1, <2>2
    <3> QED BY <1>1, <1>5, <3>1
  <2> QED BY <2>1, <2>2
<1>8. turn' = Whose(b, stored + 2)
  <2>1. stored + 1 \in Nat /\ (stored + 1) + 1 = stored + 2  BY <1>1
  <2>2. turn' = IF turn = Len(chans) THEN 1 ELSE turn + 1  BY ConvertIs
  <2> QED BY <1>1, <2>1, <2>2, NextOne DEF STypes
<1>9. time' = (us_value'[stored + 1].n + 1) % Period
  <2>1. time' = (time + 1) % Period  BY ConvertIs
  <2> QED BY <1>5, <2>1
<1> QED BY <1>6, <1>7, <1>8, <1>9

(* A conversion leaves what is stored in order *)
LEMMA TransferConvert == ASSUME STypes, STypes', InTransfer, Convert PROVE InTransfer'
<1>1. chans' = chans /\ pc' = pc /\ Size' = Size  BY DEF Convert, mainVars, Size
<1>2. CASE rcr = 0
  <2>1. UNCHANGED <<us_value, stored, rcr, rncr>>  BY <1>2, ConvertIs DEF pdcVars
  <2>2. Running' => Running  BY <1>1, <2>1 DEF Running, AtWork, RXBUFF
  <2>3. rcr' = 0 /\ ~(rcr' > 0) /\ ~(rcr > 0) /\ Held' = Size /\ Held = Size
    BY <1>1, <1>2, <2>1 DEF Held
  <2>4. Consecutive => Consecutive'  BY <2>1, <2>3 DEF Consecutive
  <2>5. ASSUME NEW b \in {0, 1}, Sorted(b) PROVE Sorted(b)'
    BY <1>1, <2>1, <2>3, <2>5 DEF Sorted, Whose
  <2> QED BY <2>2, <2>4, <2>5 DEF InTransfer
<1>3. CASE rcr = 1 /\ rncr # 0
  <2>1. stored' = 0 /\ rcr' = rncr /\ rncr \in {0, Size} /\ Size > 0
    BY <1>3, ConvertIs, SizeIs DEF STypes, ReadTypes
  <2> QED BY <1>3, <2>1, TransferNew
<1>4. CASE rcr > 0 /\ ~(rcr = 1 /\ rncr # 0)
  <2> SUFFICES ASSUME Running' PROVE Consecutive' /\ \E b \in {0, 1} : Sorted(b)'
    BY DEF InTransfer
  <2>1. Running
    <3>1. ~RXBUFF  BY <1>4 DEF RXBUFF
    <3> QED BY <1>1, <3>1 DEF Running, AtWork
  <2>2. PICK b \in {0, 1} : Consecutive /\ Sorted(b)  BY <2>1 DEF InTransfer
  <2>3. /\ \A i \in 1 .. stored + 1 : us_value'[i].tag = chans[Whose(b, i)]
        /\ \A i \in 1 .. stored : us_value'[i + 1].n = (us_value'[i].n + 1) % Period
        /\ turn' = Whose(b, stored + 2) /\ time' = (us_value'[stored + 1].n + 1) % Period
    BY <1>4, <2>2, OneMore
  <2>4. \A i : Whose(b, i)' = Whose(b, i)  BY <1>1 DEF Whose
  <2>5. stored \in Nat /\ rcr \in Nat /\ Size \in Nat  BY SizeIs DEF STypes, ReadTypes
  <2>6. Held' = stored + 1 /\ (rcr' > 0 => stored' = stored + 1)
    <3>1. CASE rcr = 1
      <4>1. rncr = 0 /\ stored + 1 = Size /\ rcr' = 0  BY <1>4, <3>1, ConvertIs
      <4> QED BY <1>1, <4>1 DEF Held
    <3>2. CASE rcr # 1
      <4>1. stored' = stored + 1 /\ rcr' = rcr - 1  BY <1>4, <3>2, ConvertIs
      <4>2. rcr' # 0  BY <1>4, <2>5, <3>2, <4>1
      <4> QED BY <4>1, <4>2 DEF Held
    <3> QED BY <3>1, <3>2
  <2>7. (stored + 1) - 1 = stored /\ (stored + 1) + 1 = stored + 2  BY <2>5
  <2>8. Sorted(b)'  BY <1>1, <2>3, <2>4, <2>6, <2>7 DEF Sorted
  <2>9. Consecutive'  BY <2>3, <2>6, <2>7 DEF Consecutive
  <2> QED BY <2>8, <2>9
<1> QED BY <1>2, <1>3, <1>4, SizeIs DEF STypes, ReadTypes

(* ... and so does everything else *)
LEMMA TransferStep ==
    ASSUME STypes, STypes', Configured, InTransfer, Next PROVE InTransfer'
<1>1. CASE Convert  BY <1>1, TransferConvert
<1>2. CASE ADC_Handler
  <2>1. adc_read_buffer /\ RXBUFF /\ UNCHANGED chans  BY <1>2 DEF ADC_Handler, IrqPending, adcVars
  <2>2. stored' = 0 /\ rcr' > 0  BY <2>1, SizeIs DEF adc_read_buffer, STypes, ReadTypes
  <2> QED BY <2>2, TransferNew
<1>3. CASE MainMayRun /\ ReadBuffer
  <2>1. pc = "read_buffer" /\ irq_on /\ ~RXBUFF  BY <1>3 DEF ReadBuffer, Configured, MainMayRun, IrqPending
  <2>2. UNCHANGED <<time, chans, turn, us_value, stored, rcr>>
    BY <1>3, <2>1, ReadBufferTyped DEF ReadBuffer, adcVars
  <2>3. Running  BY <2>1 DEF Running
  <2> QED BY <2>2, <2>3, TransferSame
<1>4. CASE Drawing \/ LcdDone
  <2>1. UNCHANGED <<time, chans, turn, us_value, stored, rcr, rncr>>
    BY <1>4 DEF Drawing, DrawBegin, DrawPixel, DrawRefresh, DrawEnd, LcdDone, adcVars, pdcVars
  <2>2. pc' = pc \/ AtWork
    BY <1>4 DEF Drawing, DrawBegin, DrawPixel, DrawRefresh, DrawEnd, LcdDone, AtWork
  <2>3. Running' => Running  BY <2>1, <2>2 DEF Running, AtWork, RXBUFF
  <2> QED BY <2>1, <2>3, TransferSame
<1>5. CASE User
  <2>1. ~Running'
    <3>1. CASE Configure  BY <3>1 DEF Configure, Running, AtWork, RXBUFF
    <3>2. CASE Leave \/ LaAcquire \/ LaShow
      BY <3>2 DEF Leave, LaAcquire, LaShow, Running, AtWork
    <3> QED BY <1>5, <3>1, <3>2 DEF User
  <2> QED BY <2>1 DEF InTransfer
<1> QED BY <1>1, <1>2, <1>3, <1>4, <1>5 DEF Next, MainOwn

(* While the oscilloscope runs its channels stay as configured *)
LEMMA ConfiguredStep == ASSUME STypes, Configured, Next PROVE Configured'
<1>1. CASE Convert \/ LcdDone \/ ReadBuffer \/ Drawing
  <2>1. UNCHANGED <<irq_on, chans, adc_channels>>
    BY <1>1 DEF Convert, LcdDone, ReadBuffer, Drawing, DrawBegin, DrawPixel, DrawRefresh, DrawEnd,
                adcVars, chanVars
  <2>2. AtWork' \/ pc' = "read_buffer" => AtWork \/ pc = "read_buffer"
    BY <1>1 DEF Convert, LcdDone, ReadBuffer, Drawing, DrawBegin, DrawPixel, DrawRefresh, DrawEnd,
                mainVars, AtWork
  <2> QED BY <2>1, <2>2 DEF Configured
<1>2. CASE ADC_Handler
  <2>1. UNCHANGED <<irq_on, chans, pc>>  BY <1>2 DEF ADC_Handler, adcVars, mainVars
  <2>2. \A c \in Indices : adc_channels'[c].channel = adc_channels[c].channel
    BY <1>2, PassIs DEF ADC_Handler, chanVars
  <2>3. \A c \in 1 .. Len(chans) : c - 1 \in Indices  BY ChannelsAre DEF Indices, STypes
  <2> QED BY <2>1, <2>2, <2>3 DEF Configured, AtWork
<1>3. CASE Configure
  <2>1. PICK val \in ChannelSettings :
          /\ chans' = Channels(val)
          /\ adc_channels' = [c \in Indices |->
                IF c < Len(Channels(val)) THEN [channel |-> Channels(val)[c + 1], draw |-> 0]
                ELSE adc_channels[c]]
    BY <1>3 DEF Configure
  <2>2. Channels(val) \in {<<3>>, <<9>>, <<3, 9>>}  BY ScopeAssumption DEF Channels
  <2>3. irq_on'  BY <1>3, Zenon DEF Configure
  <2>4. ASSUME NEW c \in 1 .. Len(Channels(val))
        PROVE  adc_channels'[c - 1].channel = Channels(val)[c]
    <3>1. Len(Channels(val)) \in {1, 2}  BY <2>2
    <3>2. PICK n : n = Len(Channels(val))  OBVIOUS
    <3>3. n \in {1, 2} /\ c \in 1 .. n  BY <3>1, <3>2
    <3>4. c - 1 \in {0, 1} /\ c - 1 < n /\ (c - 1) + 1 = c
      <4>1. CASE n = 1  BY <3>3, <4>1
      <4>2. CASE n = 2  BY <3>3, <4>2
      <4> QED BY <3>3, <4>1, <4>2
    <3> QED BY <2>1, <3>2, <3>4 DEF Indices
  <2> QED BY <2>1, <2>3, <2>4 DEF Configured
<1>4. CASE Leave \/ LaAcquire \/ LaShow
  BY <1>4 DEF Leave, LaAcquire, LaShow, Configured, AtWork
<1> QED BY <1>1, <1>2, <1>3, <1>4 DEF Next, MainOwn, User

(* The frame stays good while nobody touches it *)
LEMMA FrameSame ==
    ASSUME FrameGood, UNCHANGED <<frame, chans, adc_channels, area>> PROVE FrameGood'
BY DEF FrameGood, InOrder

(* Only a pass makes a frame, and of a transfer that is over *)
LEMMA FrameStep ==
    ASSUME STypes, InTransfer, Configured, FrameReady, Next PROVE FrameReady'
<1>1. CASE Convert \/ LcdDone
  <2>1. UNCHANGED <<pc, first, adc_buffers_rdy, frame, chans, adc_channels, area>>
    BY <1>1 DEF Convert, LcdDone, adcVars, chanVars, mainVars
  <2> QED BY <2>1, FrameSame DEF FrameReady, AtWork
<1>2. CASE ADC_Handler
  <2>1. UNCHANGED <<pc, first, chans>> /\ rcr = 0
    BY <1>2 DEF ADC_Handler, IrqPending, RXBUFF, adcVars, mainVars
  <2>2. CASE adc_buffers_rdy
    <3>1. UNCHANGED <<adc_buffers_rdy, frame, adc_channels, area>>
      BY <1>2, <2>2 DEF ADC_Handler, chanVars
    <3> QED BY <2>1, <3>1, FrameSame DEF FrameReady, AtWork
  <2>3. CASE ~adc_buffers_rdy
    <3>1. HandlerPass  BY <1>2, <2>3 DEF ADC_Handler
    <3>2. AtWork => FrameGood'  BY <2>1, <3>1, PassIsGood
    <3> QED BY <2>1, <3>2 DEF FrameReady, AtWork
  <2> QED BY <2>2, <2>3
<1>3. CASE ReadBuffer
  <2>1. first /\ UNCHANGED first /\ pc' = "loop"  BY <1>3 DEF ReadBuffer, FrameReady
  <2> QED BY <2>1 DEF FrameReady
<1>4. CASE DrawBegin \/ DrawPixel \/ DrawRefresh
  <2>1. UNCHANGED <<first, adc_buffers_rdy, frame, chans, adc_channels, area>>
        /\ AtWork /\ pc' # "read_buffer"
    BY <1>4 DEF DrawBegin, DrawPixel, DrawRefresh, adcVars, chanVars, AtWork
  <2> QED BY <2>1, FrameSame DEF FrameReady
<1>5. CASE DrawEnd
  BY <1>5 DEF DrawEnd, FrameReady
<1>6. CASE Configure
  BY <1>6 DEF Configure, FrameReady
<1>7. CASE Leave \/ LaAcquire \/ LaShow
  BY <1>7 DEF Leave, LaAcquire, LaShow, FrameReady, AtWork
<1> QED
  BY <1>1, <1>2, <1>3, <1>4, <1>5, <1>6, <1>7 DEF Next, MainOwn, Drawing, User

(* The traces stay good while nobody touches them *)
LEMMA CanvasSame ==
    ASSUME CanvasGood, UNCHANGED <<pc, first, chans, frame, canvas>> PROVE CanvasGood'
BY DEF CanvasGood

(* scope_draw draws a pixel of the frame *)
LEMMA PixelStep ==
    ASSUME STypes, DrawsReady, FrameReady, CanvasGood, DrawPixel PROVE CanvasGood'
<1>1. /\ pc = "draw" /\ Undrawn # {}
      /\ canvas' = [canvas EXCEPT ![Min(Undrawn)] =
             Append(@, LET i == adc_channels[Min(Undrawn) - 1].draw + Len(canvas[Min(Undrawn)]) + 1
                       IN  IF i <= Len(area[Min(Undrawn) - 1]) THEN area[Min(Undrawn) - 1][i]
                           ELSE Unknown)]
      /\ UNCHANGED <<pc, first, chans, frame>>
  BY DEF DrawPixel, adcVars
<1>2. /\ canvas \in [1 .. Len(chans) -> Seq(Pix)]
      /\ \A c \in 1 .. Len(chans) : Len(canvas[c]) <= W
      /\ ~first => \A c \in 1 .. Len(chans) : \A k \in 1 .. Len(canvas[c]) :
             canvas[c][k] = frame[c][k]
  BY <1>1 DEF CanvasGood
<1>3. PICK m : m = Min(Undrawn)  OBVIOUS
<1>4. m \in 1 .. Len(chans) /\ Len(canvas[m]) < W
  <2>1. Undrawn \subseteq 1 .. Len(chans) /\ Len(chans) \in {1, 2}
    BY <1>2, ChannelsAre DEF Undrawn, STypes
  <2>2. Undrawn \in SUBSET Nat /\ Undrawn \in SUBSET Int  BY <2>1
  <2>3. PICK x \in Undrawn : \A y \in Undrawn : x <= y  BY <1>1, <2>2, NatLeast
  <2>4. m = x  BY <1>3, <2>2, <2>3, MinIs
  <2> QED BY <2>1, <2>3, <2>4 DEF Undrawn
<1>5. PICK d, n : d = adc_channels[m - 1].draw /\ n = Len(canvas[m])  OBVIOUS
<1>6. PICK p : p = IF d + n + 1 <= Len(area[m - 1]) THEN area[m - 1][d + n + 1] ELSE Unknown
  OBVIOUS
<1>7. canvas' = [canvas EXCEPT ![m] = Append(@, p)]  BY <1>1, <1>3, <1>5, <1>6
<1>8. m - 1 \in Indices  BY <1>4, ChannelsAre DEF Indices, STypes
<1>9. d \in 0 .. W - 1 /\ n \in Nat /\ n < W /\ W \in Nat
      /\ area[m - 1] \in Seq(Pix) /\ Len(area[m - 1]) \in Nat
  BY <1>2, <1>4, <1>5, <1>8, Constants DEF STypes
<1>10. p \in Pix
  <2>1. CASE d + n + 1 <= Len(area[m - 1])
    <3>1. d + n + 1 \in 1 .. Len(area[m - 1])  BY <1>9, <2>1
    <3> QED BY <1>6, <1>9, <2>1, <3>1
  <2>2. CASE ~(d + n + 1 <= Len(area[m - 1]))  BY <1>6, <2>2 DEF Unknown, Pix
  <2> QED BY <2>1, <2>2
<1>11. ~first => p = frame[m][n + 1]
  <2> SUFFICES ASSUME ~first PROVE p = frame[m][n + 1]
    OBVIOUS
  <2>1. FrameGood  BY <1>1 DEF FrameReady, DrawsReady, AtWork
  <2>2. n + 1 \in 1 .. W /\ d + (n + 1) = d + n + 1  BY <1>9
  <2>3. d + W <= Len(area[m - 1]) /\ area[m - 1][d + (n + 1)] = frame[m][n + 1]
    BY <1>4, <1>5, <2>1, <2>2 DEF FrameGood
  <2>4. d + n + 1 <= Len(area[m - 1])  BY <1>9, <2>3
  <2> QED BY <1>6, <2>2, <2>3, <2>4
<1>12. ASSUME NEW c \in 1 .. Len(chans)
       PROVE  /\ canvas'[c] \in Seq(Pix) /\ Len(canvas'[c]) <= W
              /\ ~first => \A k \in 1 .. Len(canvas'[c]) : canvas'[c][k] = frame[c][k]
  <2>1. CASE c # m
    <3>1. canvas'[c] = canvas[c]  BY <1>2, <1>7, <2>1
    <3> QED BY <1>2, <3>1
  <2>2. CASE c = m
    <3>1. canvas'[c] = Append(canvas[m], p) /\ canvas[m] \in Seq(Pix)
      BY <1>2, <1>4, <1>7, <2>2
    <3>2. /\ canvas'[c] \in Seq(Pix) /\ Len(canvas'[c]) = n + 1 /\ canvas'[c][n + 1] = p
          /\ \A k \in 1 .. n : canvas'[c][k] = canvas[m][k]
      BY <1>5, <1>9, <1>10, <3>1
    <3>3. ASSUME ~first, NEW k \in 1 .. n + 1 PROVE canvas'[c][k] = frame[c][k]
      <4>1. CASE k = n + 1  BY <1>11, <2>2, <3>2, <3>3, <4>1
      <4>2. CASE k # n + 1
        <5>1. k \in 1 .. n  BY <1>9, <4>2
        <5> QED BY <1>2, <1>4, <1>5, <2>2, <3>2, <3>3, <5>1
      <4> QED BY <4>1, <4>2
    <3> QED BY <1>9, <3>2, <3>3
  <2> QED BY <2>1, <2>2
<1>13. canvas' \in [1 .. Len(chans) -> Seq(Pix)]
  <2>1. DOMAIN canvas' = 1 .. Len(chans) /\ canvas' = [c \in 1 .. Len(chans) |-> canvas'[c]]
    BY <1>2, <1>7
  <2> QED BY <1>12, <2>1
<1> QED BY <1>1, <1>12, <1>13 DEF CanvasGood

(* Whatever comes between the steps of scope_draw, the traces stay good *)
LEMMA CanvasStep ==
    ASSUME STypes, DrawsReady, FrameReady, CanvasGood, Next PROVE CanvasGood'
<1>1. CASE Convert \/ LcdDone
  <2>1. UNCHANGED <<pc, first, chans, frame, canvas>>
    BY <1>1 DEF Convert, LcdDone, adcVars, mainVars
  <2> QED BY <2>1, CanvasSame
<1>2. CASE ADC_Handler
  <2>1. UNCHANGED <<pc, first, chans, canvas>>  BY <1>2 DEF ADC_Handler, adcVars, mainVars
  <2>2. pc \in {"draw", "drawn"} => UNCHANGED frame  BY <1>2 DEF ADC_Handler, DrawsReady
  <2> QED BY <2>1, <2>2 DEF CanvasGood
<1>3. CASE DrawBegin
  <2>1. canvas' = [c \in 1 .. Len(chans) |-> <<>>] /\ pc' = "draw" /\ UNCHANGED chans
    BY <1>3 DEF DrawBegin, adcVars
  <2>2. <<>> \in Seq(Pix) /\ Len(<<>>) = 0 /\ W \in Nat /\ W > 0  BY Constants
  <2>3. canvas' \in [1 .. Len(chans) -> Seq(Pix)] /\ \A c \in 1 .. Len(chans) : canvas'[c] = <<>>
    BY <2>1, <2>2
  <2> QED BY <2>1, <2>2, <2>3 DEF CanvasGood
<1>4. CASE DrawPixel  BY <1>4, PixelStep
<1>5. CASE DrawRefresh
  <2>1. pc = "draw" /\ Undrawn = {} /\ UNCHANGED <<first, chans, frame, canvas>>
    BY <1>5 DEF DrawRefresh, adcVars
  <2>2. \A c \in 1 .. Len(chans) : Len(canvas[c]) = W
    <3> SUFFICES ASSUME NEW c \in 1 .. Len(chans) PROVE Len(canvas[c]) = W
      OBVIOUS
    <3>1. Len(canvas[c]) <= W /\ Len(canvas[c]) \in Nat /\ W \in Nat
      BY <2>1, Constants DEF CanvasGood
    <3>2. ~(Len(canvas[c]) < W)  BY <2>1 DEF Undrawn, CanvasGood
    <3> QED BY <3>1, <3>2
  <2> QED BY <2>1, <2>2 DEF CanvasGood
<1>6. CASE ReadBuffer \/ DrawEnd \/ User
  BY <1>6 DEF ReadBuffer, DrawEnd, User, Configure, Leave, LaAcquire, LaShow, CanvasGood
<1> QED BY <1>1, <1>2, <1>3, <1>4, <1>5, <1>6 DEF Next, MainOwn, Drawing

LEMMA DueInit == ASSUME Init PROVE DInv
<1>1. pc = "menu"  BY DEF Init
<1>2. STypes /\ DrawsReady  BY TypesInit, DrawsReadyInit
<1> QED
  BY <1>1, <1>2
  DEF DInv, InTransfer, Configured, FrameReady, CanvasGood, Running, AtWork

LEMMA DueStep == ASSUME DInv, [Next]_vars PROVE DInv'
<1>1. STypes' /\ DrawsReady'  BY TypesStep, DrawsReadyStep DEF DInv
<1>2. CASE Next
  BY <1>1, <1>2, TransferStep, ConfiguredStep, FrameStep, CanvasStep DEF DInv
<1>3. CASE UNCHANGED vars
  <2>1. /\ UNCHANGED <<time, chans, turn, irq_on, us_value, stored, rcr, rncr>>
        /\ UNCHANGED <<adc_channels, area, adc_buffers_rdy, pc, canvas, frame, first>>
    BY <1>3 DEF vars, adcVars, pdcVars, chanVars, mainVars
  <2>2. Running' = Running /\ AtWork' = AtWork  BY <2>1 DEF Running, AtWork, RXBUFF
  <2>3. InTransfer' /\ Configured'
    BY <2>1, <2>2, TransferSame DEF DInv, Configured
  <2>4. FrameReady'  BY <2>1, <2>2, FrameSame DEF DInv, FrameReady
  <2>5. CanvasGood'  BY <2>1, CanvasSame DEF DInv
  <2> QED BY <1>1, <2>3, <2>4, <2>5 DEF DInv
<1> QED BY <1>2, <1>3

(* What is drawn is the frame that is due *)
LEMMA DueHolds == ASSUME DInv PROVE TraceDue
<1> SUFFICES ASSUME pc = "drawn", ~first
             PROVE  /\ canvas = frame
                    /\ \A c \in DOMAIN canvas : Len(canvas[c]) = W /\ InOrder(canvas[c])
  BY DEF TraceDue
<1>1. FrameGood  BY DEF DInv, DrawsReady, FrameReady, AtWork
<1>2. /\ canvas \in [1 .. Len(chans) -> Seq(Pix)] /\ frame \in [1 .. Len(chans) -> Seq(Pix)]
      /\ \A c \in 1 .. Len(chans) :
           /\ Len(canvas[c]) = W /\ Len(frame[c]) = W
           /\ \A k \in 1 .. W : canvas[c][k] = frame[c][k]
           /\ InOrder(frame[c])
  BY <1>1 DEF DInv, CanvasGood, FrameGood
<1>3. ASSUME NEW c \in 1 .. Len(chans) PROVE canvas[c] = frame[c]
  <2>1. canvas[c] \in Seq(Pix) /\ frame[c] \in Seq(Pix)  BY <1>2
  <2> QED BY <1>2, <2>1, SeqEqual
<1>4. canvas = frame  BY <1>2, <1>3
<1> QED BY <1>2, <1>4

(* Every trace drawn after the first of a start is W conversions of a      *)
(* channel one after the other, of one transfer, beginning where Due says, *)
(* at whatever moments the conversions, the interrupts and the ends of     *)
(* refreshes come between the steps of scope_draw.                         *)
THEOREM TraceIsDue == Spec => []TraceDue
<1>1. Init => DInv  BY DueInit
<1>2. DInv /\ [Next]_vars => DInv'  BY DueStep
<1>3. DInv => TraceDue  BY DueHolds
<1> QED BY <1>1, <1>2, <1>3, PTL DEF Spec
=============================================================================
