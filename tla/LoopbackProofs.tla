--------------------------- MODULE LoopbackProofs ---------------------------
(***************************************************************************)
(* Proofs about Loopback for every pair of sample rates, every window and  *)
(* packet size.  The invariant says, for each place in get, how full the   *)
(* window is and how much of the packet may still be dropped.              *)
(***************************************************************************)
EXTENDS Loopback, SequenceTheorems, TLAPS

\* A packet that is being worked on stays at the head of the endpoint.
PacketHeld == gpc \in {"convert", "zeros", "release"} => endpoint # <<>>

\* Samples are dropped only once the window is full, and the frame that filled
\* it was not dropped.
RoomInv ==
  /\ gpc \in {"poll", "zeros"} => collected < Wanted
  /\ gpc # "idle" => (collected < Wanted => surplus = 0)
  /\ gpc = "convert" /\ collected = Wanted => surplus + todo < MaxPacket
  /\ gpc \in {"release", "true"} => surplus < MaxPacket
  /\ gpc = "true" => collected = Wanted

LoopIInv == LoopTypeOK /\ PacketHeld /\ RoomInv

-----------------------------------------------------------------------------
\* No packet is in hand at first.
LEMMA LoopInitIInv == LoopInit => LoopIInv
<1> SUFFICES ASSUME LoopInit PROVE LoopIInv
  OBVIOUS
<1>1. endpoint \in Seq(Packets) /\ Len(endpoint) = 0
  BY EmptySeq DEF LoopInit
<1>2. device_sample_rate \in DeviceRates /\ decodable \in Formats
  BY DEF LoopInit
<1>3. gpc = "idle"
  BY DEF LoopInit
<1>4. /\ collected = 0 /\ acc = 0 /\ todo = 0 /\ calls = 0
      /\ surplus = 0 /\ fed = 0 /\ emitted = 0 /\ zeroed = 0
  BY DEF LoopInit
<1>5. /\ collected \in 0 .. Wanted /\ todo \in 0 .. MaxPacket
      /\ Len(endpoint) <= EndpointPackets
  BY <1>1, <1>4, LoopbackAssumption
<1>7. /\ acc \in Nat /\ calls \in Nat /\ surplus \in Nat
      /\ fed \in Nat /\ emitted \in Nat /\ zeroed \in Nat
  BY <1>4
<1>8. LoopTypeOK BY <1>1, <1>2, <1>3, <1>5, <1>7 DEF LoopTypeOK
<1>9. PacketHeld /\ RoomInv BY <1>3, <1>4 DEF PacketHeld, RoomInv
<1> QED BY <1>8, <1>9 DEF LoopIInv

\* The endpoint stays a queue of packets.
LEMMA PostIsTyped ==
  ASSUME endpoint \in Seq(Packets), NEW p \in Packets
  PROVE  /\ Append(endpoint, p) \in Seq(Packets)
         /\ Len(Append(endpoint, p)) = Len(endpoint) + 1
         /\ Append(endpoint, p) # <<>>
<1>1. /\ Append(endpoint, p) \in Seq(Packets)
      /\ Len(Append(endpoint, p)) = Len(endpoint) + 1
  BY AppendProperties
<1>2. Len(endpoint) \in Nat BY LenProperties
<1> QED BY <1>1, <1>2, EmptySeq

\* Releasing a packet takes it off the endpoint.
LEMMA ReleaseIsTyped ==
  ASSUME endpoint \in Seq(Packets), endpoint # <<>>
  PROVE  /\ Tail(endpoint) \in Seq(Packets)
         /\ Len(Tail(endpoint)) = Len(endpoint) - 1
         /\ Head(endpoint) \in Packets
BY HeadTailProperties

\* The packet in hand and the surplus stay what they are said to be.
LEMMA LoopStep == LoopIInv /\ [LoopNext]_loopVars => LoopIInv'
<1> SUFFICES ASSUME LoopIInv, [LoopNext]_loopVars PROVE LoopIInv'
  OBVIOUS
<1> USE LoopbackAssumption
<1> USE DEF LoopIInv, LoopTypeOK, PacketHeld, RoomInv, format, getVars
<1>1. CASE EnginePost BY <1>1, PostIsTyped DEF EnginePost
<1>3. CASE GetCall BY <1>3 DEF GetCall
<1>4. CASE TakePacket
  <2>1. Head(endpoint) \in Packets BY <1>4, ReleaseIsTyped DEF TakePacket
  <2>2. todo' \in 0 .. MaxPacket BY <1>4, <2>1 DEF TakePacket, Packets
  <2> QED BY <1>4, <2>2 DEF TakePacket
<1>5. CASE ZeroFrames BY <1>5 DEF ZeroFrames, Min2
<1>6. CASE ConvertFrame
  <2>1. acc' \in Nat
    <3>1. device_sample_rate \in Nat \ {0} /\ Target \in Nat /\ acc \in Nat
      OBVIOUS
    <3> QED BY <1>6, <3>1 DEF ConvertFrame, NextAcc, Due
  <2>2. CASE Due /\ collected < Wanted
    BY <1>6, <2>1, <2>2 DEF ConvertFrame, Push
  <2>3. CASE Due /\ collected = Wanted
    BY <1>6, <2>1, <2>3 DEF ConvertFrame, Push
  <2>4. CASE ~Due BY <1>6, <2>1, <2>4 DEF ConvertFrame
  <2> QED BY <2>2, <2>3, <2>4
<1>7. CASE ConvertDone BY <1>7 DEF ConvertDone
<1>8. CASE ReleasePacket BY <1>8, ReleaseIsTyped DEF ReleasePacket, Full
<1>9. CASE GetFails BY <1>9 DEF GetFails
<1>10. CASE GetReturn BY <1>10 DEF GetReturn
<1>11. CASE UNCHANGED loopVars BY <1>11 DEF loopVars
<1> QED
  BY <1>1, <1>3, <1>4, <1>5, <1>6, <1>7, <1>8, <1>9, <1>10, <1>11
     DEF LoopNext, GetStep

-----------------------------------------------------------------------------
(* The resampler's arithmetic.                                              *)

\* The products after one more frame and one more sample.
LEMMA OneMore ==
  ASSUME NEW d \in Nat, NEW e \in Nat
  PROVE  d * e \in Nat /\ d * (e + 1) = d * e + d
OBVIOUS

\* What a frame does to the accumulator.
LEMMA FrameIsKept ==
  ASSUME LoopTypeOK, ConvertFrame
  PROVE  /\ emitted' \in {emitted, emitted + 1} /\ fed' = fed + 1
         /\ emitted' = emitted => acc' = acc + Target
         /\ emitted' = emitted + 1 => acc' = acc + Target - device_sample_rate
         /\ device_sample_rate >= Target /\ acc < device_sample_rate
              => acc' < device_sample_rate
<1>1. /\ device_sample_rate \in Nat /\ Target \in Nat /\ acc \in Nat /\ emitted \in Nat
      /\ emitted + 1 # emitted
  BY LoopbackAssumption DEF LoopTypeOK
<1>2. fed' = fed + 1 /\ acc' = NextAcc
  BY DEF ConvertFrame
<1>3. CASE Due
  <2>1. emitted' = emitted + 1
    BY <1>3 DEF ConvertFrame
  <2>2. acc' = acc + Target - device_sample_rate
    BY <1>1, <1>2, <1>3 DEF NextAcc
  <2> QED
    BY <1>1, <1>2, <2>1, <2>2
<1>4. CASE ~Due
  <2>1. emitted' = emitted
    BY <1>4 DEF ConvertFrame
  <2>2. acc' = acc + Target /\ acc + Target < device_sample_rate
    BY <1>1, <1>2, <1>4 DEF NextAcc, Due
  <2> QED
    BY <1>1, <1>2, <2>1, <2>2
<1> QED
  BY <1>3, <1>4

\* A frame adds to acc what it does not emit as a sample.
LEMMA ResamplerStep ==
  LoopTypeOK /\ ResamplerExact /\ [LoopNext]_loopVars => ResamplerExact'
<1> SUFFICES ASSUME LoopTypeOK, ResamplerExact, [LoopNext]_loopVars
             PROVE  ResamplerExact'
  OBVIOUS
<1> USE DEF format, getVars
<1>1. CASE ConvertFrame
  <2>1. /\ device_sample_rate \in Nat /\ Target \in Nat
        /\ acc \in Nat /\ emitted \in Nat /\ fed \in Nat
    BY LoopbackAssumption DEF LoopTypeOK
  <2>2. device_sample_rate' = device_sample_rate
    BY <1>1 DEF ConvertFrame
  <2>3. /\ device_sample_rate * emitted + acc = Target * fed
        /\ device_sample_rate >= Target => acc < device_sample_rate
    BY DEF ResamplerExact
  <2>4. /\ device_sample_rate * (emitted + 1) = device_sample_rate * emitted
                                                  + device_sample_rate
        /\ Target * (fed + 1) = Target * fed + Target
        /\ device_sample_rate * emitted \in Nat /\ Target * fed \in Nat
    BY <2>1, OneMore
  <2>5. device_sample_rate * emitted' + acc' = Target * fed'
    <3>1. CASE emitted' = emitted
      BY <1>1, <2>1, <2>3, <2>4, <3>1, FrameIsKept
    <3>2. CASE emitted' = emitted + 1
      BY <1>1, <2>1, <2>3, <2>4, <3>2, FrameIsKept
    <3> QED
      BY <1>1, <3>1, <3>2, FrameIsKept
  <2>6. device_sample_rate >= Target => acc' < device_sample_rate
    BY <1>1, <2>3, FrameIsKept
  <2> QED
    BY <2>2, <2>5, <2>6 DEF ResamplerExact
<1>2. CASE UNCHANGED <<device_sample_rate, acc, emitted, fed>>
  BY <1>2 DEF ResamplerExact
<1>3. CASE EnginePost BY <1>2, <1>3 DEF EnginePost
<1>4. CASE GetCall \/ GetFails \/ GetReturn
  BY <1>2, <1>4 DEF GetCall, GetFails, GetReturn
<1>5. CASE TakePacket \/ ZeroFrames \/ ConvertDone \/ ReleasePacket
  BY <1>2, <1>5 DEF TakePacket, ZeroFrames, ConvertDone, ReleasePacket
<1>6. CASE UNCHANGED loopVars BY <1>2, <1>6 DEF loopVars
<1> QED BY <1>1, <1>3, <1>4, <1>5, <1>6 DEF LoopNext, GetStep

-----------------------------------------------------------------------------
(* Theorems of the specification.                                           *)

\* Types, and what every place of get knows about the window, always hold.
THEOREM LoopInductive == LoopSpec => []LoopIInv
BY LoopInitIInv, LoopStep, PTL DEF LoopSpec

\* get's variables keep their types for any rates, packet sizes and formats: in
\* particular no frame is counted below zero (main.cpp:162-246).
THEOREM LoopTypeCorrect == LoopSpec => []LoopTypeOK
<1>1. LoopIInv => LoopTypeOK BY DEF LoopIInv
<1> QED BY LoopInductive, <1>1, PTL

\* get returns exactly the window that was asked for and has dropped less than
\* one packet (main.cpp:170-245).
THEOREM WindowsAreExact == LoopSpec => []WindowExact
<1>1. LoopIInv => WindowExact BY DEF LoopIInv, RoomInv, WindowExact
<1> QED BY LoopInductive, <1>1, PTL

\* The resampler loses nothing, and for every device that is not slower than the
\* target it never drifts (main.cpp:266-281).
THEOREM ResamplerNeverDrifts == LoopSpec => []ResamplerExact
<1>1. LoopInit => ResamplerExact
  <2> SUFFICES ASSUME LoopInit PROVE ResamplerExact
    OBVIOUS
  <2>1. device_sample_rate \in Nat \ {0} /\ Target \in Nat
    BY LoopbackAssumption DEF LoopInit
  <2>2. emitted = 0 /\ acc = 0 /\ fed = 0
    BY DEF LoopInit
  <2>3. device_sample_rate * 0 + 0 = Target * 0 /\ 0 < device_sample_rate
    BY <2>1
  <2> QED BY <2>2, <2>3 DEF ResamplerExact
<1>2. LoopIInv => LoopTypeOK BY DEF LoopIInv
<1> QED BY LoopInductive, <1>1, <1>2, ResamplerStep, PTL DEF LoopSpec
=============================================================================
