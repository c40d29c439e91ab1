---------------------------- MODULE VoxoryProofs ----------------------------
(***************************************************************************)
(* Proofs about Voxory for every window length, kept overlap and number of *)
(* windows.  What get guarantees about the number of samples is taken from *)
(* LoopbackProofs: every step of main is a step of Loopback or leaves its  *)
(* variables alone.                                                        *)
(***************************************************************************)
EXTENDS Voxory, LoopbackProofs

\* main uses get the way Loopback assumes (main.cpp:330-334).
THEOREM MainUsesGet == Spec => LoopSpec
<1>1. Init => LoopInit BY DEF Init
<1>2. [Next]_vars => [LoopNext]_loopVars
  <2> SUFFICES ASSUME [Next]_vars PROVE [LoopNext]_loopVars
    OBVIOUS
  <2>1. CASE LoadModel \/ InitCom \/ InitDevice \/ StartDevice
    BY <2>1 DEF LoadModel, InitCom, InitDevice, StartDevice
  <2>2. CASE CallGet BY <2>2 DEF CallGet, LoopNext
  <2>3. CASE Collect BY <2>3 DEF Collect, LoopNext
  <2>4. CASE DeviceFails BY <2>4 DEF DeviceFails, LoopNext
  <2>5. CASE Assemble BY <2>5 DEF Assemble, LoopNext
  <2>6. CASE LoopBreaks \/ Transcribe \/ TranscribeFails
    BY <2>6 DEF LoopBreaks, Transcribe, TranscribeFails
  <2>7. CASE StopCapture \/ FreeModel \/ Destroy
    BY <2>7 DEF StopCapture, FreeModel, Destroy
  <2>8. CASE Play BY <2>8 DEF Play, LoopNext
  <2>9. CASE UNCHANGED vars BY <2>9 DEF vars
  <2> QED
    BY <2>1, <2>2, <2>3, <2>4, <2>5, <2>6, <2>7, <2>8, <2>9 DEF Next, Main
<1> QED BY <1>1, <1>2, PTL DEF Spec, LoopSpec

-----------------------------------------------------------------------------
(* The window.                                                              *)

\* pcmf32_old always ends with the last sample captured, and so does pcmf32
\* while whisper has it.
WindowInv ==
  /\ captured \in Nat
  /\ pcmf32 \in Seq(Nat) /\ pcmf32_old \in Seq(Nat)
  /\ Recent(pcmf32_old)
  /\ mpc = "infer" => Recent(pcmf32) /\ Len(pcmf32) >= Wanted
  /\ Len(pcmf32) <= Max2(Wanted, KeepSamples + LengthSamples)

\* What whisper has been given reaches up to the window it is given next.
TranscribedInv ==
  /\ mpc \in {"model", "com", "init", "start"} => transcribed = {} /\ captured = 0
  /\ mpc \in {"call", "collect"} => transcribed = 1 .. captured
  /\ mpc = "infer" => /\ transcribed \subseteq 1 .. captured
                      /\ 1 .. captured - Len(pcmf32) \subseteq transcribed

\* The overlap has grown by one step per window since it was last cut down.
SinceCut == n_iter % n_new_line
BoundInv ==
  /\ n_iter \in Nat
  /\ mpc \in {"model", "com", "init", "start", "call", "collect"} =>
       Len(pcmf32_old) <= KeepSamples + SinceCut * Wanted
  /\ mpc = "infer" =>
       /\ pcmf32_old = pcmf32
       /\ Len(pcmf32) <= KeepSamples + (SinceCut + 1) * Wanted
  /\ Len(pcmf32) <= KeepSamples + n_new_line * Wanted

\* The window is as long as its two parts, and joins them without a seam.
LEMMA WindowJoins ==
  ASSUME captured \in Nat, pcmf32_old \in Seq(Nat), Recent(pcmf32_old),
         NEW new \in Nat, NEW take \in Nat, take <= Len(pcmf32_old)
  PROVE  /\ Window(take, new) \in Seq(Nat)
         /\ Len(Window(take, new)) = take + new
         /\ \A i \in 1 .. take + new :
              Window(take, new)[i] = captured + new - (take + new) + i
<1> DEFINE n == take + new
           w == Window(take, new)
<1>1. n \in Nat OBVIOUS
<1>2. ASSUME NEW i \in 1 .. n PROVE w[i] = captured + new - n + i
  <2>1. CASE i <= take
    <3>1. Len(pcmf32_old) - take + i \in 1 .. Len(pcmf32_old)
      BY <2>1, LenProperties
    <3> QED BY <2>1, <3>1, LenProperties DEF Window, Recent
  <2>2. CASE i > take BY <2>2 DEF Window
  <2> QED BY <2>1, <2>2
<1>3. \A i \in 1 .. n : w[i] \in Nat
  <2>1. Len(pcmf32_old) \in Nat /\ Len(pcmf32_old) <= captured
    BY LenProperties DEF Recent
  <2> QED BY <1>1, <1>2, <2>1
<1>4. w \in [1 .. n -> Nat]
  <2>1. w = [i \in 1 .. n |-> w[i]] BY DEF Window
  <2> QED BY <1>3, <2>1
<1>5. w \in Seq(Nat) /\ DOMAIN w = 1 .. n
  BY <1>1, <1>4, SeqDef
<1>6. Len(w) = n BY <1>1, <1>5, LenProperties
<1> QED BY <1>2, <1>5, <1>6

\* Cutting down the overlap keeps the end of it.
LEMMA TailIsRecent ==
  ASSUME captured \in Nat, pcmf32 \in Seq(Nat), Recent(pcmf32),
         KeepSamples <= Len(pcmf32)
  PROVE  /\ KeepTail(pcmf32) \in Seq(Nat) /\ Recent(KeepTail(pcmf32))
         /\ Len(KeepTail(pcmf32)) = KeepSamples
<1> DEFINE m == Len(pcmf32) - KeepSamples + 1
           k == KeepTail(pcmf32)
<1>1. /\ Len(pcmf32) \in Nat /\ KeepSamples \in Nat
      /\ m \in Int /\ m >= 1
  BY MainAssumption, LenProperties
<1>2. \A i \in m .. Len(pcmf32) : pcmf32[i] \in Nat
  <2> SUFFICES ASSUME NEW i \in m .. Len(pcmf32) PROVE pcmf32[i] \in Nat
    OBVIOUS
  <2>1. i \in 1 .. Len(pcmf32) BY <1>1
  <2> QED BY <2>1, ElementOfSeq
<1>3. /\ k \in Seq(Nat)
      /\ Len(k) = IF m <= Len(pcmf32) THEN Len(pcmf32) - m + 1 ELSE 0
      /\ \A i \in 1 .. Len(pcmf32) - m + 1 : k[i] = pcmf32[m + i - 1]
  <2>1. k = SubSeq(pcmf32, m, Len(pcmf32)) BY DEF KeepTail
  <2>2. m \in Int /\ Len(pcmf32) \in Int BY <1>1
  <2> HIDE DEF m, k
  <2>3. /\ SubSeq(pcmf32, m, Len(pcmf32)) \in Seq(Nat)
        /\ Len(SubSeq(pcmf32, m, Len(pcmf32))) =
             IF m <= Len(pcmf32) THEN Len(pcmf32) - m + 1 ELSE 0
        /\ \A i \in 1 .. Len(pcmf32) - m + 1 :
             SubSeq(pcmf32, m, Len(pcmf32))[i] = pcmf32[m + i - 1]
    BY <1>2, <2>2, SubSeqProperties
  <2> QED BY <2>1, <2>3, Zenon
<1>4. Len(k) = KeepSamples BY <1>1, <1>3
<1>5. ASSUME NEW i \in 1 .. KeepSamples
      PROVE  k[i] = captured - KeepSamples + i
  <2>1. /\ i \in 1 .. Len(pcmf32) - m + 1
        /\ m + i - 1 \in 1 .. Len(pcmf32)
        /\ m + i - 1 = Len(pcmf32) - KeepSamples + i
    BY <1>1
  <2>2. k[i] = pcmf32[m + i - 1] BY <1>3, <2>1
  <2>3. pcmf32[m + i - 1] = captured - Len(pcmf32) + (m + i - 1)
    BY <2>1 DEF Recent
  <2> QED BY <1>1, <2>1, <2>2, <2>3
<1>6. Len(pcmf32) <= captured BY DEF Recent
<1> HIDE DEF k, m
<1>7. Recent(k) BY <1>1, <1>4, <1>5, <1>6 DEF Recent
<1> QED BY <1>3, <1>4, <1>7 DEF k

\* take samples fit in the old window, and the new window is not too long.
LEMMA TakeFits ==
  ASSUME pcmf32_old \in Seq(Nat)
  PROVE  /\ Take(Wanted) \in Nat
         /\ Take(Wanted) <= Len(pcmf32_old)
         /\ Take(Wanted) + Wanted <= Max2(Wanted, KeepSamples + LengthSamples)
<1>1. /\ Len(pcmf32_old) \in Nat /\ Wanted \in Nat /\ KeepSamples \in Nat
      /\ LengthSamples \in Nat
  BY LenProperties, LoopbackAssumption, MainAssumption
<1> QED BY <1>1 DEF Take, Min2, Max2

-----------------------------------------------------------------------------
(* The steps of main.                                                       *)

\* The steps that leave the windows alone, and do not reach whisper.
Elsewhere == /\ UNCHANGED <<pcmf32, pcmf32_old, captured, transcribed, n_iter>>
             /\ \/ mpc' = mpc
                \/ mpc' \in {"stop", "free", "unwind", "done"}
                \/ mpc \in {"model", "com", "init"}
                   /\ mpc' \in {"com", "init", "start"}
                \/ mpc = "call" /\ mpc' = "collect"
                \/ mpc = "start" /\ mpc' = "call"

\* Most steps of main touch neither the windows nor the samples.
LEMMA MostStepsElsewhere ==
  [Next]_vars => Elsewhere \/ Assemble \/ Transcribe
<1> SUFFICES ASSUME [Next]_vars PROVE Elsewhere \/ Assemble \/ Transcribe
  OBVIOUS
<1> USE DEF Elsewhere, windows
<1>1. CASE LoadModel \/ InitCom BY <1>1 DEF LoadModel, InitCom
<1>2. CASE InitDevice BY <1>2 DEF InitDevice
<1>3. CASE StartDevice BY <1>3 DEF StartDevice
<1>4. CASE CallGet BY <1>4 DEF CallGet
<1>5. CASE Collect \/ DeviceFails \/ Play BY <1>5 DEF Collect, DeviceFails, Play
<1>6. CASE LoopBreaks \/ TranscribeFails
  BY <1>6 DEF LoopBreaks, TranscribeFails
<1>7. CASE StopCapture \/ FreeModel \/ Destroy
  BY <1>7 DEF StopCapture, FreeModel, Destroy
<1>8. CASE UNCHANGED vars BY <1>8 DEF vars
<1> QED
  BY <1>1, <1>2, <1>3, <1>4, <1>5, <1>6, <1>7, <1>8 DEF Next, Main

\* What main has when get returns true.
LEMMA CollectedWindow ==
  ASSUME LoopIInv, WindowInv, Assemble
  PROVE  /\ collected = Wanted /\ Wanted \in Nat
         /\ captured' = captured + Wanted
         /\ pcmf32' \in Seq(Nat) /\ pcmf32_old' = pcmf32'
         /\ Len(pcmf32') = Take(Wanted) + Wanted
         /\ Take(Wanted) \in Nat /\ Take(Wanted) <= captured
         /\ Recent(pcmf32)'
<1>1. /\ collected = Wanted /\ Wanted \in Nat
      /\ captured' = captured + Wanted /\ pcmf32_old' = pcmf32'
      /\ pcmf32' = Window(Take(Wanted), Wanted)
  BY LoopbackAssumption DEF LoopIInv, RoomInv, Assemble, GetReturn
<1>2. /\ Take(Wanted) \in Nat /\ Take(Wanted) <= Len(pcmf32_old)
      /\ Len(pcmf32_old) <= captured /\ captured \in Nat
      /\ Len(pcmf32_old) \in Nat
  BY TakeFits, LenProperties DEF WindowInv, Recent
<1>3. /\ pcmf32' \in Seq(Nat)
      /\ Len(pcmf32') = Take(Wanted) + Wanted
      /\ \A i \in 1 .. Take(Wanted) + Wanted :
           pcmf32'[i] = captured + Wanted - (Take(Wanted) + Wanted) + i
  BY <1>1, <1>2, WindowJoins DEF WindowInv
<1>4. Recent(pcmf32)'
  BY <1>1, <1>2, <1>3 DEF Recent
<1> QED BY <1>1, <1>2, <1>3, <1>4

\* The saved overlap stays the newest stretch of samples.
LEMMA WindowStep == LoopIInv /\ WindowInv /\ [Next]_vars => WindowInv'
<1> SUFFICES ASSUME LoopIInv, WindowInv, [Next]_vars PROVE WindowInv'
  OBVIOUS
<1>1. CASE Elsewhere BY <1>1 DEF Elsewhere, WindowInv, Recent
<1>2. CASE Assemble
  <2>1. Take(Wanted) + Wanted <= Max2(Wanted, KeepSamples + LengthSamples)
    BY TakeFits DEF WindowInv
  <2>2. Recent(pcmf32_old)'
    BY <1>2, CollectedWindow DEF Recent
  <2> QED BY <1>2, <2>1, <2>2, CollectedWindow DEF WindowInv
<1>3. CASE Transcribe
  <2>1. /\ pcmf32' = pcmf32 /\ captured' = captured /\ mpc' = "call"
        /\ pcmf32_old' \in {KeepTail(pcmf32), pcmf32_old}
        /\ Recent(pcmf32) /\ Len(pcmf32) >= Wanted
    BY <1>3 DEF Transcribe, WindowInv
  <2>2. KeepSamples <= Len(pcmf32)
    BY <2>1, MainAssumption, LoopbackAssumption, LenProperties DEF WindowInv
  <2>3. KeepTail(pcmf32) \in Seq(Nat) /\ Recent(KeepTail(pcmf32))
    BY <2>1, <2>2, TailIsRecent DEF WindowInv
  <2>4. pcmf32_old' \in Seq(Nat) /\ Recent(pcmf32_old)'
    BY <2>1, <2>3 DEF WindowInv, Recent
  <2> QED BY <2>1, <2>4 DEF WindowInv
<1> QED BY <1>1, <1>2, <1>3, MostStepsElsewhere

\* What was transcribed stays next to the samples that wait.
LEMMA TranscribedStep ==
  LoopIInv /\ WindowInv /\ TranscribedInv /\ [Next]_vars => TranscribedInv'
<1> SUFFICES ASSUME LoopIInv, WindowInv, TranscribedInv, [Next]_vars
             PROVE  TranscribedInv'
  OBVIOUS
<1>1. CASE Elsewhere
  <2>1. UNCHANGED <<pcmf32, captured, transcribed>> BY <1>1 DEF Elsewhere
  <2>2. CASE mpc = "start" /\ mpc' = "call"
    <3>1. transcribed = 1 .. captured BY <2>2 DEF TranscribedInv
    <3> QED BY <2>1, <2>2, <3>1 DEF TranscribedInv
  <2>3. CASE mpc' = mpc BY <2>1, <2>3 DEF TranscribedInv
  <2>4. CASE mpc = "call" /\ mpc' = "collect" BY <2>1, <2>4 DEF TranscribedInv
  <2>5. CASE /\ mpc \in {"model", "com", "init"}
             /\ mpc' \in {"com", "init", "start"}
    BY <2>1, <2>5 DEF TranscribedInv
  <2>6. CASE mpc' \in {"stop", "free", "unwind", "done"}
    BY <2>6 DEF TranscribedInv
  <2> QED BY <1>1, <2>2, <2>3, <2>4, <2>5, <2>6 DEF Elsewhere
<1>2. CASE Assemble
  <2>1. /\ mpc' = "infer" /\ transcribed' = transcribed
        /\ transcribed = 1 .. captured /\ captured \in Nat
    BY <1>2 DEF Assemble, TranscribedInv, WindowInv
  <2>2. /\ captured' = captured + Wanted /\ Wanted \in Nat
        /\ Len(pcmf32') = Take(Wanted) + Wanted /\ Take(Wanted) \in Nat
    BY <1>2, CollectedWindow
  <2>3. /\ 1 .. captured \subseteq 1 .. captured'
        /\ 1 .. captured' - Len(pcmf32') \subseteq 1 .. captured
    BY <2>1, <2>2
  <2> QED BY <2>1, <2>3 DEF TranscribedInv
<1>3. CASE Transcribe
  <2>1. /\ mpc' = "call" /\ captured' = captured /\ captured \in Nat
        /\ transcribed' = transcribed \union {pcmf32[i] : i \in 1 .. Len(pcmf32)}
        /\ transcribed \subseteq 1 .. captured
        /\ 1 .. captured - Len(pcmf32) \subseteq transcribed
        /\ Recent(pcmf32) /\ Len(pcmf32) \in Nat
    BY <1>3, LenProperties DEF Transcribe, TranscribedInv, WindowInv
  <2>2. \A i \in 1 .. Len(pcmf32) : pcmf32[i] \in 1 .. captured
    BY <2>1 DEF Recent
  <2>3. ASSUME NEW n \in 1 .. captured PROVE n \in transcribed'
    <3>1. CASE n <= captured - Len(pcmf32) BY <2>1, <3>1
    <3>2. CASE n > captured - Len(pcmf32)
      <4>1. n - captured + Len(pcmf32) \in 1 .. Len(pcmf32)
        BY <2>1, <3>2
      <4>2. pcmf32[n - captured + Len(pcmf32)] = n
        BY <2>1, <4>1 DEF Recent
      <4> QED BY <2>1, <4>1, <4>2
    <3> QED BY <2>1, <3>1, <3>2
  <2>4. transcribed' = 1 .. captured
    BY <2>1, <2>2, <2>3
  <2> QED BY <2>1, <2>4 DEF TranscribedInv
<1> QED BY <1>1, <1>2, <1>3, MostStepsElsewhere

-----------------------------------------------------------------------------
(* How long a window becomes.                                               *)

\* Counting up modulo d goes one further or starts again.
LEMMA NextRemainder ==
  ASSUME NEW d \in Nat \ {0}, NEW n \in Nat
  PROVE  /\ n % d \in 0 .. d - 1
         /\ (n + 1) % d = 0 \/ (n + 1) % d = (n % d) + 1
<1> DEFINE q == n \div d        r == n % d
           q1 == (n + 1) \div d  r1 == (n + 1) % d
<1>1. /\ n = d * q + r /\ q \in Int /\ r \in 0 .. d - 1
      /\ n + 1 = d * q1 + r1 /\ q1 \in Int /\ r1 \in 0 .. d - 1
  OBVIOUS
<1> HIDE DEF q, r, q1, r1
<1>2. d * (q1 - q) = r + 1 - r1 BY <1>1
<1>3. CASE q1 - q <= 0
  <2>1. d * (q1 - q) <= 0 BY <1>1, <1>3
  <2>2. CASE q1 - q <= -1
    <3>1. d * (q1 - q) <= -d BY <1>1, <2>2
    <3> QED BY <1>1, <1>2, <3>1
  <2>3. CASE q1 - q = 0
    <3>1. d * (q1 - q) = 0 BY <2>3
    <3>2. r1 = r + 1 BY <1>1, <1>2, <3>1
    <3> QED BY <1>1, <3>2 DEF r, r1
  <2> QED BY <1>1, <1>3, <2>2, <2>3
<1>4. CASE q1 - q >= 1
  <2>1. d * (q1 - q) >= d BY <1>1, <1>4
  <2>2. r1 = 0 BY <1>1, <1>2, <2>1
  <2> QED BY <1>1, <2>2 DEF r, r1
<1> QED BY <1>1, <1>3, <1>4

\* What is needed of multiplication.
LEMMA Multiples ==
  ASSUME NEW a \in Nat, NEW b \in Nat, NEW w \in Nat, a <= b
  PROVE  /\ a * w \in Nat /\ b * w \in Nat
         /\ (a + 1) * w = a * w + w
         /\ a * w <= b * w
<1>1. PICK k \in Nat : b = a + k
  <2>1. b - a \in Nat /\ b = a + (b - a) OBVIOUS
  <2> QED BY <2>1
<1>2. b * w = a * w + k * w /\ k * w >= 0 BY <1>1
<1>3. a * w \in Nat /\ b * w \in Nat /\ (a + 1) * w = a * w + w OBVIOUS
<1> QED BY <1>1, <1>2, <1>3

\* A step more in the window is Wanted samples more, and no more than there are
\* until the next cut.
LEMMA StepsBetweenCuts ==
  ASSUME n_iter \in Nat
  PROVE  /\ Wanted \in Nat /\ KeepSamples \in Nat
         /\ n_new_line \in Nat \ {0} /\ SinceCut \in 0 .. n_new_line - 1
         /\ SinceCut * Wanted \in Nat /\ n_new_line * Wanted \in Nat
         /\ (SinceCut + 1) * Wanted = SinceCut * Wanted + Wanted
         /\ (SinceCut + 1) * Wanted <= n_new_line * Wanted
<1>1. /\ Wanted \in Nat \ {0} /\ KeepSamples \in Nat
      /\ LengthSamples \in Nat \ {0}
  BY LoopbackAssumption, MainAssumption
<1>2. n_new_line \in Nat \ {0} BY <1>1 DEF n_new_line, Max2
<1>3. SinceCut \in 0 .. n_new_line - 1 BY <1>2, NextRemainder DEF SinceCut
<1>4. /\ SinceCut \in Nat /\ SinceCut + 1 \in Nat /\ n_new_line \in Nat
      /\ SinceCut <= SinceCut + 1 /\ SinceCut + 1 <= n_new_line
  BY <1>2, <1>3
<1>5. /\ SinceCut * Wanted \in Nat
      /\ (SinceCut + 1) * Wanted = SinceCut * Wanted + Wanted
  BY ONLY <1>1, <1>4, Multiples
<1>6. /\ n_new_line * Wanted \in Nat
      /\ (SinceCut + 1) * Wanted <= n_new_line * Wanted
  BY ONLY <1>1, <1>4, Multiples
<1> QED BY <1>1, <1>2, <1>3, <1>5, <1>6

\* The overlap grows by one step a window, and is cut in time.
LEMMA BoundStep ==
  LoopIInv /\ WindowInv /\ BoundInv /\ [Next]_vars => BoundInv'
<1> SUFFICES ASSUME LoopIInv, WindowInv, BoundInv, [Next]_vars PROVE BoundInv'
  OBVIOUS
<1>0. n_iter \in Nat BY DEF BoundInv
<1>1. CASE Elsewhere
  BY <1>1 DEF Elsewhere, BoundInv, SinceCut
<1>2. CASE Assemble
  <2>1. /\ mpc = "collect" /\ mpc' = "infer" /\ n_iter' = n_iter
    BY <1>2 DEF Assemble
  <2>2. /\ Len(pcmf32') = Take(Wanted) + Wanted /\ pcmf32_old' = pcmf32'
        /\ Take(Wanted) \in Nat /\ Take(Wanted) <= Len(pcmf32_old)
        /\ Len(pcmf32_old) \in Nat
    BY <1>2, CollectedWindow, TakeFits, LenProperties DEF WindowInv
  <2>3. Len(pcmf32_old) <= KeepSamples + SinceCut * Wanted
    BY <2>1 DEF BoundInv
  <2>4. /\ Len(pcmf32') <= KeepSamples + (SinceCut + 1) * Wanted
        /\ Len(pcmf32') <= KeepSamples + n_new_line * Wanted
    <3> DEFINE s == SinceCut * Wanted       u == (SinceCut + 1) * Wanted
               l == n_new_line * Wanted     take == Take(Wanted)
    <3>1. /\ Wanted \in Nat /\ KeepSamples \in Nat /\ s \in Nat /\ l \in Nat
          /\ u = s + Wanted /\ u <= l
      BY <1>0, StepsBetweenCuts
    <3>2. /\ Len(pcmf32') = take + Wanted /\ take \in Nat
          /\ take <= KeepSamples + s
      <4>1. Len(pcmf32_old) <= KeepSamples + s BY <2>3
      <4> HIDE DEF s
      <4> QED BY <2>2, <3>1, <4>1
    <3> HIDE DEF s, u, l, take
    <3>3. Len(pcmf32') <= KeepSamples + u /\ Len(pcmf32') <= KeepSamples + l
      BY <3>1, <3>2
    <3> QED BY <3>3 DEF u, l
  <2> QED BY <1>0, <2>1, <2>2, <2>4 DEF BoundInv, SinceCut
<1>3. CASE Transcribe
  <2>1. /\ mpc = "infer" /\ mpc' = "call" /\ pcmf32' = pcmf32
        /\ n_iter' = n_iter + 1
        /\ pcmf32_old' = IF SinceCut' = 0 THEN KeepTail(pcmf32) ELSE pcmf32_old
    BY <1>3 DEF Transcribe, CutDue, SinceCut
  <2>2. /\ pcmf32 \in Seq(Nat) /\ Recent(pcmf32) /\ captured \in Nat
        /\ KeepSamples <= Len(pcmf32)
    BY <2>1, MainAssumption, LoopbackAssumption, LenProperties DEF WindowInv
  <2>3. n_iter' \in Nat /\ (SinceCut' = 0 \/ SinceCut' = SinceCut + 1)
    BY <1>0, <2>1, StepsBetweenCuts, NextRemainder DEF SinceCut
  <2>4. Len(pcmf32_old') <= KeepSamples + SinceCut' * Wanted
    <3>1. CASE SinceCut' = 0
      <4>1. Len(KeepTail(pcmf32)) = KeepSamples BY <2>2, TailIsRecent
      <4> QED BY <1>0, <2>1, <3>1, <4>1, StepsBetweenCuts
    <3>2. CASE SinceCut' # 0
      <4>1. pcmf32_old' = pcmf32 /\ SinceCut' = SinceCut + 1
        BY <2>1, <2>3, <3>2 DEF BoundInv
      <4> QED BY <2>1, <4>1 DEF BoundInv
    <3> QED BY <3>1, <3>2
  <2> QED BY <2>1, <2>3, <2>4 DEF BoundInv
<1> QED BY <1>1, <1>2, <1>3, MostStepsElsewhere

-----------------------------------------------------------------------------
(* What main holds.                                                         *)

Places == {"model", "com", "init", "start", "call", "collect", "infer", "stop",
           "free", "unwind", "done"}
BeforeCom == {"model", "com"}

\* Where main is says what it holds: the model from its loading to its release,
\* nothing of the device before COM was started and after the destructor.
HeldInv ==
  /\ mpc \in Places /\ exit_code \in {NotYet, 0, 1, 2}
  /\ step \in 1 .. Len(InitCalls) + 1
  /\ mpc = "init" => step \in 1 .. Len(InitCalls)
  /\ held \subseteq Owned \union {"ctx", "initialized"}
  /\ running \in BOOLEAN /\ (mpc = "done" => ~running)
  /\ mpc \in BeforeCom \union {"done"} => held \subseteq {"ctx"}
  /\ mpc \notin {"unwind", "done"} => exit_code = NotYet
  /\ mpc = "unwind" => exit_code \in {0, 1}
  /\ mpc = "done" => exit_code \in {0, 1, 2}
  /\ "ctx" \in held <=> mpc # "model" /\ exit_code \in {NotYet, 1}
  /\ mpc \in BeforeCom => ~running /\ step = 1

\* COM was started once at most, and ended once after it might have been.
ComInv ==
  /\ com \in Int /\ com_ok \in BOOLEAN
  /\ mpc \in BeforeCom \/ exit_code = 2 => com = 0 /\ com_ok = TRUE
  /\ mpc \notin BeforeCom \union {"done"} => com = IF com_ok THEN 1 ELSE 0
  /\ mpc = "done" => com = IF com_ok THEN 0 ELSE -1

\* init makes six calls, and each leaves something held or initialized.
LEMMA SixCalls ==
  /\ Len(InitCalls) = 6
  /\ \A i \in 1 .. 6 : InitCalls[i] \in Owned \union {"initialized"}
BY DEF InitCalls, Owned

\* What main holds follows from where it is.
LEMMA HeldStep == HeldInv /\ [Next]_vars => HeldInv'
<1> SUFFICES ASSUME HeldInv, [Next]_vars PROVE HeldInv'
  OBVIOUS
<1> USE SixCalls DEF HeldInv, Places, BeforeCom, NotYet, session
<1>1. CASE LoadModel
  <2>1. /\ mpc = "model" /\ held \subseteq {"ctx"} /\ step' = step /\ step = 1
        /\ running' = running /\ ~running /\ exit_code = NotYet
        /\ "ctx" \notin held
    BY <1>1 DEF LoadModel
  <2>2. CASE held' = {"ctx"} /\ mpc' = "com" /\ UNCHANGED exit_code
    BY <2>1, <2>2
  <2>3. CASE exit_code' = 2 /\ mpc' = "done" /\ UNCHANGED held
    BY <2>1, <2>3
  <2> QED BY <1>1, <2>2, <2>3 DEF LoadModel
<1>2. CASE InitCom BY <1>2 DEF InitCom
<1>3. CASE InitDevice
  <2>1. /\ mpc = "init" /\ step \in 1 .. 6 /\ running' = running
        /\ exit_code = NotYet /\ "ctx" \in held
    BY <1>3 DEF InitDevice
  <2>2. CASE /\ held' = held \union {InitCalls[step]} /\ step' = step + 1
             /\ mpc' = IF step = Len(InitCalls) THEN "start" ELSE "init"
             /\ UNCHANGED exit_code
    <3>1. /\ step' \in 1 .. 7 /\ mpc' \in {"start", "init"}
          /\ mpc' = "init" => step' \in 1 .. 6
      BY <2>1, <2>2
    <3>2. held' \subseteq Owned \union {"ctx", "initialized"} /\ "ctx" \in held'
      BY <2>1, <2>2
    <3> QED BY <2>1, <2>2, <3>1, <3>2
  <2>3. CASE exit_code' = 1 /\ mpc' = "unwind" /\ UNCHANGED <<held, step>>
    BY <2>1, <2>3
  <2> QED BY <1>3, <2>2, <2>3 DEF InitDevice
<1>4. CASE StartDevice BY <1>4 DEF StartDevice
<1>5. CASE CallGet BY <1>5 DEF CallGet
<1>6. CASE Collect \/ DeviceFails \/ Play BY <1>6 DEF Collect, DeviceFails, Play
<1>7. CASE LoopBreaks \/ TranscribeFails
  BY <1>7 DEF LoopBreaks, TranscribeFails
<1>8. CASE Assemble BY <1>8 DEF Assemble
<1>9. CASE Transcribe BY <1>9 DEF Transcribe
<1>10. CASE StopCapture BY <1>10 DEF StopCapture
<1>11. CASE FreeModel BY <1>11 DEF FreeModel
<1>12. CASE Destroy BY <1>12 DEF Destroy, Owned
<1>13. CASE UNCHANGED vars BY <1>13 DEF vars
<1> QED
  BY <1>1, <1>2, <1>3, <1>4, <1>5, <1>6, <1>7, <1>8, <1>9, <1>10, <1>11, <1>12,
     <1>13 DEF Next, Main

\* COM is started and ended as often as main has got to it.
LEMMA ComStep == HeldInv /\ ComInv /\ [Next]_vars => ComInv'
<1> SUFFICES ASSUME HeldInv, ComInv, [Next]_vars PROVE ComInv'
  OBVIOUS
<1> USE DEF HeldInv, ComInv, Places, BeforeCom, NotYet, session
<1>1. CASE LoadModel BY <1>1 DEF LoadModel
<1>2. CASE InitCom BY <1>2 DEF InitCom
<1>3. CASE InitDevice \/ StartDevice BY <1>3 DEF InitDevice, StartDevice
<1>4. CASE CallGet \/ Collect \/ DeviceFails \/ Play
  BY <1>4 DEF CallGet, Collect, DeviceFails, Play
<1>5. CASE LoopBreaks \/ TranscribeFails \/ Assemble \/ Transcribe
  BY <1>5 DEF LoopBreaks, TranscribeFails, Assemble, Transcribe
<1>6. CASE StopCapture \/ FreeModel BY <1>6 DEF StopCapture, FreeModel
<1>7. CASE Destroy BY <1>7 DEF Destroy
<1>8. CASE UNCHANGED vars BY <1>8 DEF vars
<1> QED
  BY <1>1, <1>2, <1>3, <1>4, <1>5, <1>6, <1>7, <1>8 DEF Next, Main

-----------------------------------------------------------------------------
(* Theorems of the specification.                                           *)

\* get's guarantees hold inside main, and the windows stay seamless.
THEOREM MainInductive ==
  Spec => [](LoopIInv /\ WindowInv /\ TranscribedInv /\ BoundInv)
<1>1. Init => WindowInv /\ TranscribedInv /\ BoundInv
  <2> SUFFICES ASSUME Init PROVE WindowInv /\ TranscribedInv /\ BoundInv
    OBVIOUS
  <2>1. /\ pcmf32 = <<>> /\ pcmf32_old = <<>> /\ captured = 0
        /\ transcribed = {} /\ mpc = "model" /\ n_iter = 0
    BY DEF Init
  <2>2. <<>> \in Seq(Nat) /\ Len(<<>>) = 0 BY EmptySeq
  <2>3. 0 <= Max2(Wanted, KeepSamples + LengthSamples)
    BY LoopbackAssumption, MainAssumption DEF Max2
  <2>4. BoundInv
    <3>1. /\ n_iter \in Nat /\ KeepSamples \in Nat
          /\ SinceCut * Wanted \in Nat /\ n_new_line * Wanted \in Nat
      BY <2>1, StepsBetweenCuts
    <3>2. Len(pcmf32) = 0 /\ Len(pcmf32_old) = 0 /\ mpc # "infer" BY <2>1, <2>2
    <3> QED BY <3>1, <3>2 DEF BoundInv
  <2> QED BY <2>1, <2>2, <2>3, <2>4 DEF WindowInv, TranscribedInv, Recent
<1> QED
  BY <1>1, MainUsesGet, LoopInductive, WindowStep, TranscribedStep, BoundStep,
     PTL DEF Spec

\* The windows given to whisper are the newest samples without a seam, for any
\* step, window length and kept overlap (main.cpp:335-343, 375-377).
THEOREM WindowsAreSeamless == Spec => []WindowSeamless
<1>1. WindowInv => WindowSeamless BY DEF WindowInv, WindowSeamless
<1> QED BY MainInductive, <1>1, PTL

\* They are bounded by what is kept and n_new_line steps, and by the window length
\* and what is kept, for any step and length (main.cpp:293, 336, 375-377).
THEOREM WindowsAreBounded == Spec => []WindowBounded
<1>1. WindowInv /\ BoundInv => WindowBounded
  BY DEF WindowInv, BoundInv, WindowBounded
<1> QED BY MainInductive, <1>1, PTL

\* Nothing that get returned goes untranscribed while the loop runs
\* (main.cpp:328-378).
THEOREM AllIsTranscribed == Spec => []NothingUntranscribed
<1>1. TranscribedInv => NothingUntranscribed
  BY DEF TranscribedInv, NothingUntranscribed
<1> QED BY MainInductive, <1>1, PTL

\* The kept samples exist when the overlap is cut down: the iterator arithmetic
\* of main.cpp:376 is inside the vector when no more is kept than one step.
THEOREM KeepIsInside == Spec => []KeepInside
<1>1. WindowInv => KeepInside
  BY MainAssumption, LoopbackAssumption, LenProperties DEF WindowInv, KeepInside
<1> QED BY MainInductive, <1>1, PTL

\* What main holds is said by where it is.
THEOREM HeldInductive == Spec => [](HeldInv /\ ComInv)
<1>1. Init => HeldInv /\ ComInv
  <2> SUFFICES ASSUME Init PROVE HeldInv /\ ComInv
    OBVIOUS
  <2>1. /\ mpc = "model" /\ step = 1 /\ held = {}
        /\ com = 0 /\ com_ok = TRUE /\ exit_code = NotYet
    BY DEF Init
  <2>r. running = FALSE BY DEF Init
  <2>s. /\ running \in BOOLEAN /\ ~running BY <2>r
  <2>t. /\ step \in 1..Len(InitCalls) + 1
        /\ held \subseteq Owned \cup {"ctx", "initialized"}
    BY <2>1, SixCalls
  <2>2. HeldInv BY <2>1, <2>s, <2>t DEF HeldInv, Places, BeforeCom, NotYet
  <2>3. ComInv BY <2>1 DEF ComInv, BeforeCom
  <2> QED BY <2>2, <2>3
<1> QED BY <1>1, HeldStep, ComStep, PTL DEF Spec

\* Whatever fails, main stops the capture and releases the device; the model is
\* kept exactly on the early returns with 1, and COM is ended once too often
\* exactly when it could not be started (main.cpp:76-88, 301-320, 380-382).
THEOREM MainReleases == Spec => []ReleasedAtExit
<1>1. HeldInv /\ ComInv => ReleasedAtExit
  BY DEF HeldInv, ComInv, ReleasedAtExit, NotYet
<1> QED BY HeldInductive, <1>1, PTL

\* The type invariant of the whole program (main.cpp:284-383), for any rates,
\* packet sizes, window lengths and numbers of calls.
THEOREM MainTypeCorrect == Spec => []TypeOK
<1> DEFINE Given == transcribed \subseteq Nat
<1>1. Init => Given BY DEF Init
<1>2. WindowInv /\ Given /\ [Next]_vars => Given'
  <2> SUFFICES ASSUME WindowInv, Given, [Next]_vars PROVE Given'
    OBVIOUS
  <2>1. CASE Elsewhere BY <2>1 DEF Elsewhere
  <2>2. CASE Assemble BY <2>2 DEF Assemble
  <2>3. CASE Transcribe
    <3>1. \A i \in 1 .. Len(pcmf32) : pcmf32[i] \in Nat
      BY ElementOfSeq DEF WindowInv
    <3> QED BY <2>3, <3>1 DEF Transcribe
  <2> QED BY <2>1, <2>2, <2>3, MostStepsElsewhere
<1>3. WindowInv /\ BoundInv /\ HeldInv /\ ComInv /\ Given => TypeOK
  BY DEF WindowInv, BoundInv, HeldInv, ComInv, TypeOK, Places
<1> QED
  BY <1>1, <1>2, <1>3, MainInductive, HeldInductive, PTL DEF Spec
=============================================================================
