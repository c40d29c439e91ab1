------------------------------ MODULE Loopback ------------------------------
(***************************************************************************)
(* WasapiLoopback::get (src/main.cpp): one call collects a window of mono  *)
(* samples at WHISPER_SAMPLE_RATE from the packets that the audio engine   *)
(* puts in the endpoint buffer meanwhile.  A sample is a counter here: the *)
(* properties are about how many samples a frame of the device turns into, *)
(* not about their values.                                                 *)
(*                                                                         *)
(* The double acc of append_sample_resample advances by target / device    *)
(* rate per frame.  It is kept in units of 1 / device rate, so it is an    *)
(* integer; rounding of the double is left out.                            *)
(***************************************************************************)
EXTENDS Integers, Sequences

CONSTANTS
  Target,         \* WHISPER_SAMPLE_RATE
  DeviceRates,    \* the mix formats' sample rates, in the unit of Target
  Formats,        \* subset of BOOLEAN: is the mix format float or 16-bit PCM?
  Silence,        \* subset of BOOLEAN: the values of a packet's SILENT flag
  Wanted,         \* wanted_frames, the samples of a window
  MaxPacket,      \* bound: frames of a packet
  EndpointPackets,\* packets the endpoint buffer holds: its one second
  MaxCalls        \* bound: calls of get

ASSUME LoopbackAssumption ==
  /\ Target \in Nat \ {0} /\ DeviceRates \subseteq Nat \ {0}
  /\ Formats \subseteq BOOLEAN /\ Silence \subseteq BOOLEAN
  /\ Wanted \in Nat \ {0} /\ MaxPacket \in Nat \ {0}
  /\ EndpointPackets \in Nat /\ MaxCalls \in Nat

VARIABLES
  device_sample_rate, decodable,  \* the mix format, fixed by init()
  endpoint,           \* the packets waiting, oldest first
  gpc,                \* where get is
  collected,          \* samples in out
  acc,                \* the resampler's accumulator, static
  todo,               \* frames of the current packet not converted yet
  calls,              \* history: calls of get
  surplus,            \* history: samples of this call there was no room for
  fed, emitted,       \* history: frames into the resampler, samples out of it
  zeroed              \* history: frames that became one zero sample each

format   == <<device_sample_rate, decodable>>
getVars  == <<gpc, collected, acc, todo, calls, surplus, fed, emitted, zeroed>>
loopVars == <<format, endpoint, getVars>>

Packets == [silent : Silence, frames : 1 .. MaxPacket]

Min2(a, b) == IF a < b THEN a ELSE b

-----------------------------------------------------------------------------
LoopInit ==
  /\ device_sample_rate \in DeviceRates /\ decodable \in Formats
  /\ endpoint = <<>>
  /\ gpc = "idle"
  /\ collected = 0 /\ acc = 0 /\ todo = 0
  /\ calls = 0 /\ surplus = 0 /\ fed = 0 /\ emitted = 0 /\ zeroed = 0

-----------------------------------------------------------------------------
(* The audio engine, external: it renders on, whoever reads.                *)

\* When there is no room the frames are lost, which is no step: get never looks
\* at the discontinuity flag.
EnginePost ==
  /\ Len(endpoint) < EndpointPackets
  /\ \E p \in Packets : endpoint' = Append(endpoint, p)
  /\ UNCHANGED <<format, getVars>>

-----------------------------------------------------------------------------
(* get().  acc is not among the variables it resets: it is static.          *)

\* out.clear(), collected = 0.
GetCall_ResetsAcc ==
  /\ gpc = "idle"
  /\ gpc' = "poll"
  /\ collected' = 0 /\ surplus' = 0 /\ calls' = calls + 1 /\ acc' = 0
  /\ UNCHANGED <<format, endpoint, todo, fed, emitted, zeroed>>

GetCall ==
  /\ gpc = "idle"
  /\ gpc' = "poll"
  /\ collected' = 0 /\ surplus' = 0 /\ calls' = calls + 1
  /\ UNCHANGED <<format, endpoint, acc, todo, fed, emitted, zeroed>>

TakePacket_SkipsSilent ==
  /\ gpc = "poll" /\ endpoint # <<>>
  /\ IF Head(endpoint).silent
     THEN UNCHANGED <<todo, gpc>>
     ELSE /\ todo' = Head(endpoint).frames
          /\ gpc' = IF decodable THEN "convert" ELSE "zeros"
  /\ UNCHANGED <<format, endpoint, collected, acc, calls, surplus, fed, emitted,
                 zeroed>>

\* GetNextPacketSize and GetBuffer; while the endpoint is empty get sleeps and
\* polls again, which changes nothing.
TakePacket ==
  /\ gpc = "poll" /\ endpoint # <<>>
  /\ todo' = Head(endpoint).frames
  /\ gpc' = IF decodable /\ ~Head(endpoint).silent THEN "convert" ELSE "zeros"
  /\ UNCHANGED <<format, endpoint, collected, acc, calls, surplus, fed, emitted,
                 zeroed>>

\* SILENT packets, other PCM widths and other formats: one zero per frame of
\* the device until the window is full; the rest of the packet is skipped.
ZeroFrames ==
  /\ gpc = "zeros"
  /\ collected' = collected + Min2(todo, Wanted - collected)
  /\ surplus' = surplus + todo - Min2(todo, Wanted - collected)
  /\ zeroed' = zeroed + todo
  /\ todo' = 0
  /\ gpc' = "release"
  /\ UNCHANGED <<format, endpoint, acc, calls, fed, emitted>>

\* append_sample_resample: does this frame yield a sample, and what is left in
\* acc.  At most one sample, and the frame is consumed whether or not the
\* window has room for it.
Due == device_sample_rate = Target \/ acc + Target >= device_sample_rate

NextAcc == IF device_sample_rate = Target THEN acc
           ELSE IF Due THEN acc + Target - device_sample_rate ELSE acc + Target

Push_NoCheck ==
  /\ collected' = collected + 1
  /\ UNCHANGED surplus

\* if (collected < wanted_frames) { out.push_back(sample); ++collected; }
Push ==
  IF collected < Wanted
  THEN collected' = collected + 1 /\ UNCHANGED surplus
  ELSE surplus' = surplus + 1     /\ UNCHANGED collected

ConvertFrame ==
  /\ gpc = "convert" /\ todo > 0
  /\ acc' = NextAcc
  /\ IF Due THEN Push /\ emitted' = emitted + 1
            ELSE UNCHANGED <<collected, surplus, emitted>>
  /\ fed' = fed + 1
  /\ todo' = todo - 1
  /\ UNCHANGED <<format, endpoint, gpc, calls, zeroed>>

ConvertDone ==
  /\ gpc = "convert" /\ todo = 0
  /\ gpc' = "release"
  /\ UNCHANGED <<format, endpoint, collected, acc, todo, calls, surplus, fed,
                 emitted, zeroed>>

\* while (collected < wanted_frames).
Full_OneLess == collected + 1 >= Wanted
Full == collected >= Wanted

\* ReleaseBuffer gives back the whole packet.
ReleasePacket ==
  /\ gpc = "release"
  /\ endpoint' = Tail(endpoint)
  /\ gpc' = IF Full THEN "true" ELSE "poll"
  /\ UNCHANGED <<format, collected, acc, todo, calls, surplus, fed, emitted,
                 zeroed>>

\* One of the three calls fails (the device is gone): get returns false.
GetFails ==
  /\ \/ gpc = "poll"
     \/ gpc = "release"
  /\ gpc' = "false"
  /\ UNCHANGED <<format, endpoint, collected, acc, todo, calls, surplus, fed,
                 emitted, zeroed>>

GetStep == \/ TakePacket \/ ZeroFrames \/ ConvertFrame \/ ConvertDone
           \/ ReleasePacket

\* The caller takes the window and comes back; false is the end of its loop.
GetReturn ==
  /\ gpc = "true"
  /\ gpc' = "idle"
  /\ UNCHANGED <<format, endpoint, collected, acc, todo, calls, surplus, fed,
                 emitted, zeroed>>

LoopNext == \/ EnginePost \/ (calls < MaxCalls /\ GetCall) \/ GetStep \/ GetFails
        \/ GetReturn

LoopSpec == LoopInit /\ [][LoopNext]_loopVars

-----------------------------------------------------------------------------
(* Properties.                                                              *)

LoopTypeOK ==
  /\ device_sample_rate \in DeviceRates /\ decodable \in Formats
  /\ endpoint \in Seq(Packets) /\ Len(endpoint) <= EndpointPackets
  /\ gpc \in {"idle", "poll", "convert", "zeros", "release", "true", "false"}
  /\ collected \in 0 .. Wanted /\ acc \in Nat /\ todo \in 0 .. MaxPacket
  /\ calls \in Nat /\ surplus \in Nat
  /\ fed \in Nat /\ emitted \in Nat /\ zeroed \in Nat

\* get returns true with exactly the samples that were asked for, and what it
\* dropped for lack of room comes from the packet that filled the window
\* (main.cpp:170, 240): between two windows less than one packet is missing.
WindowExact ==
  gpc = "true" => collected = Wanted /\ surplus < MaxPacket

\* Over any number of packets and windows every frame fed to the resampler is a
\* sample emitted or still in the accumulator: silent packets, windows that fill up
\* in the middle of a packet and calls in between lose nothing.  Of a device that is
\* not slower than the target the accumulator keeps less than one sample, so what
\* was emitted is exactly what was due; of a slower one it keeps the whole shortfall
\* (main.cpp:266-281).
ResamplerExact ==
  /\ device_sample_rate * emitted + acc = Target * fed
  /\ device_sample_rate >= Target => acc < device_sample_rate

\* main.cpp:15: "Resamples device sample rate to WHISPER_SAMPLE_RATE".  After
\* every packet the samples made, those without room included, are never more than
\* are due for the frames consumed, and fall short of them by less than one.
OutputTracksTime ==
  gpc = "poll" =>
    LET due  == Target * (fed + zeroed)
        made == device_sample_rate * (emitted + zeroed)
    IN  made <= due /\ due < made + device_sample_rate
=============================================================================
