------------------------------- MODULE Voxory -------------------------------
(***************************************************************************)
(* main() of src/main.cpp: load the model, open the loopback device, then  *)
(* collect a window with WasapiLoopback::get (module Loopback), put it     *)
(* behind the tail of the previous one, transcribe it, and start over      *)
(* until something fails.  The audio engine goes on filling the endpoint   *)
(* while main transcribes.                                                 *)
(*                                                                         *)
(* The samples get returned are numbered 1, 2, 3, ... over the whole run,  *)
(* so a window is the sequence of the numbers of its samples.              *)
(***************************************************************************)
EXTENDS Loopback

\* Wanted of Loopback is n_samples_step, what one call of get collects.
CONSTANTS
  LengthSamples, \* n_samples_len
  KeepSamples    \* n_samples_keep

\* The program's own values are a step as long as the window and no keep.
ASSUME MainAssumption ==
  /\ LengthSamples \in Nat \ {0}
  /\ KeepSamples \in Nat /\ KeepSamples <= Wanted

VARIABLES
  mpc,           \* where main is
  step,          \* init(): the COM call it is at
  held,          \* resources acquired and not released
  running,       \* WasapiLoopback::running
  com, com_ok,   \* initializations of COM less their ends; did the first work?
  exit_code,     \* what main returned, or NotYet
  pcmf32,        \* the window handed to whisper
  pcmf32_old,    \* what the next window may start with
  captured,      \* history: samples collected by all calls of get
  transcribed,   \* history: the samples whisper has been given
  n_iter

session  == <<step, held, running, com, com_ok, exit_code>>
windows  == <<pcmf32, pcmf32_old, captured, transcribed, n_iter>>
vars     == <<loopVars, mpc, session, windows>>

NotYet == -1
Max2(a, b) == IF a > b THEN a ELSE b

\* The six calls of init(), by what each one acquires.
InitCalls == <<"enumerator", "device", "client", "format", "initialized",
               "capture">>

\* What the destructor gives back: an initialized client is no object of its
\* own.
Owned == {"enumerator", "device", "client", "format", "capture"}

-----------------------------------------------------------------------------
(* The window.                                                              *)

n_new_line == Max2(1, LengthSamples \div Wanted - 1)

\* n_samples_take.
Take(new) ==
  Min2(Len(pcmf32_old), Max2(0, KeepSamples + LengthSamples - new))

\* The last take samples of pcmf32_old, then the new ones.
Window(take, new) ==
  [i \in 1 .. take + new |->
     IF i <= take THEN pcmf32_old[Len(pcmf32_old) - take + i]
                  ELSE captured + i - take]

\* Is the overlap cut down after the n-th window?
CutDue_OneLate(n) == n % (n_new_line + 1) = 0
CutDue(n) == n % n_new_line = 0

\* vector(end - n_samples_keep, end).
KeepTail_FromFront(w) == SubSeq(w, 1, KeepSamples)
KeepTail(w) == SubSeq(w, Len(w) - KeepSamples + 1, Len(w))

-----------------------------------------------------------------------------
Init ==
  /\ LoopInit
  /\ mpc = "model" /\ step = 1 /\ held = {} /\ running = FALSE
  /\ com = 0 /\ com_ok = TRUE /\ exit_code = NotYet
  /\ pcmf32 = <<>> /\ pcmf32_old = <<>>
  /\ captured = 0 /\ transcribed = {} /\ n_iter = 0

-----------------------------------------------------------------------------
(* Start-up.                                                                *)

\* whisper_init_from_file_with_params.
LoadModel ==
  /\ mpc = "model"
  /\ \/ held' = {"ctx"} /\ mpc' = "com" /\ UNCHANGED exit_code
     \/ exit_code' = 2 /\ mpc' = "done" /\ UNCHANGED held
  /\ UNCHANGED <<loopVars, windows, step, running, com, com_ok>>

\* The constructor's CoInitializeEx, whose result nobody looks at.  When it fails
\* because COM runs in another mode already, what follows may still work.
InitCom ==
  /\ mpc = "com" /\ mpc' = "init"
  /\ com_ok' \in BOOLEAN /\ com' = IF com_ok' THEN com + 1 ELSE com
  /\ UNCHANGED <<loopVars, windows, step, held, running, exit_code>>

\* One COM call of init(), and its early return.
InitDevice ==
  /\ mpc = "init"
  /\ \/ /\ held' = held \union {InitCalls[step]}
        /\ step' = step + 1
        /\ mpc' = IF step = Len(InitCalls) THEN "start" ELSE "init"
        /\ UNCHANGED exit_code
     \/ exit_code' = 1 /\ mpc' = "unwind" /\ UNCHANGED <<held, step>>
  /\ UNCHANGED <<loopVars, windows, running, com, com_ok>>

StartDevice ==
  /\ mpc = "start"
  /\ \/ running' = TRUE /\ mpc' = "call" /\ UNCHANGED exit_code
     \/ exit_code' = 1 /\ mpc' = "unwind" /\ UNCHANGED running
  /\ UNCHANGED <<loopVars, windows, held, step, com, com_ok>>

-----------------------------------------------------------------------------
(* The loop.                                                                *)

CallGet ==
  /\ mpc = "call" /\ calls < MaxCalls
  /\ GetCall
  /\ mpc' = "collect"
  /\ UNCHANGED <<session, windows>>

Collect ==
  /\ mpc = "collect"
  /\ GetStep
  /\ UNCHANGED <<mpc, session, windows>>

DeviceFails ==
  /\ mpc = "collect"
  /\ GetFails
  /\ UNCHANGED <<mpc, session, windows>>

LoopBreaks_Retries ==
  /\ mpc = "collect" /\ gpc = "false"
  /\ mpc' = "call"
  /\ UNCHANGED <<loopVars, session, windows>>

\* get returned false: what it had collected is dropped with the loop.
LoopBreaks ==
  /\ mpc = "collect" /\ gpc = "false"
  /\ mpc' = "stop"
  /\ UNCHANGED <<loopVars, session, windows>>

Assemble ==
  /\ mpc = "collect"
  /\ GetReturn
  /\ pcmf32' = Window(Take(collected), collected)
  /\ pcmf32_old' = pcmf32'
  /\ captured' = captured + collected
  /\ mpc' = "infer"
  /\ UNCHANGED <<session, transcribed, n_iter>>

\* whisper_full succeeds, after however long; every n_new_line windows the
\* overlap is cut down to n_samples_keep.
Transcribe ==
  /\ mpc = "infer"
  /\ transcribed' = transcribed \union {pcmf32[i] : i \in 1 .. Len(pcmf32)}
  /\ n_iter' = n_iter + 1
  /\ pcmf32_old' = IF CutDue(n_iter') THEN KeepTail(pcmf32)
                                      ELSE pcmf32_old
  /\ mpc' = "call"
  /\ UNCHANGED <<loopVars, session, pcmf32, captured>>

TranscribeFails_Continues ==
  /\ mpc = "infer"
  /\ mpc' = "call"
  /\ UNCHANGED <<loopVars, session, windows>>

TranscribeFails ==
  /\ mpc = "infer"
  /\ mpc' = "stop"
  /\ UNCHANGED <<loopVars, session, windows>>

-----------------------------------------------------------------------------
(* The end of main: wasapi.stop(), whisper_free, return 0 whatever failed.  *)

StopCapture ==
  /\ mpc = "stop"
  /\ running' = FALSE
  /\ mpc' = "free"
  /\ UNCHANGED <<loopVars, windows, step, held, com, com_ok, exit_code>>

FreeModel_ReturnsWindows ==
  /\ mpc = "free"
  /\ held' = held \ {"ctx"}
  /\ exit_code' = n_iter
  /\ mpc' = "unwind"
  /\ UNCHANGED <<loopVars, windows, step, running, com, com_ok>>

FreeModel ==
  /\ mpc = "free"
  /\ held' = held \ {"ctx"}
  /\ exit_code' = 0
  /\ mpc' = "unwind"
  /\ UNCHANGED <<loopVars, windows, step, running, com, com_ok>>

\* ~WasapiLoopback, on every return after the constructor: stop if running,
\* release what was acquired, CoUninitialize whatever CoInitializeEx had said.
Destroy_LeaksFormat ==
  /\ mpc = "unwind"
  /\ running' = FALSE
  /\ held' = held \ ((Owned \union {"initialized"}) \ {"format"})
  /\ com' = com - 1
  /\ mpc' = "done"
  /\ UNCHANGED <<loopVars, windows, step, com_ok, exit_code>>

Destroy ==
  /\ mpc = "unwind"
  /\ running' = FALSE
  /\ held' = held \ (Owned \union {"initialized"})
  /\ com' = com - 1
  /\ mpc' = "done"
  /\ UNCHANGED <<loopVars, windows, step, com_ok, exit_code>>

\* The engine delivers packets to a started client only.
Play ==
  /\ running
  /\ EnginePost
  /\ UNCHANGED <<mpc, session, windows>>

Main == \/ LoadModel \/ InitCom \/ InitDevice \/ StartDevice
        \/ CallGet \/ Collect \/ LoopBreaks \/ Assemble
        \/ Transcribe \/ TranscribeFails
        \/ StopCapture \/ FreeModel \/ Destroy

Next == Main \/ DeviceFails \/ Play

Spec == Init /\ [][Next]_vars

FairSpec == Spec /\ WF_vars(Main) /\ WF_vars(Play)

-----------------------------------------------------------------------------
(* Properties.                                                              *)

TypeOK ==
  /\ mpc \in {"model", "com", "init", "start", "call", "collect", "infer", "stop",
              "free", "unwind", "done"}
  /\ step \in 1 .. Len(InitCalls) + 1
  /\ held \subseteq Owned \union {"ctx", "initialized"}
  /\ running \in BOOLEAN /\ exit_code \in {NotYet, 0, 1, 2}
  /\ com \in Int /\ com_ok \in BOOLEAN
  /\ captured \in Nat /\ n_iter \in Nat /\ transcribed \subseteq Nat

\* s is the end of what was captured, without a gap or a repetition.
Recent(s) == /\ Len(s) <= captured
             /\ \A i \in 1 .. Len(s) : s[i] = captured - Len(s) + i

\* Every window whisper is given is the newest stretch of the captured samples
\* in order, the new ones at its end: the overlap taken from the previous
\* window, and cut down every n_new_line windows, always joins them without a
\* seam (main.cpp:335-343, 375-377).
WindowSeamless == mpc = "infer" => Recent(pcmf32) /\ Recent(pcmf32_old)

\* Cutting down the overlap every n_new_line windows keeps a window within the
\* kept samples and n_new_line steps, whatever the length and the step are; it is
\* never longer either than the window length and the kept samples, or the new
\* samples alone (main.cpp:293, 336, 375-377).
WindowBounded ==
  /\ Len(pcmf32) <= KeepSamples + n_new_line * Wanted
  /\ Len(pcmf32) <= Max2(Wanted, KeepSamples + LengthSamples)

\* When main asks for more audio, whisper has been given every sample that was
\* captured before (main.cpp:328-378).
NothingUntranscribed == mpc = "call" => transcribed = 1 .. captured

\* The overlap that is cut down is there: pcmf32.end() - n_samples_keep stays
\* inside the vector (main.cpp:376).
KeepInside == mpc = "infer" => KeepSamples <= Len(pcmf32)

\* When main has returned the capture is stopped and everything the device needed
\* is released, wherever start-up or the loop failed, but two things are wrong, and
\* only these: the model is kept exactly when the device could not be opened or
\* started, and COM is ended once too often exactly when its initialization failed
\* (main.cpp:76-88, 301-320, 380-382).
ReleasedAtExit ==
  mpc = "done" =>
    /\ ~running /\ exit_code # NotYet
    /\ held = IF exit_code = 1 THEN {"ctx"} ELSE {}
    /\ com = IF com_ok THEN 0 ELSE -1

\* A failure of the device while get collects ends the program
\* (main.cpp:330-333, 380-382).
FailureEndsRun == gpc = "false" ~> mpc = "done"

\* While something plays, every call of get leads to a window or to the end of
\* the loop (main.cpp:328-343).
CollectEnds == mpc = "collect" ~> mpc \in {"infer", "stop"}
=============================================================================
