--------------------------- MODULE RingLifeProofs ---------------------------
(***************************************************************************)
(* Proofs about RingLife: what a ring holds at each point of its life, and *)
(* that everything proved of ChunkRing holds inside that life.             *)
(***************************************************************************)
EXTENDS RingLife, ChunkRingProofs

\* The places and the kinds of what a life keeps.
Phases == Attempts \union Ended \union
  {"alloc", "open_token", "look_up", "adjust", "get_size", "set_size",
   "give_back", "fill", "used", "free"}

LifeTypeOK ==
  /\ phase \in Phases
  /\ pages \in BOOLEAN /\ locked \in BOOLEAN
  /\ is_buffer_locked \in BOOLEAN /\ token \in BOOLEAN

\* Where the life stands says what is held, and that the threads are outside.
HeldInv ==
  /\ phase \in Phases
  /\ pages <=> phase \notin {"alloc"} \union Ended
  /\ locked <=> phase \in {"fill", "used"}
  /\ is_buffer_locked <=> phase \in {"fill", "used", "free", "destroyed"}
  /\ token <=> phase \in {"look_up", "adjust"}
LifeIInv ==
  /\ LifeTypeOK /\ HeldInv
  /\ phase # "used" => ppc \in {"idle", "stopped"} /\ cpc = "idle"

\* Nothing is held before the construction.
LEMMA LifeInitially == LifeInit => LifeIInv
BY DEF LifeInit, Init, LifeIInv, LifeTypeOK, HeldInv, Phases, Ended, Attempts,
       AfterAttempt

\* One step per call: only the last step of an attempt, of the constructor or of
\* the destructor changes what is held.
LEMMA LifeStep == LifeIInv /\ [LifeNext]_lifeVars => LifeIInv'
<1> SUFFICES ASSUME LifeIInv, [LifeNext]_lifeVars PROVE LifeIInv'
  OBVIOUS
<1> USE DEF LifeIInv, LifeTypeOK, HeldInv, Ended
<1>0. /\ Attempts = {"lock", "lock_privileged", "lock_larger"}
      /\ AfterAttempt["lock"] = "open_token"
      /\ AfterAttempt["lock_privileged"] = "get_size"
      /\ AfterAttempt["lock_larger"] = "give_back"
  BY DEF Attempts, AfterAttempt
<1>1. CASE Allocate
  <2>1. UNCHANGED <<ppc, cpc, locked, is_buffer_locked, token>>
    BY <1>1 DEF Allocate, vars, producer, consumer
  <2>2. CASE phase' = "lock" /\ pages' = TRUE
    BY <1>0, <1>1, <2>1, <2>2 DEF Allocate, Phases
  <2>3. CASE phase' = "failed" /\ UNCHANGED pages
    BY <1>0, <1>1, <2>1, <2>3 DEF Allocate, Phases
  <2> QED BY <1>1, <2>2, <2>3 DEF Allocate
<1>2. CASE Lock
  <2>1. phase \in {"lock", "lock_privileged", "lock_larger"}
    BY <1>0, <1>2 DEF Lock
  <2>2. UNCHANGED <<ppc, cpc, pages, token>>
    BY <1>2 DEF Lock, vars, producer, consumer
  <2>3. CASE phase' = "fill" /\ locked' = TRUE /\ is_buffer_locked' = TRUE
    BY <1>0, <2>1, <2>2, <2>3 DEF Phases
  <2>4. CASE phase' = AfterAttempt[phase] /\ UNCHANGED <<locked, is_buffer_locked>>
    <3>1. phase' \in {"open_token", "get_size", "give_back"}
      BY <1>0, <2>1, <2>4
    <3> QED BY <1>0, <2>1, <2>2, <2>4, <3>1 DEF Phases
  <2> QED BY <1>2, <2>3, <2>4 DEF Lock
<1>3. CASE OpenToken
  <2>1. UNCHANGED <<ppc, cpc, pages, locked, is_buffer_locked>>
    BY <1>3 DEF OpenToken, vars, producer, consumer
  <2>2. CASE phase' = "look_up" /\ token' = TRUE
    BY <1>0, <1>3, <2>1, <2>2 DEF OpenToken, Phases
  <2>3. CASE phase' = "get_size" /\ UNCHANGED token
    BY <1>0, <1>3, <2>1, <2>3 DEF OpenToken, Phases
  <2> QED BY <1>3, <2>2, <2>3 DEF OpenToken
<1>4. CASE LookUp
  BY <1>0, <1>4 DEF LookUp, Phases, vars, producer, consumer
<1>5. CASE Adjust
  BY <1>0, <1>5 DEF Adjust, Phases, vars, producer, consumer
<1>6. CASE GetSize
  BY <1>0, <1>6 DEF GetSize, Phases, vars, producer, consumer
<1>7. CASE SetSize
  BY <1>0, <1>7 DEF SetSize, Phases, vars, producer, consumer
<1>8. CASE GiveBack
  BY <1>0, <1>8 DEF GiveBack, Phases, vars, producer, consumer
<1>9. CASE Fill
  BY <1>0, <1>9 DEF Fill, Phases, vars, producer, consumer
<1>10. CASE Produce \/ Consume \/ AskToStop
  BY <1>0, <1>10 DEF Produce, Consume, AskToStop, Phases, life
<1>11. CASE Unlock
  BY <1>0, <1>11 DEF Unlock, OwnerIsDone, Phases, vars, producer, consumer
<1>12. CASE Free
  BY <1>0, <1>12 DEF Free, Phases, vars, producer, consumer
<1>13. CASE UNCHANGED lifeVars
  BY <1>0, <1>13 DEF lifeVars, life, Phases, vars, producer, consumer
<1> QED BY <1>1, <1>2, <1>3, <1>4, <1>5, <1>6, <1>7, <1>8, <1>9, <1>10,
           <1>11, <1>12, <1>13 DEF LifeNext

\* The threads meet only pages that are held and locked, and whatever fails nothing
\* is left when the life ends (chunk_buffer.h:22-56, VirtualAlloc.h:3-109).
THEOREM RingLeavesNothing == LifeSpec => []NothingLeftBehind
<1>1. LifeIInv => NothingLeftBehind
  BY DEF LifeIInv, LifeTypeOK, HeldInv, Ended, NothingLeftBehind
<1> QED BY LifeInitially, LifeStep, <1>1, PTL DEF LifeSpec

\* Construction and destruction are stutters of the ring: its own behaviour, and
\* with it each theorem of ChunkRingProofs, goes on inside its life
\* (chunk_buffer.h:15-56).
THEOREM LifeHasARing == LifeSpec => Spec
<1>1. LifeInit => Init BY DEF LifeInit
<1>2. [LifeNext]_lifeVars => [Next]_vars
  BY DEF LifeNext, lifeVars, Next, Allocate, Lock, OpenToken, LookUp, Adjust,
         GetSize, SetSize, GiveBack, Fill, Produce, Consume, AskToStop, Unlock,
         Free
<1> QED BY <1>1, <1>2, PTL DEF LifeSpec, Spec

\* So a life of the ring is one of the lossy log too (chunk_buffer.h:15-100).
THEOREM LifeImplementsLog == LifeSpec => LogSpec
BY LifeHasARing, ImplementsLog
=============================================================================
