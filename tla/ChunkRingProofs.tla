-------------------------- MODULE ChunkRingProofs --------------------------
(***************************************************************************)
(* Proofs about ChunkRing for every number of slots, every chunk size and  *)
(* every number of pushes.  IInv is the inductive invariant: the conjuncts *)
(* after TypeOK say what the two threads may rely on while one holds a     *)
(* value of an index that the other has since changed.                     *)
(***************************************************************************)
EXTENDS ChunkRing, TLAPS

Pushing == ppc \in {"load_r", "drop", "copy"}
Popping == cpc \in {"load_w", "claim", "read"}

\* push_chunk works on the index it published last, and knows from its own load
\* of read_index that a drop only happens when Slots chunks were written.
ProducerInv ==
  /\ Pushing => pw = write_index
  /\ ppc = "drop" => pw >= Slots
  /\ ppc # "copy" => copied = {}

\* try_pop_chunk's r is never past write_index, and before it once it has been
\* compared.
ConsumerInv ==
  /\ Popping => cr <= write_index
  /\ cpc \in {"claim", "read"} => cr < write_index
  /\ cpc \in {"load_w", "claim"} => \A n \in 0 .. cr - 1 : Settled(n)

\* A slot holds the last chunk published into it until that slot's next push,
\* and never anything older.
ContentInv ==
  /\ \A n \in 0 .. write_index - 1 : \A i \in Samples :
       /\ buffer[Slot(n)][i] >= Chunk(n)
       /\ write_index < n + Slots => buffer[Slot(n)][i] = Chunk(n)
  /\ \A i \in copied : buffer[Slot(write_index)][i] = Chunk(write_index)

\* A push that passed its check of the stop flag is the only one to come.
StopInv == stop_flag => IF Pushing THEN write_index <= stopped_at
                                   ELSE write_index <= stopped_at + 1

ControlInv == /\ TypeOK /\ IndexOrder /\ ProducerInv /\ ConsumerInv
              /\ NothingSkipped /\ StopInv
DataInv    == ContentInv /\ LapCheck
IInv       == ControlInv /\ DataInv

-----------------------------------------------------------------------------
\* Two indexes less than Slots apart are in different slots: what keeps a push
\* away from the chunks that are still waiting (chunk_buffer.h:75).
LEMMA SlotsApart ==
  ASSUME NEW a \in Nat, NEW b \in Nat, b < a, a < b + Slots
  PROVE  Slot(a) # Slot(b)
<1> DEFINE qa == a \div Slots  qb == b \div Slots
<1>0. Slots \in Nat \ {0} /\ Slots > 0 BY RingAssumption
<1>1. /\ a = Slots * qa + (a % Slots) /\ qa \in Int
      /\ b = Slots * qb + (b % Slots) /\ qb \in Int
      /\ a % Slots \in Int /\ b % Slots \in Int
  BY <1>0
<1>2. SUFFICES ASSUME a % Slots = b % Slots PROVE FALSE
  BY DEF Slot
<1> HIDE DEF qa, qb
<1>3. a - b = Slots * (qa - qb) BY <1>0, <1>1, <1>2
<1>4. qa - qb >= 1
  <2>1. CASE qa - qb <= 0
    <3>1. Slots * (qa - qb) <= 0 BY <1>0, <1>1, <2>1
    <3>2. QED BY <3>1, <1>3
  <2>2. QED BY <2>1, <1>1
<1>5. Slots * (qa - qb) >= Slots BY <1>0, <1>1, <1>4
<1>6. QED BY <1>3, <1>5, <1>0

\* Every index has a slot.
LEMMA SlotInRange == ASSUME NEW n \in Nat PROVE Slot(n) \in 0 .. Slots - 1
BY RingAssumption DEF Slot

-----------------------------------------------------------------------------
(* The counters and the two threads' locals.                                *)

\* One step of memcpy.
CopyOf(i) == /\ buffer' = [buffer EXCEPT ![Slot(pw)] =
                              [buffer[Slot(pw)] EXCEPT ![i] = Chunk(pw)]]
             /\ copied' = copied \union {i}

\* Nothing is pushed and no thread holds an index.
LEMMA InitIInv == Init => IInv
<1> SUFFICES ASSUME Init PROVE IInv
  OBVIOUS
<1> USE RingAssumption DEF Init
<1>1. TypeOK BY DEF TypeOK, Samples, Content, Unread
<1>2. IndexOrder /\ ProducerInv /\ ConsumerInv /\ NothingSkipped /\ StopInv
  BY DEF IndexOrder, ProducerInv, ConsumerInv, NothingSkipped, StopInv,
         Pushing, Popping
<1>3. ContentInv /\ LapCheck BY DEF ContentInv, LapCheck
<1> QED BY <1>1, <1>2, <1>3 DEF IInv, ControlInv, DataInv

\* Each thread may go on relying on what it holds, whatever the other does.
LEMMA ControlStep == ControlInv /\ [Next]_vars => ControlInv'
<1> SUFFICES ASSUME ControlInv, [Next]_vars PROVE ControlInv'
  OBVIOUS
<1> USE RingAssumption
<1> USE DEF ControlInv, TypeOK, IndexOrder, ProducerInv, ConsumerInv,
            NothingSkipped, Settled, StopInv, Pushing, Popping,
            ring, producer, consumer, stop
<1>1. CASE PushBegin BY <1>1 DEF PushBegin
<1>2. CASE PushRefused BY <1>2 DEF PushRefused
<1>3. CASE PushLoadRead BY <1>3 DEF PushLoadRead, Full
<1>4. CASE PushDropOldest BY <1>4 DEF PushDropOldest, OldestKept
<1>5. CASE PushCopySample
  <2>1. PICK i \in Samples : CopyOf(i)
    BY <1>5 DEF PushCopySample, CopyOf, Target
  <2>2. Slot(pw) \in 0 .. Slots - 1 BY SlotInRange
  <2>3. [buffer[Slot(pw)] EXCEPT ![i] = Chunk(pw)] \in [Samples -> Content]
    BY <2>2 DEF Chunk, Content
  <2>4. buffer' \in [0 .. Slots - 1 -> [Samples -> Content]]
    BY <2>1, <2>2, <2>3 DEF CopyOf
  <2> QED BY <1>5, <2>1, <2>4 DEF PushCopySample, CopyOf
<1>6. CASE PushPublish BY <1>6 DEF PushPublish
<1>7. CASE PopBegin BY <1>7 DEF PopBegin
<1>8. CASE PopLoadWrite BY <1>8 DEF PopLoadWrite, Empty
<1>9. CASE PopClaim BY <1>9 DEF PopClaim, Unread
<1>10. CASE ReadSample
  <2>1. out' \in [Samples -> Content \union {Unread}]
    <3>1. Slot(cr) \in 0 .. Slots - 1 BY SlotInRange
    <3>2. buffer[Slot(cr)] \in [Samples -> Content] BY <3>1
    <3> QED BY <1>10, <3>2 DEF ReadSample
  <2> QED BY <1>10, <2>1 DEF ReadSample
<1>11. CASE ReadDone BY <1>11 DEF ReadDone
<1>12. CASE RequestStop BY <1>12 DEF RequestStop
<1>13. CASE UNCHANGED vars BY <1>13 DEF vars
<1> QED
  BY <1>1, <1>2, <1>3, <1>4, <1>5, <1>6, <1>7, <1>8, <1>9, <1>10, <1>11,
     <1>12, <1>13 DEF Next, Producer, Consumer

-----------------------------------------------------------------------------
(* What the slots hold, and what the consumer reads.                        *)

\* A copied sample goes to the slot of write_index and nowhere else.
LEMMA CopyIsLocal ==
  ASSUME ControlInv, NEW i \in Samples, CopyOf(i), ppc = "copy"
  PROVE  /\ pw = write_index
         /\ \A s \in 0 .. Slots - 1, j \in Samples :
              buffer'[s][j] = IF s = Slot(pw) /\ j = i THEN Chunk(pw)
                                                     ELSE buffer[s][j]
<1>1. pw = write_index /\ Slot(pw) \in 0 .. Slots - 1
  BY SlotInRange DEF ControlInv, TypeOK, ProducerInv, Pushing
<1>2. /\ buffer \in [0 .. Slots - 1 -> [Samples -> Content]]
      /\ buffer[Slot(pw)] \in [Samples -> Content]
  BY <1>1 DEF ControlInv, TypeOK
<1> QED BY <1>1, <1>2 DEF CopyOf

\* A push writes to a slot only when the chunk in it is a whole turn older.
LEMMA ContentStep == ControlInv /\ ContentInv /\ [Next]_vars => ContentInv'
<1> SUFFICES ASSUME ControlInv, ContentInv, [Next]_vars PROVE ContentInv'
  OBVIOUS
<1> USE RingAssumption
<1>0. /\ write_index \in Nat /\ copied \subseteq Samples /\ pw \in Nat
      /\ buffer \in [0 .. Slots - 1 -> [Samples -> Content]]
      /\ Pushing => pw = write_index
  BY DEF ControlInv, TypeOK, ProducerInv
<1>1. CASE PushCopySample
  <2>1. PICK i \in Samples : CopyOf(i)
    BY <1>1 DEF PushCopySample, CopyOf, Target
  <2>2. ppc = "copy" /\ write_index' = write_index /\ pw = write_index
    BY <1>0, <1>1 DEF PushCopySample, Pushing
  <2>3. \A s \in 0 .. Slots - 1, j \in Samples :
          buffer'[s][j] = IF s = Slot(pw) /\ j = i THEN Chunk(pw)
                                                 ELSE buffer[s][j]
    BY <2>1, <2>2, CopyIsLocal
  <2>4. ASSUME NEW n \in 0 .. write_index - 1, NEW j \in Samples
        PROVE  /\ buffer'[Slot(n)][j] >= Chunk(n)
               /\ write_index < n + Slots => buffer'[Slot(n)][j] = Chunk(n)
    <3>1. n \in Nat /\ n < write_index /\ Slot(n) \in 0 .. Slots - 1
      BY <1>0, SlotInRange
    <3>2. /\ buffer[Slot(n)][j] >= Chunk(n)
          /\ write_index < n + Slots => buffer[Slot(n)][j] = Chunk(n)
      BY DEF ContentInv
    <3>3. write_index < n + Slots => Slot(n) # Slot(pw)
      BY <1>0, <2>2, <3>1, SlotsApart
    <3> QED BY <1>0, <2>2, <2>3, <3>1, <3>2, <3>3 DEF Chunk
  <2>5. ASSUME NEW j \in copied'
        PROVE  buffer'[Slot(write_index)][j] = Chunk(write_index)
    <3>1. j \in Samples /\ Slot(pw) \in 0 .. Slots - 1
      BY <1>0, <2>1, SlotInRange DEF CopyOf
    <3>2. j \in copied => buffer[Slot(write_index)][j] = Chunk(write_index)
      BY DEF ContentInv
    <3> QED BY <2>1, <2>2, <2>3, <3>1, <3>2 DEF CopyOf
  <2> QED BY <2>2, <2>4, <2>5 DEF ContentInv
<1>2. CASE PushPublish
  <2>1. /\ copied = Samples /\ pw = write_index /\ buffer' = buffer
        /\ write_index' = write_index + 1 /\ copied' = {}
    BY <1>0, <1>2 DEF PushPublish, Pushing
  <2>2. ASSUME NEW n \in 0 .. write_index, NEW j \in Samples
        PROVE  /\ buffer[Slot(n)][j] >= Chunk(n)
               /\ write_index + 1 < n + Slots => buffer[Slot(n)][j] = Chunk(n)
    <3>1. CASE n = write_index BY <1>0, <2>1, <3>1 DEF ContentInv, Chunk
    <3>2. CASE n \in 0 .. write_index - 1 BY <1>0, <3>2 DEF ContentInv
    <3> QED BY <1>0, <3>1, <3>2
  <2>3. 0 .. write_index' - 1 = 0 .. write_index BY <1>0, <2>1
  <2> QED BY <2>1, <2>2, <2>3 DEF ContentInv
<1>3. CASE UNCHANGED <<buffer, write_index, copied>>
  BY <1>3 DEF ContentInv
<1>4. CASE PushBegin BY <1>3, <1>4 DEF PushBegin, ring
<1>5. CASE PushRefused BY <1>3, <1>5 DEF PushRefused, ring
<1>6. CASE PushLoadRead BY <1>3, <1>6 DEF PushLoadRead, ring
<1>7. CASE PushDropOldest BY <1>3, <1>7 DEF PushDropOldest
<1>8. CASE Consumer
  BY <1>3, <1>8 DEF Consumer, PopBegin, PopLoadWrite, PopClaim, ReadSample,
                   ReadDone, ring, producer
<1>9. CASE RequestStop BY <1>3, <1>9 DEF RequestStop, ring, producer
<1>10. CASE UNCHANGED vars BY <1>3, <1>10 DEF vars, ring, producer
<1> QED
  BY <1>1, <1>2, <1>4, <1>5, <1>6, <1>7, <1>8, <1>9, <1>10 DEF Next, Producer

\* What is read before the producer comes round is of the chunk handed out.
LEMMA LapStep == IInv /\ [Next]_vars => LapCheck'
<1> SUFFICES ASSUME IInv, [Next]_vars PROVE LapCheck'
  OBVIOUS
<1> USE RingAssumption DEF Chunk
<1>0. /\ write_index \in Nat /\ cr \in Nat
      /\ out \in [Samples -> Content \union {Unread}]
      /\ cpc \in {"claim", "read"} => cr < write_index
      /\ LapCheck
  BY DEF IInv, ControlInv, DataInv, TypeOK, ConsumerInv
<1>1. CASE ReadSample
  <2>1. PICK i \in Samples : out' = [out EXCEPT ![i] = buffer[Slot(cr)][i]]
    BY <1>1 DEF ReadSample
  <2>2. /\ buffer[Slot(cr)][i] >= Chunk(cr)
        /\ write_index < cr + Slots => buffer[Slot(cr)][i] = Chunk(cr)
    <3>1. cr \in 0 .. write_index - 1 BY <1>0, <1>1 DEF ReadSample
    <3> QED BY <3>1 DEF IInv, DataInv, ContentInv
  <2>3. cr' = cr /\ write_index' = write_index /\ cpc = "read"
    BY <1>1 DEF ReadSample, ring
  <2>4. \A j \in Samples : j # i => out'[j] = out[j]
    BY <1>0, <2>1
  <2>5. out'[i] = buffer[Slot(cr)][i] BY <1>0, <2>1
  <2> QED BY <1>0, <2>2, <2>3, <2>4, <2>5 DEF LapCheck
<1>2. CASE PopClaim BY <1>2 DEF PopClaim, LapCheck
<1>3. CASE PushPublish
  BY <1>0, <1>3 DEF PushPublish, consumer, LapCheck, IInv, ControlInv,
                   ProducerInv, Pushing, TypeOK
<1>4. CASE PopBegin \/ PopLoadWrite \/ ReadDone
  BY <1>4 DEF PopBegin, PopLoadWrite, ReadDone, LapCheck
<1>5. CASE UNCHANGED <<cpc, cr, out, write_index>>
  BY <1>0, <1>5 DEF LapCheck
<1>6. CASE PushBegin \/ PushRefused \/ PushLoadRead \/ PushDropOldest
           \/ PushCopySample \/ RequestStop \/ UNCHANGED vars
  BY <1>5, <1>6 DEF PushBegin, PushRefused, PushLoadRead, PushDropOldest,
       PushCopySample, RequestStop, vars, ring, consumer
<1> QED
  BY <1>1, <1>2, <1>3, <1>4, <1>6 DEF Next, Producer, Consumer

-----------------------------------------------------------------------------
(* Theorems of the specification.                                           *)

\* The strengthened invariant holds in every reachable state.
THEOREM Inductive == Spec => []IInv
<1>1. IInv /\ [Next]_vars => IInv'
  BY ControlStep, ContentStep, LapStep DEF IInv, DataInv
<1> QED BY InitIInv, <1>1, PTL DEF Spec

\* Every variable keeps its type: in particular no index becomes negative.
THEOREM TypeCorrect == Spec => []TypeOK
<1>1. IInv => TypeOK BY DEF IInv, ControlInv
<1> QED BY Inductive, <1>1, PTL

\* read_index never passes write_index and only published chunks are popped,
\* although both threads store read_index without looking at it again
\* (chunk_buffer.h:68-73, 98).
THEOREM IndexesInOrder == Spec => []IndexOrder
<1>1. IInv => IndexOrder BY DEF IInv, ControlInv
<1> QED BY Inductive, <1>1, PTL

\* No chunk that still has its slot is skipped (chunk_buffer.h:68-73, 98).
THEOREM NoChunkLostWithRoom == Spec => []NothingSkipped
<1>1. IInv => NothingSkipped BY DEF IInv, ControlInv
<1> QED BY Inductive, <1>1, PTL

\* What a consumer reads through its pointer is the chunk it popped as long as
\* write_index has not reached cr + Slots, and never older (chunk_buffer.h:86).
THEOREM PointerContract == Spec => []LapCheck
<1>1. IInv => LapCheck BY DEF IInv, DataInv
<1> QED BY Inductive, <1>1, PTL

\* At most one push is published after the stop flag is raised
\* (chunk_buffer.h:61).
THEOREM StopIsPrompt == Spec => []StopBound
<1>1. IInv => StopBound
  BY DEF IInv, ControlInv, TypeOK, StopInv, StopBound
<1> QED BY Inductive, <1>1, PTL

\* ChunkRing implements the lossy log: publishing is Publish, claiming is Take,
\* every other step leaves the log alone (chunk_buffer.h:60-100).
THEOREM ImplementsLog == Spec => LogSpec
<1> USE DEF Log!Spec, Log!Init, Log!Next, Log!vars, Log!Publish, Log!Take,
            Log!PushedOut
<1>1. Init => Log!Init BY DEF Init
<1>2. IInv /\ [Next]_vars => [Log!Next]_(Log!vars)
  <2> SUFFICES ASSUME IInv, [Next]_vars PROVE [Log!Next]_(Log!vars)
    OBVIOUS
  <2>1. CASE PushPublish
    BY <2>1 DEF PushPublish, consumer, IInv, ControlInv, ProducerInv, Pushing
  <2>2. CASE PopClaim
    <3>1. /\ cr \in Nat /\ write_index \in Nat /\ cr < write_index
          /\ \A n \in 0 .. cr - 1 : Settled(n)
      BY <2>2 DEF PopClaim, IInv, ControlInv, TypeOK, ConsumerInv
    <3>2. Log!Take(cr) BY <2>2, <3>1 DEF PopClaim, Settled
    <3>3. cr \in 0 .. write_index - 1 BY <3>1
    <3> QED BY <3>2, <3>3
  <2>3. CASE UNCHANGED <<write_index, delivered>> BY <2>3
  <2>4. CASE PushBegin \/ PushRefused \/ PushLoadRead \/ PushDropOldest
             \/ PushCopySample \/ PopBegin \/ PopLoadWrite \/ ReadSample
             \/ ReadDone \/ RequestStop \/ UNCHANGED vars
    BY <2>3, <2>4 DEF PushBegin, PushRefused, PushLoadRead, PushDropOldest,
         PushCopySample, PopBegin, PopLoadWrite, ReadSample, ReadDone,
         RequestStop, vars, ring, consumer
  <2> QED BY <2>1, <2>2, <2>4 DEF Next, Producer, Consumer
<1> QED BY Inductive, <1>1, <1>2, PTL DEF Spec, LogSpec
=============================================================================
