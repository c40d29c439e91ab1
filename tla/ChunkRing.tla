----------------------------- MODULE ChunkRing -----------------------------
(***************************************************************************)
(* voxory::ChunkRing (include/containers/impl/chunk_buffer.h): a ring of   *)
(* fixed-size chunks of float samples between one capture thread, which    *)
(* calls push_chunk, and one inference thread, which calls try_pop_chunk.  *)
(* The producer never waits: when the ring is full it moves read_index     *)
(* forward itself, so read_index has two writers.                          *)
(*                                                                         *)
(* An action is one access to a shared location.  memcpy, and the reads    *)
(* the consumer makes through the pointer it was given, are one step per   *)
(* sample in any order, because neither side excludes the other while it   *)
(* copies or reads.  The accesses are interleaved (sequentially            *)
(* consistent): no store is delayed past a later load of the same thread.  *)
(***************************************************************************)
EXTENDS Integers, FiniteSets

CONSTANTS
  Slots,       \* slots, the constructor's capacity_slots
  ChunkSize,   \* chunk_sz, the samples of a chunk
  MaxChunks    \* bound: the producer pushes at most this many chunks

\* The constructor's contract (chunk_buffer.h:14).
ASSUME RingAssumption ==
  /\ Slots \in Nat /\ Slots >= 2
  /\ ChunkSize \in Nat \ {0}
  /\ MaxChunks \in Nat

VARIABLES
  write_index, read_index,   \* the two atomic counters
  buffer,                    \* buffer[s][i]: sample i of slot s
  stop_flag,                 \* the caller's stop flag
  ppc, pw, pr,               \* push_chunk: where it is, its w and r
  copied,                    \* the samples memcpy has copied so far
  cpc, cr,                   \* try_pop_chunk: where it is, its r
  out,                       \* what the caller read through the pointer
  delivered,                 \* history: the indexes popped
  stopped_at                 \* history: write_index when stop was requested

ring     == <<write_index, read_index, buffer>>
producer == <<ppc, pw, pr, copied>>
consumer == <<cpc, cr, out, delivered>>
stop     == <<stop_flag, stopped_at>>
vars     == <<ring, producer, consumer, stop>>

Samples == 0 .. ChunkSize - 1

\* What a slot holds: 0 is the constructor's fill, n + 1 the chunk that was
\* pushed when write_index was n.
Chunk(n) == n + 1
Content  == Nat
Unread   == -1

-----------------------------------------------------------------------------
(* The arithmetic of the two functions.                                     *)

Slot(n) == n % Slots

\* (w - r) >= slots on uint64_t: a reader ahead of the writer would wrap to a
\* huge distance, which reads as full.
Full(w, r) == w < r \/ w - r >= Slots

\* new_r: the read index that leaves one slot free.
OldestKept_TooFar(w) == w - (Slots - 2)
OldestKept_NoParentheses(w) == w - Slots - 1
OldestKept(w) == w - (Slots - 1)

\* r >= w: nothing to pop.
Empty_OffByOne(r, w) == r > w
Empty_LeavesOne(r, w) == r + 1 >= w
Empty(r, w) == r >= w

\* The push whose index was w copies into this slot.
Target_Next(w) == Slot(w + 1)
Target(w) == Slot(w)

-----------------------------------------------------------------------------
Init ==
  /\ write_index = 0 /\ read_index = 0
  /\ buffer = [s \in 0 .. Slots - 1 |-> [i \in Samples |-> 0]]
  /\ stop_flag = FALSE /\ stopped_at = 0
  /\ ppc = "idle" /\ pw = 0 /\ pr = 0 /\ copied = {}
  /\ cpc = "idle" /\ cr = 0
  /\ out = [i \in Samples |-> Unread]
  /\ delivered = {}

-----------------------------------------------------------------------------
(* push_chunk, the producer.                                                *)

\* The stop flag is read once, on entry; w is the producer's own last store.
PushBegin ==
  /\ ppc = "idle" /\ ~stop_flag /\ write_index < MaxChunks
  /\ pw' = write_index
  /\ ppc' = "load_r"
  /\ UNCHANGED <<ring, pr, copied, consumer, stop>>

\* push_chunk returns false and the capture loop ends.
PushRefused ==
  /\ ppc = "idle" /\ stop_flag
  /\ ppc' = "stopped"
  /\ UNCHANGED <<ring, pw, pr, copied, consumer, stop>>

PushLoadRead ==
  /\ ppc = "load_r"
  /\ pr' = read_index
  /\ ppc' = IF Full(pw, pr') THEN "drop" ELSE "copy"
  /\ UNCHANGED <<ring, pw, copied, consumer, stop>>

\* The store does not look at read_index again: the consumer may have moved it
\* since PushLoadRead.
PushDropOldest ==
  /\ ppc = "drop"
  /\ read_index' = OldestKept(pw)
  /\ pr' = OldestKept(pw)
  /\ ppc' = "copy"
  /\ UNCHANGED <<write_index, buffer, pw, copied, consumer, stop>>

PushCopySample ==
  /\ ppc = "copy"
  /\ \E i \in Samples \ copied :
       /\ buffer' = [buffer EXCEPT ![Target(pw)][i] = Chunk(pw)]
       /\ copied' = copied \union {i}
  /\ UNCHANGED <<write_index, read_index, ppc, pw, pr, consumer, stop>>

PushPublish ==
  /\ ppc = "copy" /\ copied = Samples
  /\ write_index' = pw + 1
  /\ copied' = {}
  /\ ppc' = "idle"
  /\ UNCHANGED <<read_index, buffer, pw, pr, consumer, stop>>

-----------------------------------------------------------------------------
(* try_pop_chunk, and what its caller does with the pointer.                *)

PopBegin ==
  /\ cpc = "idle"
  /\ cr' = read_index
  /\ cpc' = "load_w"
  /\ UNCHANGED <<ring, producer, out, delivered, stop>>

\* r >= w: nullptr, and the caller polls again.
PopLoadWrite ==
  /\ cpc = "load_w"
  /\ cpc' = IF Empty(cr, write_index) THEN "idle" ELSE "claim"
  /\ UNCHANGED <<ring, producer, cr, out, delivered, stop>>

\* Another unconditional store: a drop made since PopBegin is overwritten.
PopClaim ==
  /\ cpc = "claim"
  /\ read_index' = cr + 1
  /\ delivered' = delivered \union {cr}
  /\ out' = [i \in Samples |-> Unread]
  /\ cpc' = "read"
  /\ UNCHANGED <<write_index, buffer, producer, cr, stop>>

\* The caller reads the chunk through the returned pointer ...
ReadSample ==
  /\ cpc = "read"
  /\ \E i \in Samples :
       /\ out[i] = Unread
       /\ out' = [out EXCEPT ![i] = buffer[Slot(cr)][i]]
  /\ UNCHANGED <<ring, producer, cpc, cr, delivered, stop>>

\* ... and comes back for the next one when it has read all of it.
ReadDone ==
  /\ cpc = "read" /\ \A i \in Samples : out[i] # Unread
  /\ cpc' = "idle"
  /\ UNCHANGED <<ring, producer, cr, out, delivered, stop>>

-----------------------------------------------------------------------------
\* The owner of both threads asks the capture to stop, at any time, once.
RequestStop ==
  /\ ~stop_flag
  /\ stop_flag' = TRUE
  /\ stopped_at' = write_index
  /\ UNCHANGED <<ring, producer, consumer>>

Producer == \/ PushBegin \/ PushRefused \/ PushLoadRead \/ PushDropOldest
            \/ PushCopySample \/ PushPublish
Consumer == \/ PopBegin \/ PopLoadWrite \/ PopClaim \/ ReadSample \/ ReadDone

Next == Producer \/ Consumer \/ RequestStop

Spec == Init /\ [][Next]_vars

\* Both are threads of the operating system, and neither function blocks.
FairSpec == Spec /\ WF_vars(Producer) /\ WF_vars(Consumer)

-----------------------------------------------------------------------------
(* Properties.                                                              *)

\* Every variable holds a value of its kind; an index the producer works with
\* is the one it published.
TypeOK ==
  /\ write_index \in Nat /\ read_index \in Nat
  /\ buffer \in [0 .. Slots - 1 -> [Samples -> Content]]
  /\ stop_flag \in BOOLEAN /\ stopped_at \in Nat
  /\ ppc \in {"idle", "load_r", "drop", "copy", "stopped"}
  /\ pw \in Nat /\ pr \in Nat /\ copied \subseteq Samples
  /\ cpc \in {"idle", "load_w", "claim", "read"} /\ cr \in Nat
  /\ out \in [Samples -> Content \union {Unread}]
  /\ delivered \subseteq Nat

\* Neither of read_index's two writers ever stores a value past write_index,
\* however stale the values it computed it from: the unsigned difference of
\* push_chunk (chunk_buffer.h:68) never wraps, and only published chunks are
\* popped.
IndexOrder ==
  /\ read_index <= write_index
  /\ \A k \in delivered : k < write_index

\* A chunk with index n that is published has not been handed out, is not
\* waiting, and is not just being claimed, only if its slot was needed for a
\* later one: the producer's drop and the races on read_index may hand a chunk
\* out twice but never lose one there was room for (chunk_buffer.h:68-73, 98).
Settled(n) == n \in delivered \/ n + Slots <= write_index
NothingSkipped == \A n \in 0 .. read_index - 1 : Settled(n)

\* The pointer try_pop_chunk returned for index cr (chunk_buffer.h:86): samples
\* read through it while write_index has not reached cr + Slots are those of
\* chunk cr, and a consumer that was lapped only ever sees newer samples, never
\* the initial fill or an older chunk.
LapCheck ==
  cpc = "read" =>
    \A i \in Samples : out[i] # Unread =>
      /\ out[i] >= Chunk(cr)
      /\ write_index < cr + Slots => out[i] = Chunk(cr)

\* The ring is a lossy log of room Slots: whatever the races on read_index do,
\* a chunk is handed out only after every earlier one was handed out or pushed
\* out by the producer (chunk_buffer.h:60-100).
Log == INSTANCE LossyLog
         WITH Room <- Slots, published <- write_index, taken <- delivered
LogSpec == Log!Spec

\* After the stop flag is raised at most the push that had already passed its
\* check is still published (chunk_buffer.h:61, 80).
StopBound == stop_flag => write_index <= stopped_at + 1

\* Every chunk that is published is in the end handed out, or its slot is used
\* again: the consumer's polling reaches it (chunk_buffer.h:87-100).
EveryChunkSettles ==
  \A n \in 0 .. MaxChunks - 1 : (n < write_index) ~> Settled(n)

\* Once stop is requested the producer returns for good and the consumer drains
\* the ring, and it stays drained (chunk_buffer.h:61, 90).
DrainsAfterStop ==
  stop_flag ~> [](ppc = "stopped" /\ read_index = write_index)

-----------------------------------------------------------------------------
(* What a comment of chunk_buffer.h claims of the program.                  *)

\* chunk_buffer.h:86: "The pointer is valid until that slot is overwritten by
\* producer (i.e. until write_index advances enough)": when try_pop_chunk
\* returns, the slot holds the chunk that was popped.
PointerValidOnReturn ==
  [][cpc = "claim" /\ cpc' = "read" =>
       \A i \in Samples : buffer[Slot(cr)][i] = Chunk(cr)]_vars
=============================================================================
