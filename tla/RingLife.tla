------------------------------ MODULE RingLife ------------------------------
(***************************************************************************)
(* The life of a ChunkRing around its use: the constructor takes pages and *)
(* locks them in memory with TryVirtualLock (include/platform/             *)
(* VirtualAlloc.h), which tries three times and raises the process's       *)
(* privilege and then its working set in between; the destructor gives     *)
(* everything back.  A step is one call of the operating system, and each  *)
(* of them may fail.                                                       *)
(***************************************************************************)
EXTENDS ChunkRing

VARIABLES
  phase,             \* the call that comes next, or how the life ended
  pages,             \* are the ring's pages reserved?
  locked,            \* are they locked in memory?
  is_buffer_locked,  \* what the ring believes of that
  token              \* is the handle of the process token open?

life     == <<phase, pages, locked, is_buffer_locked, token>>
lifeVars == <<vars, life>>

Ended == {"failed", "destroyed"}

LifeInit ==
  /\ Init
  /\ phase = "alloc" /\ pages = FALSE
  /\ locked = FALSE /\ is_buffer_locked = FALSE /\ token = FALSE

\* VirtualAlloc, or std::bad_alloc.
Allocate ==
  /\ phase = "alloc"
  /\ \/ phase' = "lock" /\ pages' = TRUE
     \/ phase' = "failed" /\ UNCHANGED pages
  /\ UNCHANGED <<vars, locked, is_buffer_locked, token>>

\* The next thing to try when an attempt fails; after the last one TryVirtualLock
\* returns false.
AfterAttempt == [lock |-> "open_token", lock_privileged |-> "get_size",
                 lock_larger |-> "give_back"]
Attempts == DOMAIN AfterAttempt

\* VirtualLock.
Lock ==
  /\ phase \in Attempts
  /\ \/ phase' = "fill" /\ locked' = TRUE /\ is_buffer_locked' = TRUE
     \/ phase' = AfterAttempt[phase] /\ UNCHANGED <<locked, is_buffer_locked>>
  /\ UNCHANGED <<vars, pages, token>>

\* EnableLockMemoryPrivilege: OpenProcessToken ...
OpenToken ==
  /\ phase = "open_token"
  /\ \/ phase' = "look_up" /\ token' = TRUE
     \/ phase' = "get_size" /\ UNCHANGED token
  /\ UNCHANGED <<vars, pages, locked, is_buffer_locked>>

\* ... LookupPrivilegeValue, and CloseHandle if it fails ...
LookUp_KeepsHandle ==
  /\ phase = "look_up"
  /\ phase' \in {"adjust", "get_size"}
  /\ UNCHANGED <<vars, pages, locked, is_buffer_locked, token>>
LookUp ==
  /\ phase = "look_up"
  /\ \/ phase' = "adjust" /\ UNCHANGED token
     \/ phase' = "get_size" /\ token' = FALSE
  /\ UNCHANGED <<vars, pages, locked, is_buffer_locked>>

\* ... AdjustTokenPrivileges, which may also succeed without assigning it.
Adjust ==
  /\ phase = "adjust"
  /\ phase' \in {"lock_privileged", "get_size"} /\ token' = FALSE
  /\ UNCHANGED <<vars, pages, locked, is_buffer_locked>>

\* IncreaseProcessWorkingSet.
GetSize ==
  /\ phase = "get_size"
  /\ phase' \in {"set_size", "give_back"}
  /\ UNCHANGED <<vars, pages, locked, is_buffer_locked, token>>

SetSize ==
  /\ phase = "set_size"
  /\ phase' \in {"lock_larger", "give_back"}
  /\ UNCHANGED <<vars, pages, locked, is_buffer_locked, token>>

\* The constructor frees the pages and throws.
GiveBack ==
  /\ phase = "give_back"
  /\ phase' = "failed" /\ pages' = FALSE
  /\ UNCHANGED <<vars, locked, is_buffer_locked, token>>

\* The pages that were committed are zero, and so are the counters.
Fill ==
  /\ phase = "fill" /\ phase' = "used"
  /\ UNCHANGED <<vars, pages, locked, is_buffer_locked, token>>

\* The two threads, while there is a ring.
Produce == phase = "used" /\ Producer /\ UNCHANGED life
Consume == phase = "used" /\ Consumer /\ UNCHANGED life
AskToStop == phase = "used" /\ RequestStop /\ UNCHANGED life

\* The owner destroys the ring when its producer has returned and its consumer has
\* taken everything and holds no pointer any more.
OwnerIsDone ==
  ppc = "stopped" /\ cpc = "idle" /\ read_index = write_index

\* ~ChunkRing: VirtualUnlock ...
Unlock ==
  /\ phase = "used" /\ OwnerIsDone
  /\ phase' = "free"
  /\ locked' = (locked /\ ~is_buffer_locked)
  /\ UNCHANGED <<vars, pages, is_buffer_locked, token>>

\* ... and VirtualFree.
Free ==
  /\ phase = "free"
  /\ phase' = "destroyed" /\ pages' = FALSE
  /\ UNCHANGED <<vars, locked, is_buffer_locked, token>>

LifeNext ==
  \/ Allocate \/ Lock \/ OpenToken \/ LookUp \/ Adjust \/ GetSize \/ SetSize
  \/ GiveBack \/ Fill
  \/ Produce \/ Consume \/ AskToStop
  \/ Unlock \/ Free

LifeSpec == LifeInit /\ [][LifeNext]_lifeVars

\* As ChunkRing's fairness, for as long as there is a ring.
LifeFairSpec == LifeSpec /\ WF_lifeVars(Produce) /\ WF_lifeVars(Consume)

-----------------------------------------------------------------------------
(* Properties.                                                              *)

\* Whichever of the calls fail: the threads meet only pages that are there and
\* locked, no thread is inside the ring when these are gone, and a life that
\* ended, by an exception of the constructor or by the destructor, leaves neither
\* pages nor a lock nor an open handle (chunk_buffer.h:22-56, VirtualAlloc.h:3-109).
NothingLeftBehind ==
  /\ phase = "used" => pages /\ locked /\ ~token
  /\ phase # "used" => ppc \in {"idle", "stopped"} /\ cpc = "idle"
  /\ phase \in Ended => ~pages /\ ~locked /\ ~token
=============================================================================
