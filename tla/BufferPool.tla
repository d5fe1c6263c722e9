----------------------------- MODULE BufferPool -----------------------------
(***************************************************************************)
(* The buffer pool (buffer_pool.rs): a stash of free buffers for each size *)
(* class.  A lease takes one, or makes one when there is none; whoever     *)
(* holds it last gives it back to the stash of the class it was taken      *)
(* from, whatever length it was frozen to.  The bytes are left out.        *)
(***************************************************************************)
EXTENDS Integers, FiniteSets

CONSTANTS
  Hints,  \* the sizes that are asked for
  Stash   \* BUFFERS_PER_SIZE

ASSUME PoolAssumption == Hints \subseteq Nat /\ IsFiniteSet(Hints) /\ Stash \in Nat

VARIABLE free  \* POOLS: the number of free buffers of each size class

MaxBufferSize == 65536
BufferSizes == {64, 128, 256, 512, 1024, 2048, 4096, 8192, 16384, 32768, MaxBufferSize}

\* size_class_for: the least size that has room for len bytes, or the greatest there is.
SizeClass(len) ==
  LET room == {s \in BufferSizes : s >= len}
  IN IF room = {} THEN MaxBufferSize ELSE CHOOSE s \in room : \A t \in room : s <= t

\* The classes that the hints lead to.
Class == {SizeClass(h) : h \in Hints}

PoolInit == free = [c \in Class |-> Stash]

\* acquire_vec, called by lease: pop, or a new buffer.
Acquire(c) == free' = [free EXCEPT ![c] = IF @ > 0 THEN @ - 1 ELSE 0]

\* Mutant: the buffer is given to the class of the bytes it holds.
BugRelease(c) == free' = [free EXCEPT ![CHOOSE d \in Class : \A e \in Class : d <= e] = @ + 1]

\* release_vec, called when the lease or the last handle is dropped.
Release(c) == free' = [free EXCEPT ![c] = @ + 1]

=============================================================================
