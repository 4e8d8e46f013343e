---------------------------- MODULE ChunkStream -----------------------------
(***************************************************************************)
(* What a FIFO buffer gives to the tasks of a kernel, with no events, no   *)
(* cells and no threads of the host in it: in each round all tasks take    *)
(* one and the same chunk, a newer one than in the round before, and the   *)
(* next chunk is announced only when no round is half taken.  Chunks may   *)
(* be skipped, as the code skips them; none is torn, doubled or late.      *)
(* MangoFifo implements this specification if the host waits for the       *)
(* kernel before it waits for the FIFO.                                    *)
(***************************************************************************)
EXTENDS Naturals, Sequences

CONSTANT Tasks   \* the tasks of the group

VARIABLES
  chunk,   \* the number of the chunk announced last
  taken    \* taken[t]: the chunks task t has taken, in order

streamVars == <<chunk, taken>>

StreamInit == chunk = 0 /\ taken = [t \in Tasks |-> <<>>]

Announce ==
  /\ \A t, u \in Tasks : Len(taken[t]) = Len(taken[u])
  /\ chunk' = chunk + 1
  /\ UNCHANGED taken

Take(t) ==
  /\ \A u \in Tasks : Len(taken[t]) <= Len(taken[u])
  /\ \A k \in DOMAIN taken[t] : taken[t][k] < chunk
  /\ taken' = [taken EXCEPT ![t] = Append(@, chunk)]
  /\ UNCHANGED chunk

StreamNext == Announce \/ \E t \in Tasks : Take(t)

StreamSpec == StreamInit /\ [][StreamNext]_streamVars
=============================================================================
