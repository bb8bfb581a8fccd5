--------------------------- MODULE CompletionQueue ---------------------------
(***************************************************************************)
(* What an I/O completion port promises its users, with no ring, mutex or  *)
(* condition variable: a bounded FIFO queue per port.  A receive takes the *)
(* oldest entries it has room for, and comes back empty only when the port *)
(* is empty.  Entries are lost only if two callers created ports at the    *)
(* same time (raced): a port may then be emptied by being opened twice.    *)
(***************************************************************************)
EXTENDS Integers, Sequences

CONSTANTS Ports, Cap, Entry, MaxBatch

VARIABLES
  queue,   \* entries of each port, oldest first
  open,    \* the ports that exist
  got,     \* what the last receive returned
  raced    \* two creates overlapped at some time

Init ==
  /\ queue = [p \in Ports |-> <<>>]
  /\ open = {}
  /\ got = <<>>
  /\ raced = FALSE

Open(p) ==
  /\ p \notin open \/ raced
  /\ open' = open \union {p}
  /\ queue' = [queue EXCEPT ![p] = <<>>]
  /\ UNCHANGED <<got, raced>>

Race ==
  /\ raced' = TRUE
  /\ UNCHANGED <<queue, open, got>>

Post(p, e) ==
  /\ p \in open /\ Len(queue[p]) < Cap
  /\ queue' = [queue EXCEPT ![p] = Append(@, e)]
  /\ UNCHANGED <<open, got, raced>>

Receive(p, n) ==
  LET k == IF n < Len(queue[p]) THEN n ELSE Len(queue[p]) IN
  /\ p \in open
  /\ got' = SubSeq(queue[p], 1, k)
  /\ queue' = [queue EXCEPT ![p] = SubSeq(@, k + 1, Len(@))]
  /\ UNCHANGED <<open, raced>>

Next ==
  \/ Race
  \/ \E p \in Ports : Open(p)
  \/ \E p \in Ports, e \in Entry : Post(p, e)
  \/ \E p \in Ports, n \in 1 .. MaxBatch : Receive(p, n)

Spec == Init /\ [][Next]_<<queue, open, got, raced>>
=============================================================================
