------------------------------- MODULE Queue --------------------------------
(***************************************************************************)
(* What a queue of bytes promises: bytes come out once, in the order they  *)
(* went in, at most Capacity of them wait, and a byte may go in in the     *)
(* same step in which another comes out.                                   *)
(***************************************************************************)
EXTENDS Integers, Sequences

CONSTANTS Data, None, Capacity

VARIABLES items,  \* the bytes that wait, oldest first
          taken   \* the byte that came out last

Init == items = <<>> /\ taken = None

Put(d) ==
  /\ Len(items) < Capacity
  /\ items' = Append(items, d)
  /\ UNCHANGED taken

Get ==
  /\ items # <<>>
  /\ taken' = Head(items)
  /\ items' = Tail(items)

\* The one that comes out was in before.
Pass(d) ==
  /\ items # <<>>
  /\ taken' = Head(items)
  /\ items' = Append(Tail(items), d)

Next == Get \/ \E d \in Data : Put(d) \/ Pass(d)

Spec == Init /\ [][Next]_<<items, taken>>
=============================================================================
