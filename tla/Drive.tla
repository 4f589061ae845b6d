------------------------------- MODULE Drive -------------------------------
(***************************************************************************)
(* What the floppy emulator expects of its card: an image, an array of     *)
(* blocks of which two make a sector of the floppy.  A request for a       *)
(* sector moves its blocks one after the other between image and buffer    *)
(* and then is answered.  The image comes and goes with the card.          *)
(***************************************************************************)
EXTENDS Naturals, Integers

CONSTANTS
  NSectors,   \* sectors on a side of a track
  NoImage,    \* no image is loaded
  NoRequest,  \* no request is under way
  Block       \* the contents of a block

VARIABLES
  image, request, buffer, answer,
  faulty   \* the card is out, fails, or holds the image with a broken chain

vars == <<image, request, buffer, answer>>

Per == 2
\* The blocks of the image that the request is about, as [0 .. Per - 1 -> Int]:
\* a track is its side 1 and then its side 0, sectors count from 1.
Place(k) == Per * ((2 * request.track + 1 - request.side) * NSectors + request.sector - 1) + k
Whole == IF image = NoImage THEN {} ELSE DOMAIN image

Init == image = NoImage /\ request = NoRequest /\ answer = "NONE" /\ buffer \in [0 .. Per - 1 -> Block]

\* Somebody asks for a sector, with the data if it is to be written.
Ask ==
  /\ request = NoRequest /\ image # NoImage /\ answer = "NONE"
  /\ request' \in [op : {"READ", "WRITE"}, side : 0 .. 1, track : Nat, sector : Nat,
                   done : {0}]
  /\ \/ UNCHANGED buffer
     \/ request'.op = "WRITE" /\ buffer' \in [0 .. Per - 1 -> Block]
  /\ UNCHANGED <<image, answer>>

\* Blocks done .. done + n - 1 are moved.
Moved(n) ==
  LET now == request.done .. request.done + n - 1 IN
  /\ \A k \in now : Place(k) \in Whole
  /\ IF request.op = "READ"
     THEN /\ buffer' = [k \in DOMAIN buffer |-> IF k \in now THEN image[Place(k)] ELSE buffer[k]]
          /\ UNCHANGED image
     ELSE /\ image' = [i \in Whole |-> IF \E k \in now : Place(k) = i
                                       THEN buffer[CHOOSE k \in now : Place(k) = i] ELSE image[i]]
          /\ UNCHANGED buffer
Move(n) ==
  /\ request # NoRequest /\ request.done + n <= Per /\ Moved(n)
  /\ request' = [request EXCEPT !.done = @ + n] /\ UNCHANGED answer

\* All blocks are moved, or the image starts behind this place, or ends
\* before it: the rest of the request is dropped, and that is no error.  What
\* becomes of the rest of the buffer then is not specified.
Over == request # NoRequest /\ \A k \in request.done .. Per - 1 : Place(k) \notin Whole
Scrap ==
  /\ Over /\ \A k \in 0 .. request.done - 1 : buffer'[k] = buffer[k]
  /\ buffer' \in [0 .. Per - 1 -> Block] /\ UNCHANGED <<image, request, answer>>
Ok ==
  /\ Over /\ answer' = "OK" /\ request' = NoRequest /\ UNCHANGED <<image, buffer>>

\* The card fails, and may have got as far as the last block.
Fail ==
  /\ faulty /\ request # NoRequest /\ answer' = "ERROR" /\ request' = NoRequest
  /\ \/ UNCHANGED <<image, buffer>>
     \/ \E n \in 1 .. Per - request.done : Moved(n)

\* The answer is taken, with what the buffer holds.
Take ==
  /\ request = NoRequest /\ answer # "NONE" /\ answer' = "NONE"
  /\ buffer' \in [0 .. Per - 1 -> Block] /\ UNCHANGED request
  /\ image' = IF answer = "ERROR" THEN NoImage ELSE image

\* The image is closed, or another one is loaded.
Change ==
  /\ request = NoRequest /\ image # image' /\ UNCHANGED <<request, buffer, answer>>

Next == Ask \/ (\E n \in 1 .. Per : Move(n)) \/ Scrap \/ Ok \/ Fail \/ Take \/ Change
Spec == Init /\ [][Next]_vars
=============================================================================
