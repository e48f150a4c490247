------------------------------ MODULE ByteStream ------------------------------
(***************************************************************************)
(* What one direction of an established connection promises its two         *)
(* applications: bytes come out as they went in, each once and in order;     *)
(* the sender keeps a byte until the receiver has it; neither end stores     *)
(* more than its buffer.  Byte k of the stream is the number k.             *)
(*                                                                          *)
(* `sound' is the condition under which the promise is made: once it is     *)
(* gone nothing is promised.                                                *)
(***************************************************************************)
EXTENDS Integers, Sequences

CONSTANT BufSize     \* the capacity of a buffer

VARIABLES
    accepted,        \* bytes taken from the sending application
    forgotten,       \* of those, the ones the sender no longer keeps
    stream,          \* the bytes that have reached the receiving end
    taken,           \* of those, the ones the receiving application has read
    sound

vars == <<accepted, forgotten, stream, taken, sound>>

Init == accepted = 0 /\ forgotten = 0 /\ stream = <<>> /\ taken = 0 /\ sound = TRUE

Accept == /\ accepted' \in accepted .. forgotten + BufSize
          /\ UNCHANGED <<forgotten, stream, taken>>

Forget == /\ forgotten' \in forgotten .. Len(stream)
          /\ UNCHANGED <<accepted, stream, taken>>

\* The next bytes of the stream arrive, as many as there is room for.
Arrive == /\ \E n \in 1 .. accepted - Len(stream) :
               /\ Len(stream) + n <= taken + BufSize
               /\ stream' = stream \o [i \in 1..n |-> Len(stream) + i]
          /\ UNCHANGED <<accepted, forgotten, taken>>

Take == /\ taken' \in taken .. Len(stream)
        /\ UNCHANGED <<accepted, forgotten, stream>>

Next == \/ sound /\ sound' /\ (Accept \/ Forget \/ Arrive \/ Take)
        \/ ~ sound'

Spec == Init /\ [][Next]_vars
=============================================================================
