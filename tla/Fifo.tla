-------------------------------- MODULE Fifo --------------------------------
(***************************************************************************)
(* What a transmit queue promises: frames leave in the order and with the   *)
(* content they were accepted, none twice, and none is lost once accepted   *)
(* except when the queue is closed.  A frame that is refused leaves no      *)
(* trace.  UartLink.tla implements it with a byte arena and a slot table.   *)
(***************************************************************************)
EXTENDS Sequences

CONSTANT Frames                  \* what may be queued

VARIABLES
  open,                          \* the queue takes frames
  waiting,                       \* the frames accepted and not yet sent
  wire                           \* the last frame taken off, or <<>>

vars == <<open, waiting, wire>>

Init == open = FALSE /\ waiting = <<>> /\ wire = <<>>

Open  == ~open /\ open' = TRUE /\ waiting' = <<>> /\ UNCHANGED wire
Close == open' = FALSE /\ waiting' = <<>> /\ UNCHANGED wire

Accept(f) == open /\ waiting' = Append(waiting, f) /\ UNCHANGED <<open, wire>>

Send == /\ waiting # <<>>
        /\ wire' = Head(waiting)
        /\ waiting' = Tail(waiting)
        /\ UNCHANGED open

Next == Open \/ Close \/ Send \/ \E f \in Frames: Accept(f)

Spec == Init /\ [][Next]_vars
=============================================================================
