--------------------------- MODULE MCBlockingBuffer ---------------------------
(* BlockingBuffer with the callers a connection really has.                 *)
EXTENDS BlockingBuffer, TLC

CONSTANTS reader, writer, closer

\* The consuming and the producing side of a buffer, each with its operations.
\* Of a recv_buffer the reader is the application (recv, close) and the writer
\* the daemon; of a send_buffer the reader is the daemon (peek, discard).
BothOps == reader :> {"read", "try_read", "peek", "discard", "force_wake_up_"}
           @@ writer :> {"write", "available_capacity", "size"}

\* A reader about to sleep and a close.
CloseOps == reader :> {"read"} @@ closer :> {"force_wake_up_"}
=============================================================================
