--------------------------- MODULE UnboundedChan ---------------------------
(***************************************************************************)
(* The channel between ch.Writer.Write and the writer's process loop: a    *)
(* chanx.UnboundedChan (github.com/smallnest/chanx, an external library).  *)
(* It is two bounded Go channels, In and Out, and a goroutine, the pump,   *)
(* that moves rows from In to Out and parks them in an unbounded ring      *)
(* buffer when Out is full.  Closing In makes the pump empty the ring      *)
(* buffer into Out and then close Out.                                     *)
(*                                                                         *)
(* Modelled from the way src/ch/writer.go creates and uses it (line 53:    *)
(* both capacities are FlushSize).                                         *)
(***************************************************************************)
EXTENDS Naturals, Sequences

CONSTANTS
    Rows,       \* the row occurrences handed to Write
    ChanCap     \* capacity of In and of Out

ASSUME ChanCapAssumption == ChanCap \in Nat \ {0}

VARIABLES
    chIn,       \* contents of the Go channel In
    chBuf,      \* contents of the pump's ring buffer
    chOut,      \* contents of the Go channel Out
    inClosed,   \* close(In) was called
    outClosed   \* the pump closed Out

chanVars == <<chIn, chBuf, chOut, inClosed, outClosed>>

ChanTypeOK ==
    /\ chIn \in Seq(Rows)
    /\ chBuf \in Seq(Rows)
    /\ chOut \in Seq(Rows)
    /\ inClosed \in BOOLEAN
    /\ outClosed \in BOOLEAN

ChanInit ==
    /\ chIn = <<>>
    /\ chBuf = <<>>
    /\ chOut = <<>>
    /\ inClosed = FALSE
    /\ outClosed = FALSE

\* Every row the channel holds, oldest first.
InChannel == chOut \o chBuf \o chIn

----------------------------------------------------------------------------
\* A row received from In may go straight to Out: nothing is parked and Out has
\* room.  DirectAhead forgets the parked rows, which the new one overtakes.
DirectAhead == Len(chOut) < ChanCap
Direct == chBuf = <<>> /\ Len(chOut) < ChanCap

\* The pump receives a row from In: to Out if it can, else to the ring buffer.
PumpReceive ==
    /\ chIn # <<>>
    /\ chIn' = Tail(chIn)
    /\ IF Direct
       THEN chOut' = Append(chOut, Head(chIn)) /\ UNCHANGED chBuf
       ELSE chBuf' = Append(chBuf, Head(chIn)) /\ UNCHANGED chOut
    /\ UNCHANGED <<inClosed, outClosed>>

\* The pump sends its oldest parked row to Out.
PumpSend ==
    /\ chBuf # <<>>
    /\ Len(chOut) < ChanCap
    /\ chOut' = Append(chOut, Head(chBuf))
    /\ chBuf' = Tail(chBuf)
    /\ UNCHANGED <<chIn, inClosed, outClosed>>

\* In is closed and empty and nothing is parked: the pump closes Out and ends.
PumpClose ==
    /\ inClosed
    /\ ~outClosed
    /\ chIn = <<>>
    /\ chBuf = <<>>
    /\ outClosed' = TRUE
    /\ UNCHANGED <<chIn, chBuf, chOut, inClosed>>

Pump == PumpReceive \/ PumpSend \/ PumpClose
=============================================================================
