------------------------------ MODULE TcpFeed ------------------------------
(***************************************************************************)
(* TcpMarketDataFeed (src/network/tcp_stream.rs): ticks of a fixed length  *)
(* are cut from a stream with a read timeout.                              *)
(*                                                                         *)
(* The stream is known by how much of it has come in and been taken, in    *)
(* parts of which TickParts make a tick (32 in the code, bytes).  A tick   *)
(* that was read is known by where in the stream it begins; the server     *)
(* sends whole ticks, so what it sent begins at multiples of TickParts.    *)
(* read_tick is read_batch with a max_count of 1: their answers are the    *)
(* same but for the wrapping.                                              *)
(***************************************************************************)
EXTENDS Integers, Sequences

CONSTANTS
  TickParts,   \* length of a tick
  MaxTicks,    \* bound on the ticks the server sends
  MaxCount     \* the largest max_count

ASSUME FeedAssumption == /\ TickParts \in Nat \ {0}
                         /\ MaxTicks \in Nat /\ MaxCount \in Nat \ {0}

VARIABLES
  arrived,     \* parts of the stream that have come in
  closed,      \* whether the connection has ended
  taken,       \* parts that have been taken from the stream
  filled,      \* parts in the buffer of the read_exact under way
  wanted,      \* max_count of the call under way, 0 if there is none
  ticks,       \* the ticks of the call under way
  delivered,   \* history: the ticks that callers got
  lost,        \* history: parts that were in the buffer at a timeout
  failed       \* history: whether a call has returned an error

stream == <<arrived, closed>>
feedVars == <<stream, taken, filled, wanted, ticks, delivered, lost, failed>>

FeedInit ==
  /\ arrived = 0 /\ closed = FALSE
  /\ taken = 0 /\ filled = 0
  /\ wanted = 0 /\ ticks = << >>
  /\ delivered = << >> /\ lost = 0 /\ failed = FALSE

\* TCP hands the stream over in order, in pieces of any length; the
\* connection may break in the middle of a tick.
Arrive(n) ==
  /\ ~closed
  /\ arrived + n <= MaxTicks * TickParts
  /\ arrived' = arrived + n
  /\ UNCHANGED <<closed, taken, filled, wanted, ticks, delivered, lost, failed>>

Close ==
  /\ ~closed
  /\ closed' = TRUE
  /\ UNCHANGED <<arrived, taken, filled, wanted, ticks, delivered, lost, failed>>

-----------------------------------------------------------------------------
\* read_tick (n = 1), read_batch
Read(n) ==
  /\ wanted = 0
  /\ wanted' = n
  /\ UNCHANGED <<stream, taken, filled, ticks, delivered, lost, failed>>

\* The length given to read_exact; and one too short.
FramePartsShort == TickParts - 1
FrameParts == TickParts

\* One read of read_exact: whatever there is, up to what the buffer misses.
Take(n) ==
  /\ wanted > 0
  /\ n <= arrived - taken
  /\ filled + n <= FrameParts
  /\ taken' = taken + n
  /\ filled' = filled + n
  /\ UNCHANGED <<stream, wanted, ticks, delivered, lost, failed>>

Return(result) ==
  /\ wanted' = 0
  /\ ticks' = << >>
  /\ delivered' = delivered \o result

\* Whether the batch is as long as the caller asked for; and one too many.
BatchFullLate(batch) == Len(batch) > wanted
BatchFull(batch) == Len(batch) = wanted

TickRead ==
  /\ wanted > 0
  /\ filled = FrameParts
  /\ LET batch == Append(ticks, taken - FrameParts)
     IN IF BatchFull(batch) THEN Return(batch)
        ELSE ticks' = batch /\ UNCHANGED <<wanted, delivered>>
  /\ filled' = 0
  /\ UNCHANGED <<stream, taken, lost, failed>>

Waiting == wanted > 0 /\ filled < FrameParts /\ arrived = taken

\* WouldBlock and TimedOut end the batch; what read_exact has taken from the
\* stream is overwritten by the next call.
TimeOut ==
  /\ Waiting
  /\ ~closed
  /\ Return(ticks)
  /\ lost' = lost + filled
  /\ filled' = 0
  /\ UNCHANGED <<stream, taken, failed>>

\* Any other error: `?' drops the ticks of the batch.
ReadError ==
  /\ Waiting
  /\ closed
  /\ Return(<< >>)
  /\ failed' = TRUE
  /\ filled' = 0
  /\ UNCHANGED <<stream, taken, lost>>

FeedNext ==
  \/ \E n \in 1..TickParts : Arrive(n) \/ Take(n)
  \/ Close
  \/ \E n \in 1..MaxCount : Read(n)
  \/ TickRead \/ TimeOut \/ ReadError

FeedSpec == FeedInit /\ [][FeedNext]_feedVars

-----------------------------------------------------------------------------
IsTick(start) == start % TickParts = 0

(***************************************************************************)
(* What a timeout in the middle of a tick does: from then on everything    *)
(* read is made of the end of one tick and the beginning of the next,      *)
(* until further timeouts have made up for it; and only then.              *)
(***************************************************************************)
WholeIffNothingLost ==
  [][TickRead => (IsTick(taken - filled) <=> lost % TickParts = 0)]_feedVars

(***************************************************************************)
(* While no timeout hits the middle of a tick, callers get the ticks as    *)
(* they were sent, none missing and none twice; an error costs them less   *)
(* than a batch of what had come in.                                       *)
(***************************************************************************)
OnlyABatchIsLost ==
  lost = 0 =>
    /\ \A i \in 1..Len(delivered) : delivered[i] = (i - 1) * TickParts
    /\ failed => (arrived \div TickParts) - Len(delivered) < MaxCount

(***************************************************************************)
(* "Read next tick from stream": what read_tick returns is a tick that     *)
(* was sent.                                                               *)
(***************************************************************************)
TicksWereSent == \A i \in 1..Len(delivered) : IsTick(delivered[i])
=============================================================================
