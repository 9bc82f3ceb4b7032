------------------------------- MODULE Framer -------------------------------
(***************************************************************************)
(* The framers of transport.go, one per connection a server reads from.    *)
(* A frame is its length, in bytes without the header.                     *)
(***************************************************************************)
EXTENDS Naturals

CONSTANTS Conn, None

DefaultPayloadLength == 1024
MaxPayloadLength == 4 * 1024 * 1024

VARIABLES
  reading,  \* length in the header ReadFrame has read, None outside ReadFrame
  buffer,   \* len(f.buffer)
  counter
framer == <<reading, buffer, counter>>

FramerInit ==
  /\ reading = [c \in Conn |-> None]
  /\ buffer = [c \in Conn |-> DefaultPayloadLength]
  /\ counter = [c \in Conn |-> 0]

NewFramer(c) ==
  /\ reading' = [reading EXCEPT ![c] = None]
  /\ buffer' = [buffer EXCEPT ![c] = DefaultPayloadLength]
  /\ counter' = [counter EXCEPT ![c] = 0]

\* ReadFrame refuses a frame by its header, or goes on.
TooLarge(n) == n > MaxPayloadLength
Header(c, n) ==
  /\ reading[c] = None /\ ~TooLarge(n)
  /\ reading' = [reading EXCEPT ![c] = n]
  /\ UNCHANGED <<buffer, counter>>

\* The buffer doubles until the frame fits or counter says stop; it is not reset
\* from one frame to the next.
GrowsAnyway(c) == counter[c] <= 13
GrowsTooRarely(c) == buffer[c] < reading[c] /\ counter[c] <= 10
Grows(c) == buffer[c] < reading[c] /\ counter[c] <= 12
Resize(c) ==
  /\ reading[c] # None /\ Grows(c)
  /\ buffer' = [buffer EXCEPT ![c] = @ * 2]
  /\ counter' = [counter EXCEPT ![c] = @ + 1]
  /\ UNCHANGED reading

\* The body is read into the buffer and copied out.
Body(c) ==
  /\ reading[c] # None /\ ~Grows(c)
  /\ reading' = [reading EXCEPT ![c] = None]
  /\ UNCHANGED <<buffer, counter>>
-----------------------------------------------------------------------------
\* Whenever the body of a frame is read, the buffer is long enough for it: the
\* resizes that counter allows in the life of a framer are enough for every
\* frame ReadFrame accepts, in whatever order they come.
FrameFits ==
  \A c \in Conn : reading[c] # None /\ ~Grows(c) => reading[c] <= buffer[c]
=============================================================================
