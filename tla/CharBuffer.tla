------------------------------ MODULE CharBuffer ------------------------------
(***************************************************************************)
(* CharBuffer (utils/char_buffer.cc, utils/char_buffer.h): a store of      *)
(* bytes with a read and a write position, as its four owners use it: the  *)
(* read buffer of a user, the buffer of a WriteLoop, and the raw and the   *)
(* decoded buffer of a gateway request.                                    *)
(*                                                                         *)
(* The bytes put into the buffer are numbered 1, 2, ..., so that the next  *)
(* byte to be read should be the one after the bytes read so far.  0 is a  *)
(* byte nobody put there.  A call that throws ends the instance, or leaves *)
(* the buffer as it was, and is no step.                                   *)
(***************************************************************************)
EXTENDS Integers

CONSTANTS
  Size,      \* size_
  Reserve,   \* the 128 of clean()
  MaxBytes   \* bound on the bytes put into the buffer

ASSUME SizeAssumption ==
  /\ Size \in Nat /\ Reserve \in Nat
  /\ Reserve <= Size
  /\ MaxBytes \in Nat

VARIABLES
  owner,      \* whose buffer it is
  store,      \* store_
  readPos,    \* read_pos_
  writePos,   \* write_pos_
  put, taken, \* how many bytes were put and taken so far
  cut,        \* a formatted text did not fit in front of the store's end
  overrun     \* a write passed the store's end

vars == <<owner, store, readPos, writePos, put, taken, cut, overrun>>

-----------------------------------------------------------------------------
Readable == writePos - readPos
Writeable == Size - writePos
Cells == 0 .. Size - 1

Owners == {"read_buffer", "write_loop", "gateway", "out"}

\* The calls each owner makes: User::onRead and HttpParser; Provider and
\* WriteLoop; FastcgiProvider's buffer_ and out_.
Uses(call) ==
  CASE owner = "read_buffer" -> call \in {"recv", "read"}
    [] owner = "write_loop"  -> call \in {"write", "swrite", "read", "move"}
    [] owner = "gateway"     -> call \in {"recv", "write", "read", "move", "clear"}
    [] owner = "out"         -> call \in {"write", "read", "clear"}

Init ==
  /\ owner \in Owners
  /\ store = [i \in Cells |-> 0]
  /\ readPos = 0 /\ writePos = 0
  /\ put = 0 /\ taken = 0
  /\ cut = FALSE /\ overrun = FALSE

-----------------------------------------------------------------------------
\* s with the next n bytes from position p on.
Filled(s, p, n) ==
  [i \in Cells |-> IF p <= i /\ i < p + n THEN put + 1 + (i - p) ELSE s[i]]

\* Slip: the bytes are moved from the start of the store.
MovedFromStart(s) == [i \in Cells |-> s[i]]

\* s with the readable bytes moved to the front: memmove in clean and move.
Moved(s) == [i \in Cells |-> IF i < Readable THEN s[readPos + i] ELSE s[i]]

\* clean() agrees to make room, and afterwards there is room.
CleanFits(n) == n > Writeable /\ n <= Size - Reserve /\ Readable + n <= Size

\* Slip: recv is given all that moving the bytes would free.
RecvAfterMove(n) ==
  /\ Uses("recv") /\ n <= Size - Readable
  /\ store' = Filled(Moved(store), Readable, n)
  /\ readPos' = 0 /\ writePos' = Readable + n
  /\ put' = put + n
  /\ UNCHANGED <<owner, taken, cut, overrun>>

\* TcpSocket::read: recv puts at most writeable() bytes behind the write
\* position, and write(n) moves it.
Recv(n) ==
  /\ Uses("recv") /\ n <= Writeable
  /\ store' = Filled(store, writePos, n)
  /\ writePos' = writePos + n
  /\ put' = put + n
  /\ UNCHANGED <<owner, readPos, taken, cut, overrun>>

\* write(src, n) where there is room behind the write position.
Write(n) ==
  /\ Uses("write") /\ n <= Writeable
  /\ store' = Filled(store, writePos, n)
  /\ writePos' = writePos + n
  /\ put' = put + n
  /\ UNCHANGED <<owner, readPos, taken, cut, overrun>>

\* write(src, n) after clean() made room.
CleanWrite(n) ==
  /\ Uses("write") /\ CleanFits(n)
  /\ store' = Filled(Moved(store), Readable, n)
  /\ readPos' = 0 /\ writePos' = Readable + n
  /\ put' = put + n
  /\ UNCHANGED <<owner, taken, cut, overrun>>

\* clean() agrees although the n bytes do not fit behind the readable ones.
\* What the program does from then on is undefined.
Overrun(n) ==
  /\ Uses("write")
  /\ n > Writeable /\ n <= Size - Reserve /\ Readable + n > Size
  /\ overrun' = TRUE
  /\ UNCHANGED <<owner, store, readPos, writePos, put, taken, cut>>

\* vsnprintf of a text of n bytes into what is writeable: it keeps one byte
\* for its final 0 and drops the text that does not fit.
Formatted(n) ==
  LET kept == IF n < Writeable THEN n ELSE Writeable - 1
  IN  [i \in Cells |->
         IF writePos <= i /\ i < writePos + kept THEN put + 1 + (i - writePos)
         ELSE IF i = writePos + kept /\ Writeable > 0 THEN 0 ELSE store[i]]

\* WriteLoop::swrite: the text is formatted in place and write(n) moves the
\* write position by the length the text should have.
Swrite(n) ==
  /\ Uses("swrite") /\ n <= Writeable
  /\ store' = Formatted(n)
  /\ writePos' = writePos + n
  /\ put' = put + n
  /\ cut' = (cut \/ n = Writeable)
  /\ UNCHANGED <<owner, readPos, taken, overrun>>

\* The same when write(n) has to clean: only the readable bytes are moved, the
\* text in front of the end is left there.
CleanSwrite(n) ==
  /\ Uses("swrite") /\ CleanFits(n)
  /\ store' = Moved(Formatted(n))
  /\ readPos' = 0 /\ writePos' = Readable + n
  /\ put' = put + n
  /\ cut' = TRUE
  /\ UNCHANGED <<owner, taken, overrun>>

\* Slip: more than the readable bytes can be read.
ReadUnchecked(n) ==
  /\ Uses("read") /\ n <= Size - readPos
  /\ readPos' = readPos + n
  /\ taken' = taken + n
  /\ UNCHANGED <<owner, store, writePos, put, cut, overrun>>

\* read(n) and read(dest, n), which throw when n bytes are not readable.
Read(n) ==
  /\ Uses("read") /\ n <= Readable
  /\ readPos' = readPos + n
  /\ taken' = taken + n
  /\ UNCHANGED <<owner, store, writePos, put, cut, overrun>>

Move ==
  /\ Uses("move")
  /\ store' = Moved(store)
  /\ readPos' = 0 /\ writePos' = Readable
  /\ UNCHANGED <<owner, put, taken, cut, overrun>>

\* clear() drops what is readable.
Clear ==
  /\ Uses("clear")
  /\ readPos' = 0 /\ writePos' = 0
  /\ taken' = put
  /\ UNCHANGED <<owner, store, put, cut, overrun>>

Next ==
  /\ ~overrun
  /\ \/ \E n \in 1 .. MaxBytes - put :
          \/ Recv(n) \/ Write(n) \/ CleanWrite(n) \/ Overrun(n)
          \/ Swrite(n) \/ CleanSwrite(n)
     \/ \E n \in 1 .. Size : Read(n)
     \/ Move \/ Clear

Spec == Init /\ [][Next]_vars

-----------------------------------------------------------------------------
\* The positions stay in order and inside the store: no caller reads past
\* what was written, no write that was carried out passed the end.
TypeOK ==
  /\ owner \in Owners
  /\ store \in [Cells -> Nat]
  /\ readPos \in 0 .. writePos /\ writePos \in 0 .. Size
  /\ taken \in Nat /\ put \in Nat
  /\ cut \in BOOLEAN /\ overrun \in BOOLEAN

\* The buffer is a queue: the readable bytes are those put and not yet taken,
\* in order, whatever was moved in between ...
InOrder ==
  /\ put = taken + Readable
  /\ \A i \in 0 .. Readable - 1 : store[readPos + i] = taken + 1 + i

\* ... as long as no formatted text met the end of the store.
InOrderUnlessCut == ~cut => InOrder

\* The fields of a request point into the read buffer (HttpParser keeps
\* pointers, not copies): a byte received there is never moved or overwritten.
ViewsStay ==
  [][owner = "read_buffer" =>
       \A i \in 0 .. writePos - 1 : store'[i] = store[i]]_vars
=============================================================================
