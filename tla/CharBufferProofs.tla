--------------------------- MODULE CharBufferProofs ---------------------------
(***************************************************************************)
(* Theorems about CharBuffer, for stores of every size: the buffer is a    *)
(* queue as long as no formatted text met its end, and views into the read *)
(* buffer stay good.                                                       *)
(***************************************************************************)
EXTENDS CharBuffer, TLAPS

\* The induction: that the bytes are in order needs the positions in order,
\* and no step follows an overrun.
IInv == TypeOK /\ InOrderUnlessCut

USE SizeAssumption

LEMMA InitKeeps == Init => IInv
<1> SUFFICES ASSUME Init PROVE IInv
  OBVIOUS
<1>1. TypeOK
  <2>1. store \in [Cells -> Nat]
    BY DEF Init
  <2>2. 0 \in 0 .. 0 /\ 0 \in 0 .. Size
    BY DEF SizeAssumption
  <2> QED  BY <2>1, <2>2 DEF Init, TypeOK
<1>2. InOrderUnlessCut
  BY DEF Init, InOrderUnlessCut, InOrder, Readable
<1> QED  BY <1>1, <1>2 DEF IInv

\* Filling behind the write position keeps what is readable and adds the next
\* bytes.
LEMMA FilledInOrder ==
  ASSUME TypeOK, InOrder, NEW n \in Nat, n <= Writeable
  PROVE  \A i \in 0 .. writePos + n - readPos - 1 :
           Filled(store, writePos, n)[readPos + i] = taken + 1 + i
BY DEF TypeOK, InOrder, Filled, Readable, Writeable, Cells

LEMMA MovedType ==
  ASSUME TypeOK, NEW s \in [Cells -> Nat]
  PROVE  Moved(s) \in [Cells -> Nat]
BY DEF TypeOK, Moved, Readable, Cells

LEMMA FilledType ==
  ASSUME TypeOK, NEW s \in [Cells -> Nat], NEW p \in Nat, NEW n \in Nat
  PROVE  Filled(s, p, n) \in [Cells -> Nat]
BY DEF TypeOK, Filled, Cells

LEMMA FormattedType ==
  ASSUME TypeOK, NEW n \in Nat
  PROVE  Formatted(n) \in [Cells -> Nat]
BY DEF TypeOK, Formatted, Writeable, Cells

\* Moving keeps the readable bytes in order, at the front.
LEMMA MovedInOrder ==
  ASSUME TypeOK, InOrder
  PROVE  \A i \in 0 .. Readable - 1 : Moved(store)[i] = taken + 1 + i
BY DEF TypeOK, InOrder, Moved, Readable, Cells

\* Bytes added behind the writable end of the store, by recv or by write.
LEMMA AddKeeps ==
  ASSUME NEW n \in Nat, n <= Writeable, IInv,
         store' = Filled(store, writePos, n), writePos' = writePos + n,
         put' = put + n, UNCHANGED <<owner, readPos, taken, cut, overrun>>,
         ~overrun
  PROVE  IInv'
<1>1. TypeOK'
  BY FilledType DEF IInv, TypeOK, Writeable
<1>2. InOrderUnlessCut'
  BY FilledInOrder DEF IInv, TypeOK, InOrderUnlessCut, InOrder, Readable
<1> QED  BY <1>1, <1>2 DEF IInv

LEMMA CleanWriteKeeps ==
  ASSUME NEW n \in Nat, CleanWrite(n), IInv, ~overrun
  PROVE  IInv'
<1>1. TypeOK'
  <2>1. TypeOK /\ Readable \in Nat
    BY DEF IInv, TypeOK, Readable
  <2>2. Moved(store) \in [Cells -> Nat]
    BY <2>1, MovedType DEF TypeOK
  <2>3. store' \in [Cells -> Nat]
    BY <2>1, <2>2, FilledType DEF CleanWrite
  <2> QED  BY <2>1, <2>3 DEF TypeOK, CleanWrite, CleanFits
<1>2. InOrderUnlessCut'
  <2> SUFFICES ASSUME ~cut PROVE InOrder'
    BY DEF InOrderUnlessCut, CleanWrite
  <2>1. InOrder /\ TypeOK
    BY DEF IInv, InOrderUnlessCut
  <2>2. \A i \in 0 .. Readable - 1 : Moved(store)[i] = taken + 1 + i
    BY <2>1, MovedInOrder
  <2>3. \A i \in 0 .. Readable + n - 1 :
          Filled(Moved(store), Readable, n)[i] = taken + 1 + i
    BY <2>1, <2>2 DEF TypeOK, InOrder, Filled, Readable, Cells, CleanWrite, CleanFits
  <2> QED
    BY <2>1, <2>3 DEF TypeOK, InOrder, Readable, CleanWrite
<1> QED  BY <1>1, <1>2 DEF IInv

LEMMA OverrunKeeps ==
  ASSUME NEW n \in Nat, Overrun(n), IInv
  PROVE  IInv'
BY DEF IInv, TypeOK, InOrderUnlessCut, InOrder, Overrun, Readable

LEMMA SwriteKeeps ==
  ASSUME NEW n \in Nat, Swrite(n), IInv, ~overrun
  PROVE  IInv'
<1>1. TypeOK'
  BY FormattedType DEF IInv, TypeOK, Swrite, Writeable
<1>2. InOrderUnlessCut'
  <2> SUFFICES ASSUME ~cut, n # Writeable PROVE InOrder'
    BY DEF InOrderUnlessCut, Swrite
  <2>1. TypeOK /\ InOrder /\ n < Writeable
    BY DEF IInv, InOrderUnlessCut, Swrite, TypeOK, Writeable
  <2>2. \A i \in 0 .. writePos + n - readPos - 1 :
          Formatted(n)[readPos + i] = taken + 1 + i
    BY <2>1 DEF TypeOK, InOrder, Formatted, Readable, Writeable, Cells
  <2> QED  BY <2>1, <2>2 DEF TypeOK, InOrder, Readable, Swrite
<1> QED  BY <1>1, <1>2 DEF IInv

LEMMA CleanSwriteKeeps ==
  ASSUME NEW n \in Nat, CleanSwrite(n), IInv, ~overrun
  PROVE  IInv'
<1>1. TypeOK'
  BY FormattedType, MovedType
  DEF IInv, TypeOK, CleanSwrite, CleanFits, Readable
<1> QED  BY <1>1 DEF IInv, InOrderUnlessCut, CleanSwrite

LEMMA ReadKeeps ==
  ASSUME NEW n \in Nat, Read(n), IInv, ~overrun
  PROVE  IInv'
BY DEF IInv, TypeOK, InOrderUnlessCut, InOrder, Readable, Read

LEMMA MoveKeeps ==
  ASSUME Move, IInv, ~overrun
  PROVE  IInv'
<1>1. TypeOK'
  BY MovedType DEF IInv, TypeOK, Move, Readable
<1>2. InOrderUnlessCut'
  BY MovedInOrder DEF IInv, TypeOK, InOrderUnlessCut, InOrder, Readable, Move
<1> QED  BY <1>1, <1>2 DEF IInv, Move

LEMMA ClearKeeps ==
  ASSUME Clear, IInv, ~overrun
  PROVE  IInv'
BY DEF IInv, TypeOK, InOrderUnlessCut, InOrder, Readable, Clear

LEMMA NextKeeps == IInv /\ [Next]_vars => IInv'
<1> SUFFICES ASSUME IInv, [Next]_vars PROVE IInv'
  OBVIOUS
<1>1. CASE UNCHANGED vars
  BY <1>1 DEF vars, IInv, TypeOK, InOrderUnlessCut, InOrder, Readable
<1>2. CASE Next
  <2>1. ~overrun
    BY <1>2 DEF Next
  <2>2. ASSUME NEW n \in 1 .. MaxBytes - put,
               Recv(n) \/ Write(n)
        PROVE  IInv'
    BY <2>1, <2>2, AddKeeps DEF Recv, Write
  <2>3. ASSUME NEW n \in 1 .. MaxBytes - put,
               CleanWrite(n) \/ Overrun(n) \/ Swrite(n) \/ CleanSwrite(n)
        PROVE  IInv'
    BY <2>1, <2>3, CleanWriteKeeps, OverrunKeeps, SwriteKeeps, CleanSwriteKeeps
  <2>4. ASSUME NEW n \in 1 .. Size, Read(n)
        PROVE  IInv'
    BY <2>1, <2>4, ReadKeeps
  <2> QED
    BY <1>2, <2>1, <2>2, <2>3, <2>4, MoveKeeps, ClearKeeps DEF Next
<1> QED  BY <1>1, <1>2 DEF Next

THEOREM Invariance == Spec => []IInv
BY InitKeeps, NextKeeps, PTL DEF Spec

\* The read and the write position stay in order and inside the store.
THEOREM PositionsInOrder == Spec => []TypeOK
<1>1. IInv => TypeOK
  BY DEF IInv
<1> QED  BY <1>1, Invariance, PTL

\* The buffer is a queue until a formatted text meets the end of the store,
\* however the bytes are moved, for every size.
THEOREM QueueUnlessCut == Spec => []InOrderUnlessCut
<1>1. IInv => InOrderUnlessCut
  BY DEF IInv
<1> QED  BY <1>1, Invariance, PTL

\* What a request's fields point to in the read buffer is never changed.
THEOREM ViewsStayGood == Spec => ViewsStay
<1>1. ASSUME IInv, [Next]_vars, owner = "read_buffer",
             NEW i \in 0 .. writePos - 1
      PROVE  store'[i] = store[i]
  <2>1. CASE UNCHANGED vars
    BY <2>1 DEF vars
  <2>2. CASE Next
    <3>1. ASSUME NEW n \in 1 .. MaxBytes - put, Recv(n)
          PROVE  store'[i] = store[i]
      BY <1>1, <3>1 DEF IInv, TypeOK, Recv, Filled, Cells
    <3>2. ASSUME NEW n \in 1 .. Size, Read(n)
          PROVE  store'[i] = store[i]
      BY <3>2 DEF Read
    <3> QED
      BY <1>1, <2>2, <3>1, <3>2
      DEF Next, Uses, Write, CleanWrite, Overrun, Swrite,
          CleanSwrite, Move, Clear
  <2> QED  BY <1>1, <2>1, <2>2
<1>2. IInv /\ [Next]_vars =>
        [owner = "read_buffer" =>
           \A i \in 0 .. writePos - 1 : store'[i] = store[i]]_vars
  BY <1>1
<1> QED  BY <1>2, Invariance, PTL DEF Spec, ViewsStay
=============================================================================
