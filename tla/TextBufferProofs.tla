-------------------------- MODULE TextBufferProofs --------------------------
(* Proofs about TextBuffer, for any threads, files and size of the buffer.  *)
EXTENDS TextBuffer, TLAPS

Calls == [file : File, op : {"none", "read", "write"}, from : {"f_pos", "user"},
          pos : Nat, todo : Int, copied : Nat]

Types ==
  /\ opened \subseteq File
  /\ f_pos \in [File -> Nat]
  /\ zeros \in [File \cup {Shared} -> SUBSET Place]
  /\ pc \in [Thread -> {"idle", "lock", "store"} \cup Inside]
  /\ call \in [Thread -> Calls]
  /\ strays \in [Thread -> BOOLEAN]
  /\ unended \in BOOLEAN
  /\ cleared \in BOOLEAN

(* A call's file is open, and it has copied nothing before it copies.       *)
CallsAreOpen ==
  \A t \in Thread :
    /\ pc[t] # "idle" => call[t].file \in opened
    /\ pc[t] \in {"lock", "measure"} => call[t].copied = 0
    /\ pc[t] = "copy" => /\ call[t].copied = 0 \/ call[t].copied <= call[t].todo
                         /\ call[t].op # "none"

(* All a write will touch lies in the buffer. *)
WriteSpan ==
  \A t \in Thread :
    pc[t] = "copy" /\ call[t].op = "write" => Offset(t) + call[t].todo <= Size

(* All a read will return is text.                                          *)
ReadSpan ==
  ~unended /\ ~cleared =>
    \A t \in Thread : pc[t] = "copy" /\ call[t].op = "read" =>
      \A i \in Int : Offset(t) <= i /\ i < Offset(t) + call[t].todo
        => i \in Place \ zeros[Buf(t)]

IInv == Types /\ MutexMeansInside /\ CallsAreOpen /\ WriteSpan /\ ReadSpan /\ ReadsAreText

LEMMA NoCallType == NoCall \in Calls
<1>1. (CHOOSE f \in File : TRUE) \in File
  BY FileAssumption
<1> QED BY <1>1, SMT DEF NoCall, Calls

LEMMA InitInv == Init => IInv
<1> SUFFICES ASSUME Init PROVE IInv
  OBVIOUS
<1>1. Types
  <2>1. /\ call \in [Thread -> Calls]
        /\ pc \in [Thread -> {"idle", "lock", "store"} \cup Inside]
    BY NoCallType, SMT DEF Init
  <2>2. strays \in [Thread -> BOOLEAN]
    BY Zenon DEF Init
  <2>3. f_pos \in [File -> Nat]
    BY SMT DEF Init
  <2>4. /\ opened \subseteq File
        /\ zeros \in [File \cup {Shared} -> SUBSET Place]
        /\ unended \in BOOLEAN
        /\ cleared \in BOOLEAN
    BY Zenon DEF Init
  <2> QED BY <2>1, <2>2, <2>3, <2>4 DEF Types
<1>2. MutexMeansInside
  BY NoneAssumption, SMT DEF Init, MutexMeansInside, Inside
<1>3. CallsAreOpen /\ WriteSpan /\ ReadSpan
  BY SMT DEF Init, CallsAreOpen, WriteSpan, ReadSpan
<1>4. ReadsAreText
  BY DEF Init, ReadsAreText
<1> QED BY <1>1, <1>2, <1>3, <1>4 DEF IInv
-----------------------------------------------------------------------------
(* Opening and closing touch no buffer a call works on. *)
LEMMA OpenInv == ASSUME IInv, NEW f \in File, Open(f) PROVE IInv'
<1> USE DEF IInv
<1>1. Types'
  BY SMT DEF Types, Open, ghosts, Place
<1>2. MutexMeansInside'
  BY DEF MutexMeansInside, Open
<1>3. CallsAreOpen'
  BY SMT DEF CallsAreOpen, Open, Types
<1>4. WriteSpan'
  BY DEF WriteSpan, Open, Offset, OneBuffer
<1>5. ReadSpan'
  <2>1. ASSUME NEW t \in Thread, pc[t] # "idle" PROVE zeros'[Buf(t)] = zeros[Buf(t)]
    <3>1. call[t].file \in File /\ call[t].file # f
      BY <2>1, SMT DEF CallsAreOpen, Open, Types, Calls
    <3> QED BY <3>1, NoneAssumption, SMT DEF Open, Types, Buf, Buffer, OneBuffer
  <2>2. \A t \in Thread : Buf(t)' = Buf(t) /\ Offset(t)' = Offset(t)
    BY DEF Open, Buf, Buffer, OneBuffer, Offset
  <2> QED BY <2>1, <2>2, Zenon DEF ReadSpan, Open, ghosts
<1>6. ReadsAreText'
  BY DEF ReadsAreText, Open, ghosts
<1> QED BY <1>1, <1>2, <1>3, <1>4, <1>5, <1>6

LEMMA ReleaseInv == ASSUME IInv, NEW f \in File, Release(f) PROVE IInv'
<1> USE DEF IInv
<1>1. Types'
  BY SMT DEF Types, Release, ghosts, Place
<1>2. CallsAreOpen'
  BY SMT DEF CallsAreOpen, Release, Types
<1>3. MutexMeansInside' /\ WriteSpan'
  BY DEF MutexMeansInside, Release, WriteSpan, Offset, OneBuffer
<1>4. ReadSpan'
  BY DEF ReadSpan, Release, Buf, Buffer, OneBuffer, Offset, ghosts
<1>5. ReadsAreText'
  BY DEF ReadsAreText, Release, ghosts
<1> QED BY <1>1, <1>2, <1>3, <1>4, <1>5

LEMMA CallInv == ASSUME IInv, NEW t \in Thread, Call(t) PROVE IInv'
<1> USE DEF IInv
<1>1. Types'
  <2>1. pc' \in [Thread -> {"idle", "lock", "store"} \cup Inside]
    BY SMT DEF Types, Call, Goto
  <2>2. call' \in [Thread -> Calls]
    <3>1. PICK f \in opened, o \in {"read", "write"}, w \in {"f_pos", "user"} :
            \E p \in IF w = "f_pos" THEN {f_pos[f]} ELSE Named :
              call' = [call EXCEPT ![t] = [file |-> f, op |-> o, from |-> w, pos |-> p,
                                           todo |-> 0, copied |-> 0]]
      BY DEF Call
    <3>2. PICK p \in IF w = "f_pos" THEN {f_pos[f]} ELSE Named :
            call' = [call EXCEPT ![t] = [file |-> f, op |-> o, from |-> w, pos |-> p,
                                         todo |-> 0, copied |-> 0]]
      BY <3>1
    <3>3. p \in Nat
      BY SizeAssumption, SMT DEF Types, Named
    <3> QED BY <3>2, <3>3, SMT DEF Types, Calls
  <2> QED BY <2>1, <2>2, Zenon DEF Types, Call, state, ghosts, Place
<1>2. MutexMeansInside'
  BY SMT DEF MutexMeansInside, Types, Call, Goto, Inside
<1>3. CallsAreOpen'
  BY SMT DEF CallsAreOpen, Types, Call, Calls, Goto, state
<1>4. ASSUME NEW u \in Thread, pc'[u] = "copy" PROVE pc[u] = "copy" /\ call'[u] = call[u]
  BY <1>4, SMT DEF Types, Call, Goto
<1>5. WriteSpan'
  BY <1>4, SMT DEF WriteSpan, Call, Offset, OneBuffer
<1>6. ReadSpan'
  BY <1>4, Zenon DEF ReadSpan, Call, Offset, OneBuffer, Buf, Buffer, state, ghosts
<1>7. ReadsAreText'
  BY DEF ReadsAreText, Call, ghosts
<1> QED BY <1>1, <1>2, <1>3, <1>5, <1>6, <1>7
-----------------------------------------------------------------------------
(* Taking the mutex and giving up on it. *)
LEMMA LockInv == ASSUME IInv, NEW t \in Thread, Lock(t) PROVE IInv'
<1> USE DEF IInv
<1>1. Types'
  BY SMT DEF Types, Lock, state, ghosts, Goto, Place, Inside
<1>2. MutexMeansInside'
  BY NoneAssumption, SMT DEF MutexMeansInside, Types, Lock, Goto, Inside
<1>3. CallsAreOpen'
  BY SMT DEF CallsAreOpen, Types, Lock, Goto, state
<1>4. ASSUME NEW u \in Thread, pc'[u] = "copy" PROVE pc[u] = "copy"
  BY <1>4, SMT DEF Types, Lock, Goto
<1>5. WriteSpan'
  BY <1>4, SMT DEF WriteSpan, Lock, Offset, OneBuffer
<1>6. ReadSpan'
  BY <1>4, Zenon DEF ReadSpan, Lock, Offset, OneBuffer, Buf, Buffer, state, ghosts
<1>7. ReadsAreText'
  BY DEF ReadsAreText, Lock, ghosts
<1> QED BY <1>1, <1>2, <1>3, <1>5, <1>6, <1>7

(* A call that returns takes its own part of every conjunct with it.        *)
LEMMA ReturnTypes ==
  ASSUME Types, NEW t \in Thread, Return(t)
  PROVE  /\ pc' \in [Thread -> {"idle", "lock", "store"} \cup Inside]
         /\ call' \in [Thread -> Calls]
         /\ strays' \in [Thread -> BOOLEAN]
         /\ pc'[t] = "idle"
         /\ ~strays'[t]
         /\ \A u \in Thread \ {t} :
              pc'[u] = pc[u] /\ call'[u] = call[u] /\ strays'[u] = strays[u]
<1>1. pc' \in [Thread -> {"idle", "lock", "store"} \cup Inside] /\ pc'[t] = "idle"
  BY SMT DEF Types, Return, Goto
<1>2. call' \in [Thread -> Calls]
  BY NoCallType, SMT DEF Types, Return
<1>3. strays' \in [Thread -> BOOLEAN] /\ ~strays'[t]
  BY Zenon DEF Types, Return
<1>4. \A u \in Thread \ {t} :
        pc'[u] = pc[u] /\ call'[u] = call[u] /\ strays'[u] = strays[u]
  BY Zenon DEF Types, Return, Goto
<1> QED BY <1>1, <1>2, <1>3, <1>4

LEMMA ReturnInv ==
  ASSUME IInv, NEW t \in Thread, Return(t),
         UNCHANGED <<driver, opened, zeros, unended, cleared>>
  PROVE  CallsAreOpen' /\ WriteSpan' /\ ReadSpan' /\ ReadsAreText'
<1> USE ReturnTypes DEF IInv
<1>1. CallsAreOpen'
  BY SMT DEF CallsAreOpen
<1>2. WriteSpan'
  BY SMT DEF WriteSpan, Offset, OneBuffer
<1>3. ASSUME NEW u \in Thread, pc'[u] = "copy"
      PROVE  pc[u] = "copy" /\ call'[u] = call[u]
  BY <1>3, SMT
<1>4. ReadSpan'
  BY <1>3, Zenon DEF ReadSpan, Offset, OneBuffer, Buf, Buffer
<1>5. ReadsAreText'
  BY Zenon DEF ReadsAreText
<1> QED BY <1>1, <1>2, <1>4, <1>5

LEMMA InterruptedInv == ASSUME IInv, NEW t \in Thread, Interrupted(t) PROVE IInv'
<1> USE DEF IInv
<1>1. Return(t) /\ UNCHANGED <<driver, opened, f_pos, zeros, dev_mutex, unended, cleared>>
  BY DEF Interrupted, state
<1>2. Types'
  BY <1>1, ReturnTypes DEF Types, Place
<1>3. MutexMeansInside'
  BY <1>1, ReturnTypes, SMT DEF MutexMeansInside, Interrupted, Inside
<1> QED BY <1>1, <1>2, <1>3, ReturnInv

LEMMA RefuseInv == ASSUME IInv, NEW t \in Thread, Refuse(t) PROVE IInv'
<1> USE DEF IInv
<1>1. Return(t) /\ UNCHANGED <<driver, opened, f_pos, zeros, unended, cleared>>
  BY DEF Refuse, state
<1>2. Types'
  BY <1>1, ReturnTypes DEF Types, Place
<1>3. MutexMeansInside'
  BY <1>1, ReturnTypes, NoneAssumption, SMT DEF MutexMeansInside, Refuse, RefusalUnlocks, Inside
<1> QED BY <1>1, <1>2, <1>3, ReturnInv

LEMMA UnlockInv == ASSUME IInv, NEW t \in Thread, Unlock(t) PROVE IInv'
<1> USE DEF IInv
<1>0. /\ UNCHANGED <<driver, opened, f_pos, zeros, unended, cleared>>
      /\ dev_mutex' = None /\ pc[t] = "unlock"
  BY DEF Unlock, state
<1>1. CASE Return(t)
  <2>1. Types'
    BY <1>0, <1>1, ReturnTypes DEF Types, Place
  <2>2. MutexMeansInside'
    BY <1>0, <1>1, ReturnTypes, NoneAssumption, SMT DEF MutexMeansInside, Inside
  <2> QED BY <1>0, <1>1, <2>1, <2>2, ReturnInv
<1>2. CASE Goto(t, "store") /\ UNCHANGED <<call, strays>>
  <2>1. Types'
    BY <1>0, <1>2, SMT DEF Types, Goto, Place, Inside
  <2>2. MutexMeansInside'
    BY <1>0, <1>2, NoneAssumption, SMT DEF MutexMeansInside, Types, Goto, Inside
  <2>3. CallsAreOpen'
    BY <1>0, <1>2, SMT DEF CallsAreOpen, Types, Goto
  <2>4. ASSUME NEW u \in Thread, pc'[u] = "copy" PROVE pc[u] = "copy"
    BY <1>2, <2>4, SMT DEF Types, Goto
  <2>5. WriteSpan' /\ ReadSpan'
    BY <1>0, <1>2, <2>4, Zenon DEF WriteSpan, ReadSpan, Offset, OneBuffer, Buf, Buffer
  <2>6. ReadsAreText'
    BY <1>0, <1>2 DEF ReadsAreText
  <2> QED BY <2>1, <2>2, <2>3, <2>5, <2>6
<1> QED BY <1>1, <1>2 DEF Unlock

LEMMA StoreInv == ASSUME IInv, NEW t \in Thread, Store(t) PROVE IInv'
<1> USE DEF IInv
<1>1. Return(t) /\ UNCHANGED <<driver, opened, zeros, dev_mutex, unended, cleared>>
  BY DEF Store
<1>2. f_pos' \in [File -> Nat]
  <2>1. OffsetOfCall(t) \in Nat
    BY SMT DEF OffsetOfCall, Types, Calls
  <2> QED BY <2>1, Zenon DEF Store, Types
<1>3. Types'
  BY <1>1, <1>2, ReturnTypes DEF Types, Place
<1>4. MutexMeansInside'
  BY <1>1, ReturnTypes, SMT DEF MutexMeansInside, Store, Inside
<1> QED BY <1>1, <1>3, <1>4, ReturnInv

LEMMA ClearInv == ASSUME IInv, NEW t \in Thread, Clear(t) PROVE IInv'
<1> USE DEF IInv
<1>1. Types'
  BY SMT DEF Types, Clear, AllPlaces
<1>2. MutexMeansInside' /\ CallsAreOpen' /\ WriteSpan'
  BY DEF MutexMeansInside, Clear, CallsAreOpen, WriteSpan, Offset, OneBuffer
<1>3. ReadSpan' /\ ReadsAreText'
  BY DEF ReadSpan, ReadsAreText, Clear
<1> QED BY <1>1, <1>2, <1>3
-----------------------------------------------------------------------------
(* Of the buffer sizes only these facts matter below. *)
LEMMA OffsetType == ASSUME Types, NEW t \in Thread PROVE Offset(t) \in Nat
BY SMT DEF Types, Calls, Offset

LEMMA BufType == ASSUME Types, NEW t \in Thread PROVE Buf(t) \in File \cup {Shared}
BY SMT DEF Types, Calls, Buf, Buffer

(* All places before strlen hold text, if the buffer has a zero at all.     *)
LEMMA StrLenIsText ==
  ASSUME NEW b, zeros[b] \in SUBSET Place, zeros[b] # {}, NEW len \in StrLen(b)
  PROVE  /\ len \in Place
         /\ \A i \in Int : 0 <= i /\ i < len => i \in Place \ zeros[b]
BY SizeAssumption, SMT DEF StrLen, Place

LEMMA StrLenType ==
  ASSUME NEW b, zeros[b] \in SUBSET Place, NEW len \in StrLen(b) PROVE len \in Nat
BY SizeAssumption, SMT DEF StrLen, Place

(* What a measurement changes.                                              *)
LEMMA MeasureRest ==
  ASSUME Types, NEW t \in Thread, NEW n \in Int,
         call' = [call EXCEPT ![t].todo = n], Goto(t, "copy")
  PROVE  /\ call' \in [Thread -> Calls]
         /\ pc' \in [Thread -> {"idle", "lock", "store"} \cup Inside]
         /\ pc'[t] = "copy"
         /\ call'[t].todo = n
         /\ call'[t].file = call[t].file /\ call'[t].op = call[t].op
         /\ call'[t].pos = call[t].pos /\ call'[t].copied = call[t].copied
         /\ \A u \in Thread \ {t} : pc'[u] = pc[u] /\ call'[u] = call[u]
<1>1. call' \in [Thread -> Calls]
  BY SMT DEF Types, Calls
<1>2. pc' \in [Thread -> {"idle", "lock", "store"} \cup Inside] /\ pc'[t] = "copy"
  BY SMT DEF Types, Goto, Inside
<1>3. /\ call'[t].todo = n
      /\ call'[t].file = call[t].file /\ call'[t].op = call[t].op
      /\ call'[t].pos = call[t].pos /\ call'[t].copied = call[t].copied
  BY SMT DEF Types, Calls
<1>4. \A u \in Thread \ {t} : pc'[u] = pc[u] /\ call'[u] = call[u]
  BY SMT DEF Types, Goto
<1> QED BY <1>1, <1>2, <1>3, <1>4

LEMMA MeasureReadInv == ASSUME IInv, NEW t \in Thread, MeasureRead(t) PROVE IInv'
<1> USE DEF IInv
<1>1. PICK count \in 0 .. MaxCount, len \in StrLen(Buf(t)) :
        call' = [call EXCEPT ![t].todo = ReadLength(t, count, len)]
  BY DEF MeasureRead
<1>2. zeros[Buf(t)] \in SUBSET Place
  BY BufType DEF Types
<1>3. len \in Nat /\ count \in Nat /\ Offset(t) \in Nat
  BY <1>2, StrLenType, OffsetType, SizeAssumption
<1> DEFINE n == ReadLength(t, count, len)
<1>4. n \in Int /\ Offset(t) + n <= len
  BY <1>3, SMT DEF ReadLength
<1> HIDE DEF n
<1>5. Goto(t, "copy") /\ call' = [call EXCEPT ![t].todo = n]
  BY <1>1 DEF MeasureRead, n
<1>6. /\ call' \in [Thread -> Calls]
      /\ pc' \in [Thread -> {"idle", "lock", "store"} \cup Inside]
      /\ pc'[t] = "copy"
      /\ call'[t].todo = n
      /\ call'[t].file = call[t].file /\ call'[t].op = call[t].op
      /\ call'[t].pos = call[t].pos /\ call'[t].copied = call[t].copied
      /\ \A u \in Thread \ {t} : pc'[u] = pc[u] /\ call'[u] = call[u]
  BY <1>4, <1>5, MeasureRest
<1>7. /\ UNCHANGED <<driver, opened, f_pos, zeros, dev_mutex, strays, cleared>>
      /\ pc[t] = "measure" /\ call[t].op = "read"
      /\ unended' = (unended \/ zeros[Buf(t)] = {})
  BY DEF MeasureRead, state
<1>8. \A u \in Thread : Offset(u)' = Offset(u) /\ Buf(u)' = Buf(u)
  BY <1>6, <1>7 DEF Offset, Buf, Buffer, OneBuffer
<1>9. Types'
  BY <1>6, <1>7, Zenon DEF Types, Place
<1>10. MutexMeansInside' /\ CallsAreOpen'
  BY <1>6, <1>7, SMT DEF MutexMeansInside, CallsAreOpen, Inside
<1>11. WriteSpan'
  BY <1>6, <1>7, <1>8, Zenon DEF WriteSpan
<1>12. ReadSpan'
  <2> SUFFICES ASSUME ~unended', ~cleared',
                      NEW u \in Thread, pc'[u] = "copy", call'[u].op = "read",
                      NEW i \in Int, Offset(u) <= i, i < Offset(u) + call'[u].todo
               PROVE  i \in Place \ zeros[Buf(u)]
    BY <1>7, <1>8, Zenon DEF ReadSpan
  <2>1. ~unended /\ ~cleared /\ zeros[Buf(t)] # {}
    BY <1>7
  <2>2. CASE u = t
    BY <1>2, <1>3, <1>4, <1>6, <2>1, <2>2, StrLenIsText, SMT
  <2>3. CASE u # t
    BY <1>6, <2>1, <2>3, Zenon DEF ReadSpan
  <2> QED BY <2>2, <2>3
<1>13. ReadsAreText'
  BY <1>7 DEF ReadsAreText
<1> QED BY <1>9, <1>10, <1>11, <1>12, <1>13

LEMMA MeasureWriteInv == ASSUME IInv, NEW t \in Thread, MeasureWrite(t) PROVE IInv'
<1> USE DEF IInv
<1>1. PICK count \in 0 .. MaxCount : call' = [call EXCEPT ![t].todo = WriteLength(t, count)]
  BY DEF MeasureWrite
<1>2. count \in Nat /\ Offset(t) \in Nat
  BY OffsetType, SizeAssumption
<1> DEFINE n == WriteLength(t, count)
<1>3. n \in Int /\ Offset(t) + n <= Size
  BY <1>2, SizeAssumption, SMT DEF WriteLength
<1> HIDE DEF n
<1>4. Goto(t, "copy") /\ call' = [call EXCEPT ![t].todo = n]
  BY <1>1 DEF MeasureWrite, n
<1>5. /\ call' \in [Thread -> Calls]
      /\ pc' \in [Thread -> {"idle", "lock", "store"} \cup Inside]
      /\ pc'[t] = "copy"
      /\ call'[t].todo = n
      /\ call'[t].file = call[t].file /\ call'[t].op = call[t].op
      /\ call'[t].pos = call[t].pos /\ call'[t].copied = call[t].copied
      /\ \A u \in Thread \ {t} : pc'[u] = pc[u] /\ call'[u] = call[u]
  BY <1>3, <1>4, MeasureRest
<1>6. /\ UNCHANGED <<driver, opened, f_pos, zeros, dev_mutex, strays, unended, cleared>>
      /\ pc[t] = "measure" /\ call[t].op = "write"
  BY DEF MeasureWrite, state, ghosts
<1>7. \A u \in Thread : Offset(u)' = Offset(u) /\ Buf(u)' = Buf(u)
  BY <1>5, <1>6 DEF Offset, Buf, Buffer, OneBuffer
<1>8. Types'
  BY <1>5, <1>6, Zenon DEF Types, Place
<1>9. MutexMeansInside' /\ CallsAreOpen'
  BY <1>5, <1>6, SMT DEF MutexMeansInside, CallsAreOpen, Inside
<1>10. WriteSpan'
  <2> SUFFICES ASSUME NEW u \in Thread, pc'[u] = "copy", call'[u].op = "write"
               PROVE  Offset(u) + call'[u].todo <= Size
    BY <1>7, Zenon DEF WriteSpan
  <2>1. CASE u = t
    BY <1>3, <1>5, <2>1
  <2>2. CASE u # t
    BY <1>5, <2>2, Zenon DEF WriteSpan
  <2> QED BY <2>1, <2>2
<1>11. ReadSpan'
  <2>1. ASSUME NEW u \in Thread, pc'[u] = "copy", call'[u].op = "read"
        PROVE  u # t /\ pc[u] = "copy" /\ call'[u] = call[u]
    BY <1>5, <1>6, <2>1
  <2> QED BY <1>6, <1>7, <2>1, Zenon DEF ReadSpan
<1>12. ReadsAreText'
  BY <1>6 DEF ReadsAreText
<1> QED BY <1>8, <1>9, <1>10, <1>11, <1>12

LEMMA CopyEndsInv == ASSUME IInv, NEW t \in Thread, CopyEnds(t) PROVE IInv'
<1> USE DEF IInv
<1>1. Types'
  BY SMT DEF Types, CopyEnds, state, ghosts, Goto, Place, Inside
<1>2. MutexMeansInside' /\ CallsAreOpen'
  BY SMT DEF MutexMeansInside, CallsAreOpen, Types, CopyEnds, state, Goto, Inside
<1>3. ASSUME NEW u \in Thread, pc'[u] = "copy" PROVE pc[u] = "copy"
  BY <1>3, SMT DEF Types, CopyEnds, Goto
<1>4. WriteSpan' /\ ReadSpan'
  BY <1>3, Zenon DEF WriteSpan, ReadSpan, CopyEnds, Offset, OneBuffer, Buf, Buffer, state, ghosts
<1>5. ReadsAreText'
  BY DEF ReadsAreText, CopyEnds, ghosts
<1> QED BY <1>1, <1>2, <1>4, <1>5

(* A byte more.  A write may do what it likes to the text: the mutex keeps  *)
(* every read away from it.                                                 *)
LEMMA CopyByteInv == ASSUME IInv, NEW t \in Thread, CopyByte(t) PROVE IInv'
<1> USE DEF IInv
<1>1. /\ UNCHANGED <<driver, opened, f_pos, dev_mutex, pc, unended, cleared>>
      /\ pc[t] = "copy" /\ call[t].copied < call[t].todo
  BY DEF CopyByte
<1>2. /\ call' \in [Thread -> Calls]
      /\ call'[t].copied = call[t].copied + 1
      /\ call'[t].todo = call[t].todo
      /\ call'[t].file = call[t].file /\ call'[t].op = call[t].op /\ call'[t].pos = call[t].pos
      /\ \A u \in Thread \ {t} : call'[u] = call[u]
  BY SMT DEF CopyByte, Types, Calls
<1>3. \A u \in Thread : /\ Offset(u)' = Offset(u) /\ Buf(u)' = Buf(u)
                        /\ call'[u].todo = call[u].todo /\ call'[u].op = call[u].op
  BY <1>1, <1>2 DEF Offset, Buf, Buffer, OneBuffer
<1>4. Offset(t) \in Nat /\ call[t].copied \in Nat /\ call[t].todo \in Int
  BY OffsetType, SMT DEF Types, Calls
<1>5. CallsAreOpen'
  <2>1. call'[t].copied <= call'[t].todo
    BY <1>1, <1>2, <1>4
  <2> QED BY <1>1, <1>2, <1>3, <2>1, Zenon DEF CallsAreOpen
<1>6. MutexMeansInside' /\ WriteSpan'
  BY <1>1, <1>3, Zenon DEF MutexMeansInside, WriteSpan
<1>7. CASE call[t].op = "read"
  <2>1. /\ zeros' = zeros
        /\ strays' = [strays EXCEPT ![t] = @ \/ At(t) \notin Place \ zeros[Buf(t)]]
    BY <1>7 DEF CopyByte
  <2>2. strays' \in [Thread -> BOOLEAN]
    BY <2>1, Zenon DEF Types
  <2>3. Types'
    BY <1>1, <1>2, <2>1, <2>2, Zenon DEF Types, Place
  <2>4. ReadSpan'
    BY <1>1, <1>3, <2>1, Zenon DEF ReadSpan
  <2>5. At(t) \in Int /\ Offset(t) <= At(t) /\ At(t) < Offset(t) + call[t].todo
    BY <1>1, <1>4 DEF At
  <2>6. ~unended /\ ~cleared => At(t) \in Place \ zeros[Buf(t)]
    BY <1>1, <1>7, <2>5, Zenon DEF ReadSpan
  <2>7. ReadsAreText'
    BY <1>1, <2>1, <2>6, Zenon DEF ReadsAreText, Types
  <2> QED BY <1>5, <1>6, <2>3, <2>4, <2>7
<1>8. CASE call[t].op # "read"
  <2>1. PICK z \in {{}, {At(t)}} : zeros' = [zeros EXCEPT ![Buf(t)] = (@ \ {At(t)}) \cup z]
    BY <1>8 DEF CopyByte
  <2>2. strays' = strays
    BY <1>8 DEF CopyByte
  <2>3. At(t) \in Place
    <3>1. call[t].op = "write"
      BY <1>1, <1>8, SMT DEF CallsAreOpen, Types, Calls
    <3> QED BY <1>1, <1>4, <3>1, SizeAssumption DEF WriteSpan, At, Place
  <2>4. zeros' \in [File \cup {Shared} -> SUBSET Place]
    BY <2>1, <2>3, BufType, Zenon DEF Types
  <2>5. Types'
    BY <1>1, <1>2, <2>2, <2>4, Zenon DEF Types, Place
  <2>6. \A u \in Thread : pc[u] = "copy" => u = t
    BY <1>1, NoneAssumption DEF MutexMeansInside, Inside
  <2>7. ReadSpan' /\ ReadsAreText'
    BY <1>1, <1>3, <1>8, <2>2, <2>6, Zenon DEF ReadSpan, ReadsAreText
  <2> QED BY <1>5, <1>6, <2>5, <2>7
<1> QED BY <1>7, <1>8
-----------------------------------------------------------------------------
LEMMA StutterInv == ASSUME IInv, UNCHANGED vars PROVE IInv'
BY DEF IInv, vars, state, ghosts, Types, MutexMeansInside, CallsAreOpen, WriteSpan, ReadSpan,
       ReadsAreText, Offset, OneBuffer, Buf, Buffer

LEMMA NextInv == IInv /\ [Next]_vars => IInv'
<1> SUFFICES ASSUME IInv, [Next]_vars PROVE IInv'
  OBVIOUS
<1>1. ASSUME NEW f \in File, Open(f) PROVE IInv'
  BY <1>1, OpenInv
<1>2. ASSUME NEW f \in File, Release(f) PROVE IInv'
  BY <1>2, ReleaseInv
<1>3. ASSUME NEW t \in Thread, Call(t) PROVE IInv'
  BY <1>3, CallInv
<1>4. ASSUME NEW t \in Thread, Lock(t) PROVE IInv'
  BY <1>4, LockInv
<1>5. ASSUME NEW t \in Thread, Interrupted(t) PROVE IInv'
  BY <1>5, InterruptedInv
<1>6. ASSUME NEW t \in Thread, Runs(t) PROVE IInv'
  <2>1. CASE MeasureRead(t)
    BY <2>1, MeasureReadInv
  <2>2. CASE MeasureWrite(t)
    BY <2>2, MeasureWriteInv
  <2>3. CASE Refuse(t)
    BY <2>3, RefuseInv
  <2>4. CASE CopyByte(t)
    BY <2>4, CopyByteInv
  <2>5. CASE CopyEnds(t)
    BY <2>5, CopyEndsInv
  <2>6. CASE Unlock(t)
    BY <2>6, UnlockInv
  <2>7. CASE Store(t)
    BY <2>7, StoreInv
  <2> QED BY <1>6, <2>1, <2>2, <2>3, <2>4, <2>5, <2>6, <2>7 DEF Runs
<1>7. ASSUME NEW t \in Thread, Clear(t) PROVE IInv'
  BY <1>7, ClearInv
<1>8. CASE UNCHANGED vars
  BY <1>8, StutterInv
<1> QED BY <1>1, <1>2, <1>3, <1>4, <1>5, <1>6, <1>7, <1>8 DEF Next

LEMMA Invariance == Spec => []IInv
BY InitInv, NextInv, PTL DEF Spec
-----------------------------------------------------------------------------
(* Of any number of threads, one at a time is between the lock and the      *)
(* unlock, and none that is not holds the mutex (07/01, my_cdev.c:85-123).  *)
THEOREM OneInside == Spec => []MutexMeansInside
BY Invariance, PTL DEF IInv

(* No write leaves the buffer, whatever the size, the lengths asked for and *)
(* the offsets that other calls left (07/01, my_cdev.c:91-100).             *)
THEOREM WritesAreBounded == Spec => []WritesStayInside
<1>1. IInv => WritesStayInside
  <2> SUFFICES ASSUME IInv, NEW t \in Thread, pc[t] = "copy", call[t].op = "write"
               PROVE  At(t) + call[t].todo - call[t].copied <= Size
    BY DEF WritesStayInside
  <2>1. Offset(t) \in Nat /\ call[t].copied \in Nat /\ call[t].todo \in Int
    BY OffsetType, SMT DEF IInv, Types, Calls
  <2>2. Offset(t) + call[t].todo <= Size
    BY Zenon DEF IInv, WriteSpan
  <2> QED BY <2>1, <2>2, SizeAssumption DEF At
<1> QED BY <1>1, Invariance, PTL

(* What reads return is text as long as every text ended in its buffer and  *)
(* no ioctl cleared one (07/01, my_cdev.c:58-63; 08, my_cdev.c:127).        *)
THEOREM ReadsReturnText == Spec => []ReadsAreText
BY Invariance, PTL DEF IInv
=============================================================================
