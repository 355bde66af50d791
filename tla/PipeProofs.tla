----------------------------- MODULE PipeProofs -----------------------------
(***************************************************************************)
(* The pipe's safety properties for any number of readers, writers and     *)
(* bytes, any limit and both overflow policies, and its refinement of      *)
(* ByteStream.                                                             *)
(***************************************************************************)
EXTENDS Pipe, SequenceTheorems, TLAPS

\* What the named invariants need to be inductive: done is closed exactly
\* when the state leaves open, an interrupted pipe holds nothing, and a call
\* in progress carries between one byte and MaxWrite.
Support ==
    /\ done <=> state # "open"
    /\ state = "errord" => data = <<>>
    /\ \A w \in Writers :
          wpc[w] \in {"internal", "select"} =>
              mb[w] # <<>> /\ Len(mb[w]) <= MaxWrite

IInv == TypeOK /\ Support /\ Fifo /\ EofMeansComplete

\* Appending nothing changes nothing, appending something makes it longer.
LEMMA AppendFacts ==
    ASSUME NEW s \in Seq(Nat), NEW t \in Seq(Nat)
    PROVE  /\ s \o t \in Seq(Nat)
           /\ Len(s \o t) = Len(s) + Len(t)
           /\ (s \o t = s) <=> (t = <<>>)
           /\ SubSeq(s \o t, 1, Len(s)) = s
           /\ t # <<>> => Len(t) > 0
           /\ s \o <<>> = s
  <1>1. s \o t \in Seq(Nat) /\ Len(s \o t) = Len(s) + Len(t)
    OBVIOUS
  <1>2. t # <<>> => Len(t) > 0
    OBVIOUS
  <1>3. s \o <<>> = s
    OBVIOUS
  <1>4. (s \o t = s) <=> (t = <<>>)
    BY <1>1, <1>2, <1>3
  <1>5. SubSeq(s \o t, 1, Len(s)) = s
    OBVIOUS
  <1> QED BY <1>1, <1>2, <1>3, <1>4, <1>5

\* Concatenation is associative: the bytes delivered, then those held, then
\* those being written.
LEMMA AppendAssoc ==
    ASSUME NEW s \in Seq(Nat), NEW t \in Seq(Nat), NEW u \in Seq(Nat)
    PROVE  (s \o t) \o u = s \o (t \o u)
  <1> DEFINE a == (s \o t) \o u
             b == s \o (t \o u)
  <1>1. /\ s \o t \in Seq(Nat) /\ t \o u \in Seq(Nat)
        /\ Len(s \o t) = Len(s) + Len(t) /\ Len(t \o u) = Len(t) + Len(u)
    OBVIOUS
  <1>2. /\ a \in Seq(Nat) /\ b \in Seq(Nat)
        /\ Len(a) = Len(s) + Len(t) + Len(u) /\ Len(b) = Len(a)
    BY <1>1
  <1>3. ASSUME NEW i \in 1..Len(a) PROVE a[i] = b[i]
    <2>1. CASE i <= Len(s)
      BY <1>1, <1>2, <2>1
    <2>2. CASE i > Len(s) /\ i <= Len(s) + Len(t)
      BY <1>1, <1>2, <2>2
    <2>3. CASE i > Len(s) + Len(t)
      BY <1>1, <1>2, <2>3
    <2> QED BY <1>1, <1>2, <2>1, <2>2, <2>3
  <1> HIDE DEF a, b
  <1>4. a = b
    BY <1>2, <1>3, SeqEqual
  <1> QED BY <1>4 DEF a, b

\* The writer's argument is a sequence of bytes no longer than MaxWrite.
LEMMA CallBytes ==
    ASSUME NEW n \in 1..MaxWrite, issued \in Nat
    PROVE  LET b == [i \in 1..n |-> issued + i]
           IN  b \in Seq(Nat) /\ b # <<>> /\ Len(b) <= MaxWrite
  BY PipeAssumption

\* The invariants hold in a new pipe.
LEMMA InitInvariant == Init => IInv /\ NoLostWakeup /\ BoundedBuffer
  <1> SUFFICES ASSUME Init PROVE IInv /\ NoLostWakeup /\ BoundedBuffer
    OBVIOUS
  <1>1. TypeOK
    <2>1. <<>> \in Seq(Nat)
      OBVIOUS
    <2> QED BY <2>1 DEF Init, TypeOK
  <1>2. Support /\ Fifo /\ EofMeansComplete
    BY DEF Init, Support, Fifo, EofMeansComplete
  <1>3. NoLostWakeup
    BY DEF Init, NoLostWakeup, NoSleepingReader, NoStrandedWriter
  <1>4. BoundedBuffer
    BY PipeAssumption DEF Init, BoundedBuffer
  <1> QED BY <1>1, <1>2, <1>3, <1>4 DEF IInv

\* readMultiBufferInternal under the pipe's mutex.
LEMMA ReadInternalInvariant ==
    ASSUME IInv, NEW r \in Readers, ReadInternal(r)
    PROVE  IInv'
  <1> USE DEF IInv, ReadInternal, getStateForRead
  <1>1. TypeOK'
    <2>1. data' \in Seq(Nat) /\ delivered' \in Seq(Nat)
      BY AppendFacts DEF TypeOK
    <2>2. /\ rpc' \in [Readers -> {"idle", "internal", "select", "signal"}]
          /\ rret' \in [Readers -> {"none", "nil", "EOF", "ErrClosedPipe",
                                    "ErrReadTimeout", "err"}]
      BY DEF TypeOK
    <2> QED BY <2>1, <2>2 DEF TypeOK, writerVars
  <1>2. Support'
    BY DEF TypeOK, Support, writerVars
  <1>3. Fifo'
    BY AppendFacts DEF TypeOK, Fifo
  <1>4. EofMeansComplete'
    BY AppendFacts DEF TypeOK, Fifo, EofMeansComplete
  <1> QED BY <1>1, <1>2, <1>3, <1>4

\* writeMultiBufferInternal under the pipe's mutex.
LEMMA WriteInternalInvariant ==
    ASSUME IInv, NEW w \in Writers, WriteInternal(w)
    PROVE  IInv'
  <1> USE DEF IInv, WriteInternal, getStateForWrite, onBufferFull, MergeMulti
  <1>1. TypeOK'
    BY AppendFacts DEF TypeOK, readerVars
  <1>2. Support'
    BY DEF TypeOK, Support
  <1>3. Fifo'
    <2>1. /\ delivered \in Seq(Nat)
          /\ data \in Seq(Nat)
          /\ mb[w] \in Seq(Nat)
      BY DEF TypeOK
    <2>2. (delivered \o data) \o mb[w] = delivered \o (data \o mb[w])
      BY <2>1, AppendAssoc
    <2> QED BY <2>2 DEF Fifo
  <1>4. EofMeansComplete'
    BY DEF TypeOK, EofMeansComplete, readerVars
  <1> QED BY <1>1, <1>2, <1>3, <1>4

\* The inductive step, one case per operation of the code.
LEMMA StepInvariant == IInv /\ [Next]_vars => IInv'
  <1> SUFFICES ASSUME IInv, [Next]_vars PROVE IInv'
    OBVIOUS
  <1> USE DEF IInv, TypeOK, Support, Fifo, EofMeansComplete, pipeVars,
              readerVars, writerVars
  <1>1. ASSUME NEW r \in Readers, NEW t \in BOOLEAN, ReadCall(r, t) PROVE IInv'
    BY <1>1 DEF ReadCall
  <1>2. ASSUME NEW r \in Readers, ReadInternal(r) PROVE IInv'
    BY <1>2, ReadInternalInvariant
  <1>3. ASSUME NEW r \in Readers, ReadSignal(r) PROVE IInv'
    BY <1>3 DEF ReadSignal
  <1>4. ASSUME NEW r \in Readers, ReadWake(r) PROVE IInv'
    BY <1>4 DEF ReadWake
  <1>5. ASSUME NEW r \in Readers, ReadGiveUp(r) PROVE IInv'
    BY <1>5 DEF ReadGiveUp
  <1>6. ASSUME NEW w \in Writers, NEW n \in 1..MaxWrite, WriteCall(w, n)
        PROVE  IInv'
    <2> DEFINE b == [i \in 1..n |-> issued + i]
    <2>1. b \in Seq(Nat) /\ b # <<>> /\ Len(b) <= MaxWrite
      BY CallBytes
    <2>2. issued' \in Nat /\ mb' = [mb EXCEPT ![w] = b]
      BY <1>6, PipeAssumption DEF WriteCall
    <2> HIDE DEF b
    <2> QED BY <1>6, <2>1, <2>2 DEF WriteCall
  <1>7. ASSUME NEW w \in Writers, WriteInternal(w) PROVE IInv'
    BY <1>7, WriteInternalInvariant
  <1>8. ASSUME NEW w \in Writers, WriteSignal(w) PROVE IInv'
    BY <1>8 DEF WriteSignal
  <1>9. ASSUME NEW w \in Writers, WriteWake(w) PROVE IInv'
    BY <1>9 DEF WriteWake
  <1>10. ASSUME NEW w \in Writers, WriteDone(w) PROVE IInv'
    BY <1>10 DEF WriteDone
  <1>11. CASE Close
    BY <1>11 DEF Close
  <1>12. CASE Interrupt
    BY <1>12, AppendFacts DEF Interrupt
  <1>13. CASE ReturnAnError
    BY <1>13 DEF ReturnAnError
  <1>14. CASE Recover
    BY <1>14 DEF Recover
  <1>15. CASE UNCHANGED vars
    BY <1>15 DEF vars
  <1> QED
    BY <1>1, <1>2, <1>3, <1>4, <1>5, <1>6, <1>7, <1>8, <1>9, <1>10, <1>11,
       <1>12, <1>13, <1>14, <1>15
    DEF Next, ReaderStep, WriterStep

\* A reader asleep over waiting bytes always has a wake-up on the way.
LEMMA ReaderWakeups == IInv /\ NoSleepingReader /\ [Next]_vars => NoSleepingReader'
  <1> SUFFICES ASSUME IInv, NoSleepingReader, [Next]_vars PROVE NoSleepingReader'
    OBVIOUS
  <1> USE DEF IInv, TypeOK, Support, NoSleepingReader, pipeVars, readerVars, writerVars
  <1>1. ASSUME NEW r \in Readers, NEW t \in BOOLEAN, ReadCall(r, t)
        PROVE  NoSleepingReader'
    BY <1>1 DEF ReadCall
  <1>2. ASSUME NEW r \in Readers, ReadInternal(r) PROVE NoSleepingReader'
    BY <1>2 DEF ReadInternal, getStateForRead
  <1>3. ASSUME NEW r \in Readers, ReadSignal(r) PROVE NoSleepingReader'
    BY <1>3 DEF ReadSignal
  <1>4. ASSUME NEW r \in Readers, ReadWake(r) PROVE NoSleepingReader'
    BY <1>4 DEF ReadWake
  <1>5. ASSUME NEW r \in Readers, ReadGiveUp(r) PROVE NoSleepingReader'
    BY <1>5 DEF ReadGiveUp
  <1>6. ASSUME NEW w \in Writers, NEW n \in 1..MaxWrite, WriteCall(w, n)
        PROVE  NoSleepingReader'
    BY <1>6 DEF WriteCall
  <1>7. ASSUME NEW w \in Writers, WriteInternal(w) PROVE NoSleepingReader'
    BY <1>7, AppendFacts, PipeAssumption
    DEF WriteInternal, getStateForWrite, onBufferFull, MergeMulti, isFull
  <1>8. ASSUME NEW w \in Writers, WriteSignal(w) PROVE NoSleepingReader'
    BY <1>8 DEF WriteSignal
  <1>9. ASSUME NEW w \in Writers, WriteWake(w) PROVE NoSleepingReader'
    BY <1>9 DEF WriteWake
  <1>10. ASSUME NEW w \in Writers, WriteDone(w) PROVE NoSleepingReader'
    BY <1>10 DEF WriteDone
  <1>11. CASE Close
    BY <1>11 DEF Close
  <1>12. CASE Interrupt
    BY <1>12, PipeAssumption DEF Interrupt
  <1>13. CASE ReturnAnError
    BY <1>13 DEF ReturnAnError
  <1>14. CASE Recover
    BY <1>14 DEF Recover
  <1>15. CASE UNCHANGED vars
    BY <1>15 DEF vars
  <1> QED
    BY <1>1, <1>2, <1>3, <1>4, <1>5, <1>6, <1>7, <1>8, <1>9, <1>10, <1>11,
       <1>12, <1>13, <1>14, <1>15
    DEF Next, ReaderStep, WriterStep

\* A writer asleep on an open, empty pipe always has a wake-up on the way.
LEMMA WriterWakeups == IInv /\ NoStrandedWriter /\ [Next]_vars => NoStrandedWriter'
  <1> SUFFICES ASSUME IInv, NoStrandedWriter, [Next]_vars PROVE NoStrandedWriter'
    OBVIOUS
  <1> USE DEF IInv, TypeOK, Support, NoStrandedWriter, pipeVars, readerVars, writerVars
  <1>1. ASSUME NEW r \in Readers, NEW t \in BOOLEAN, ReadCall(r, t)
        PROVE  NoStrandedWriter'
    BY <1>1 DEF ReadCall
  <1>2. ASSUME NEW r \in Readers, ReadInternal(r) PROVE NoStrandedWriter'
    BY <1>2 DEF ReadInternal, getStateForRead
  <1>3. ASSUME NEW r \in Readers, ReadSignal(r) PROVE NoStrandedWriter'
    BY <1>3 DEF ReadSignal
  <1>4. ASSUME NEW r \in Readers, ReadWake(r) PROVE NoStrandedWriter'
    BY <1>4 DEF ReadWake
  <1>5. ASSUME NEW r \in Readers, ReadGiveUp(r) PROVE NoStrandedWriter'
    BY <1>5 DEF ReadGiveUp
  <1>6. ASSUME NEW w \in Writers, NEW n \in 1..MaxWrite, WriteCall(w, n)
        PROVE  NoStrandedWriter'
    BY <1>6 DEF WriteCall
  <1>7. ASSUME NEW w \in Writers, WriteInternal(w) PROVE NoStrandedWriter'
    <2>1. mb[w] \in Seq(Nat) /\ mb[w] # <<>> /\ Len(mb[w]) > 0
      BY <1>7, AppendFacts DEF WriteInternal
    <2>2. isFull(Len(data)) => data # <<>>
      BY PipeAssumption DEF isFull
    <2>3. MergeMulti(data, mb[w]) # <<>>
      BY <2>1, AppendFacts DEF MergeMulti
    <2>4. state = "open" => data' # <<>>
      BY <1>7, <2>2, <2>3 DEF WriteInternal, getStateForWrite
    <2> QED BY <1>7, <2>4 DEF WriteInternal
  <1>8. ASSUME NEW w \in Writers, WriteSignal(w) PROVE NoStrandedWriter'
    BY <1>8 DEF WriteSignal
  <1>9. ASSUME NEW w \in Writers, WriteWake(w) PROVE NoStrandedWriter'
    BY <1>9 DEF WriteWake
  <1>10. ASSUME NEW w \in Writers, WriteDone(w) PROVE NoStrandedWriter'
    BY <1>10 DEF WriteDone
  <1>11. CASE Close
    BY <1>11 DEF Close
  <1>12. CASE Interrupt
    BY <1>12, PipeAssumption DEF Interrupt
  <1>13. CASE ReturnAnError
    BY <1>13 DEF ReturnAnError
  <1>14. CASE Recover
    BY <1>14 DEF Recover
  <1>15. CASE UNCHANGED vars
    BY <1>15 DEF vars
  <1> QED
    BY <1>1, <1>2, <1>3, <1>4, <1>5, <1>6, <1>7, <1>8, <1>9, <1>10, <1>11,
       <1>12, <1>13, <1>14, <1>15
    DEF Next, ReaderStep, WriterStep

\* A write is admitted only below the limit and adds at most MaxWrite bytes.
LEMMA BoundStep == IInv /\ BoundedBuffer /\ [Next]_vars => BoundedBuffer'
  <1> SUFFICES ASSUME IInv, BoundedBuffer, [Next]_vars PROVE BoundedBuffer'
    OBVIOUS
  <1> USE DEF IInv, TypeOK, Support, BoundedBuffer, pipeVars, readerVars, writerVars
  <1>1. ASSUME NEW r \in Readers, NEW t \in BOOLEAN, ReadCall(r, t)
        PROVE  BoundedBuffer'
    BY <1>1 DEF ReadCall
  <1>2. ASSUME NEW r \in Readers, ReadInternal(r) PROVE BoundedBuffer'
    BY <1>2, PipeAssumption DEF ReadInternal, getStateForRead
  <1>3. ASSUME NEW r \in Readers, ReadSignal(r) PROVE BoundedBuffer'
    BY <1>3 DEF ReadSignal
  <1>4. ASSUME NEW r \in Readers, ReadWake(r) PROVE BoundedBuffer'
    BY <1>4 DEF ReadWake
  <1>5. ASSUME NEW r \in Readers, ReadGiveUp(r) PROVE BoundedBuffer'
    BY <1>5 DEF ReadGiveUp
  <1>6. ASSUME NEW w \in Writers, NEW n \in 1..MaxWrite, WriteCall(w, n)
        PROVE  BoundedBuffer'
    BY <1>6 DEF WriteCall
  <1>7. ASSUME NEW w \in Writers, WriteInternal(w) PROVE BoundedBuffer'
    BY <1>7, AppendFacts, PipeAssumption
    DEF WriteInternal, getStateForWrite, onBufferFull, MergeMulti, isFull
  <1>8. ASSUME NEW w \in Writers, WriteSignal(w) PROVE BoundedBuffer'
    BY <1>8 DEF WriteSignal
  <1>9. ASSUME NEW w \in Writers, WriteWake(w) PROVE BoundedBuffer'
    BY <1>9 DEF WriteWake
  <1>10. ASSUME NEW w \in Writers, WriteDone(w) PROVE BoundedBuffer'
    BY <1>10 DEF WriteDone
  <1>11. CASE Close
    BY <1>11 DEF Close
  <1>12. CASE Interrupt
    BY <1>12, PipeAssumption DEF Interrupt
  <1>13. CASE ReturnAnError
    BY <1>13 DEF ReturnAnError
  <1>14. CASE Recover
    BY <1>14 DEF Recover
  <1>15. CASE UNCHANGED vars
    BY <1>15 DEF vars
  <1> QED
    BY <1>1, <1>2, <1>3, <1>4, <1>5, <1>6, <1>7, <1>8, <1>9, <1>10, <1>11,
       <1>12, <1>13, <1>14, <1>15
    DEF Next, ReaderStep, WriterStep

-----------------------------------------------------------------------------
\* Type correctness of every variable of the pipe.
THEOREM PipeTypeOK == Spec => []TypeOK
  <1>1. Init => IInv
    BY InitInvariant
  <1>2. IInv /\ [Next]_vars => IInv'
    BY StepInvariant
  <1>3. IInv => TypeOK
    BY DEF IInv
  <1> QED BY <1>1, <1>2, <1>3, PTL DEF Spec

\* readMultiBufferInternal and writeMultiBufferInternal neither lose,
\* duplicate nor reorder a byte, and io.EOF is final.
THEOREM PipeFifo == Spec => [](Fifo /\ EofMeansComplete)
  <1>1. Init => IInv
    BY InitInvariant
  <1>2. IInv /\ [Next]_vars => IInv'
    BY StepInvariant
  <1>3. IInv => Fifo /\ EofMeansComplete
    BY DEF IInv
  <1> QED BY <1>1, <1>2, <1>3, PTL DEF Spec

\* The one-slot notifiers never lose the wake-up of a sleeping reader.
THEOREM PipeNoSleepingReader == Spec => []NoSleepingReader
  <1>1. Init => IInv /\ NoSleepingReader
    BY InitInvariant DEF NoLostWakeup
  <1>2. IInv /\ NoSleepingReader /\ [Next]_vars => IInv' /\ NoSleepingReader'
    BY StepInvariant, ReaderWakeups
  <1> QED BY <1>1, <1>2, PTL DEF Spec

\* Nor do they strand a writer on an empty pipe.
THEOREM PipeNoStrandedWriter == Spec => []NoStrandedWriter
  <1>1. Init => IInv /\ NoStrandedWriter
    BY InitInvariant DEF NoLostWakeup
  <1>2. IInv /\ NoStrandedWriter /\ [Next]_vars => IInv' /\ NoStrandedWriter'
    BY StepInvariant, WriterWakeups
  <1> QED BY <1>1, <1>2, PTL DEF Spec

\* No wake-up is lost, of a reader or of a writer.
THEOREM PipeNoLostWakeup == Spec => []NoLostWakeup
  BY PipeNoSleepingReader, PipeNoStrandedWriter, PTL DEF NoLostWakeup

\* isFull admits one write too many and no more, however many writers race.
THEOREM PipeBounded == Spec => []BoundedBuffer
  <1>1. Init => IInv /\ BoundedBuffer
    BY InitInvariant
  <1>2. IInv /\ BoundedBuffer /\ [Next]_vars => IInv' /\ BoundedBuffer'
    BY StepInvariant, BoundStep
  <1> QED BY <1>1, <1>2, PTL DEF Spec

\* Every pipe is a ByteStream: writes append, reads take everything accepted
\* so far, Close lets the reader drain and Interrupt drops what is left.
THEOREM PipeRefinesStream == Spec => ImplementsStream
  <1> USE DEF Stream!StreamInit, Stream!StreamNext, Stream!streamVars
  <1>1. Init => Stream!StreamInit
    BY DEF Init
  <1>2. IInv /\ [Next]_vars => [Stream!StreamNext]_(Stream!streamVars)
    <2> SUFFICES ASSUME IInv, [Next]_vars
                 PROVE  [Stream!StreamNext]_(Stream!streamVars)
      OBVIOUS
    <2> USE DEF pipeVars
    <2>1. ASSUME NEW r \in Readers, ReadInternal(r)
          PROVE  [Stream!StreamNext]_(Stream!streamVars)
      BY <2>1, AppendFacts
      DEF ReadInternal, getStateForRead, IInv, TypeOK, Fifo, Support,
          Stream!Deliver
    <2>2. ASSUME NEW w \in Writers, WriteInternal(w)
          PROVE  [Stream!StreamNext]_(Stream!streamVars)
      <3>1. mb[w] \in Seq(Nat) /\ mb[w] # <<>> /\ Len(mb[w]) > 0
        BY <2>2, AppendFacts DEF WriteInternal, IInv, TypeOK, Support
      <3>2. /\ accepted \o mb[w] \in Seq(Nat)
            /\ Len(accepted \o mb[w]) > Len(accepted)
            /\ SubSeq(accepted \o mb[w], 1, Len(accepted)) = accepted
        BY <3>1, AppendFacts DEF IInv, TypeOK
      <3> QED
        BY <2>2, <3>2 DEF WriteInternal, getStateForWrite, Stream!Accept
    <2>3. CASE Close
      BY <2>3 DEF Close, Stream!Finish
    <2>4. CASE Interrupt
      BY <2>4, AppendFacts
      DEF Interrupt, Stream!Abort, IInv, TypeOK, Fifo, Support
    <2>5. CASE UNCHANGED vars
      BY <2>5 DEF vars
    <2> QED
      BY <2>1, <2>2, <2>3, <2>4, <2>5
      DEF Next, ReaderStep, WriterStep, ReadCall, ReadSignal, ReadWake,
          ReadGiveUp, WriteCall, WriteSignal, WriteWake, WriteDone,
          ReturnAnError, Recover
  <1>3. Init => IInv
    BY InitInvariant
  <1>4. IInv /\ [Next]_vars => IInv'
    BY StepInvariant
  <1> QED
    BY <1>1, <1>2, <1>3, <1>4, PTL DEF Spec, ImplementsStream, Stream!StreamSpec
=============================================================================
