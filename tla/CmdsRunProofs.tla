---------------------------- MODULE CmdsRunProofs ----------------------------
(***************************************************************************)
(* Theorems about CmdsRun and Credentials, for all commands, return codes, *)
(* capacities of the pipes, RC files and callers.                          *)
(***************************************************************************)
EXTENDS Credentials, FiniteSetTheorems, SequenceTheorems, TLAPS

\* The variables hold what they should.
LEMMA InitType == Init => TypeOK
  BY CmdsAssumption DEF Init, TypeOK

\* Reading a line leaves a pipe with one line less.
LEMMA TailShorter ==
  ASSUME NEW S, NEW pipe \in Seq(S), pipe # <<>>
  PROVE  /\ Head(pipe) \in S
         /\ Tail(pipe) \in Seq(S) /\ Len(Tail(pipe)) = Len(pipe) - 1 /\ Len(pipe) \in Nat
  OBVIOUS

LEMMA NextType == TypeOK /\ [Next]_vars => TypeOK'
<1> SUFFICES ASSUME TypeOK, [Next]_vars PROVE TypeOK'
  OBVIOUS
<1>0. program \in Seq(Lines) /\ PipeCap \in Nat
  BY CmdsAssumption DEF TypeOK
<1>1. CASE Writes
  <2>1. written + 1 \in DOMAIN program /\ program[written + 1] \in Lines
    BY <1>0, <1>1 DEF Writes, TypeOK
  <2>2. CASE /\ IsOut(program[written + 1]) /\ Len(stdout) < PipeCap
             /\ stdout' = Append(stdout, program[written + 1]) /\ UNCHANGED stderr
    BY <1>0, <1>1, <2>1, <2>2 DEF Writes, TypeOK, command, IsOut
  <2>3. CASE /\ IsErr(program[written + 1]) /\ Len(stderr) < PipeCap
             /\ stderr' = Append(stderr, program[written + 1]) /\ UNCHANGED stdout
    BY <1>0, <1>1, <2>1, <2>3 DEF Writes, TypeOK, command, IsErr
  <2> QED
    BY <1>1, <2>2, <2>3 DEF Writes
<1>2. CASE Closes
  BY <1>2 DEF Closes, TypeOK, command
<1>3. CASE Ends
  BY <1>3 DEF Ends, TypeOK, command
<1>4. CASE ReadOut
  <2>1. stdout # <<>> => /\ Head(stdout) \in OutLines
                         /\ Tail(stdout) \in Seq(OutLines) /\ Len(Tail(stdout)) <= PipeCap
    BY <1>0, TailShorter DEF TypeOK
  <2> QED
    BY <1>0, <1>4, <2>1 DEF ReadOut, TypeOK, command
<1>5. CASE ReadErr
  <2>1. stderr # <<>> => /\ Head(stderr) \in ErrLines
                         /\ Tail(stderr) \in Seq(ErrLines) /\ Len(Tail(stderr)) <= PipeCap
    BY <1>0, TailShorter DEF TypeOK
  <2> QED
    <3>1. CASE stderr # <<>> /\ err' = Append(err, Head(stderr)) /\ stderr' = Tail(stderr)
      BY <1>0, <1>5, <2>1, <3>1 DEF ReadErr, TypeOK, command
    <3>2. CASE UNCHANGED <<err, stderr>>
      BY <1>5, <3>2 DEF ReadErr, TypeOK, command
    <3> QED
      BY <1>5, <3>1, <3>2 DEF ReadErr
<1>6. CASE GoesOn
  BY <1>6 DEF GoesOn, TypeOK, command
<1>7. CASE Stops
  BY <1>7 DEF Stops, TypeOK, command
<1>8. CASE UNCHANGED vars
  BY <1>8 DEF vars, command, TypeOK
<1> QED
  BY <1>1, <1>2, <1>3, <1>4, <1>5, <1>6, <1>7, <1>8 DEF Next, Command, Script, Finished

\* Type correctness: in particular neither pipe ever holds more than it can.
THEOREM TypeCorrect == Spec => []TypeOK
<1>1. Init => TypeOK
  BY InitType
<1>2. TypeOK /\ [Next]_vars => TypeOK'
  BY NextType
<1> QED
  BY <1>1, <1>2, PTL DEF Spec

-----------------------------------------------------------------------------
(* The first line of stderr.                                                *)

\* Where it is: not written yet, next to be read, or the first that was read.
FirstErrInv ==
    \A n \in DOMAIN program : FirstErr(n) =>
        \/ n > written /\ stderr = <<>> /\ err = <<>>
        \/ n <= written /\ err = <<>> /\ stderr # <<>> /\ Head(stderr) = program[n]
        \/ n <= written /\ err # <<>> /\ err[1] = program[n]

\* A pipe closes only after everything was written, so an end of stderr that is
\* read without a line before it means that there is none.
ReadInv ==
    /\ child # "running" => written = Len(program)
    /\ pc \in {"check", "returned"} /\ err = <<>> => \A n \in DOMAIN program : ~FirstErr(n)
    /\ pc = "returned" => ~Failed

CmdsInv == TypeOK /\ FirstErrInv /\ ReadInv

LEMMA InitInv == Init => CmdsInv
<1> SUFFICES ASSUME Init PROVE CmdsInv
  OBVIOUS
<1>1. TypeOK
  BY InitType
<1>2. \A n \in DOMAIN program : n > 0
  BY CmdsAssumption, <1>1 DEF TypeOK
<1> QED
  BY <1>1, <1>2 DEF Init, CmdsInv, FirstErrInv, ReadInv

LEMMA NextInv == CmdsInv /\ [Next]_vars => CmdsInv'
<1> SUFFICES ASSUME CmdsInv, [Next]_vars PROVE CmdsInv'
  OBVIOUS
<1>0. /\ program \in Seq(Lines) /\ PipeCap \in Nat /\ written \in 0..Len(program)
      /\ stderr \in Seq(ErrLines) /\ err \in Seq(ErrLines) /\ OutLines \cap ErrLines = {}
  BY CmdsAssumption DEF CmdsInv, TypeOK
<1>t. TypeOK'
  BY NextType DEF CmdsInv
<1>p. program' = program /\ code' = code
  BY DEF Next, Command, Script, Finished, Writes, Closes, Ends, ReadOut, ReadErr, GoesOn,
         Stops, vars, command
<1>f. \A n \in DOMAIN program : FirstErr(n)' <=> FirstErr(n)
  BY <1>p DEF FirstErr, IsErr, IsOut
<1>1. CASE Writes
  <2> DEFINE line == program[written + 1]
  <2>0. written + 1 \in DOMAIN program /\ child = "running" /\ written' = written + 1
    BY <1>0, <1>1 DEF Writes
  <2>1. UNCHANGED <<child, pc, err>>
    BY <1>1 DEF Writes
  <2>2. CASE IsOut(line) /\ UNCHANGED stderr
    <3>1. \A n \in DOMAIN program : FirstErr(n) => n # written + 1
      BY <1>0, <2>2 DEF FirstErr, IsErr, IsOut
    <3> QED
      BY <1>0, <1>t, <1>p, <1>f, <2>0, <2>1, <2>2, <3>1
      DEF CmdsInv, FirstErrInv, ReadInv, Failed
  <2>3. CASE IsErr(line) /\ stderr' = Append(stderr, line)
    <3>1. ASSUME NEW n \in DOMAIN program, FirstErr(n)
          PROVE  n <= written + 1
      <4>1. CASE n > written + 1
        <5>1. written + 1 \in 1..n - 1
          BY <1>0, <2>0, <4>1
        <5> QED
          BY <1>0, <2>3, <3>1, <5>1 DEF FirstErr, IsErr, IsOut
      <4> QED
        BY <1>0, <2>0, <4>1
    <3>2. stderr' # <<>> /\ (stderr # <<>> => Head(stderr') = Head(stderr))
          /\ (stderr = <<>> => Head(stderr') = line)
      BY <1>0, <2>0, <2>3 DEF IsErr
    <3>3. FirstErrInv'
      <4> SUFFICES ASSUME NEW n \in DOMAIN program, FirstErr(n)
                   PROVE  \/ n <= written + 1 /\ err = <<>> /\ Head(stderr') = program[n]
                          \/ n <= written + 1 /\ err # <<>> /\ err[1] = program[n]
        BY <1>p, <1>f, <2>0, <2>1, <3>2 DEF FirstErrInv
      <4>1. n <= written + 1
        BY <3>1
      <4>2. CASE n > written
        <5>1. n = written + 1
          BY <1>0, <2>0, <4>1, <4>2
        <5> QED
          BY <1>0, <3>2, <4>2, <5>1 DEF CmdsInv, FirstErrInv
      <4>3. CASE n <= written
        BY <1>0, <3>2, <4>1, <4>3 DEF CmdsInv, FirstErrInv
      <4> QED
        BY <1>0, <2>0, <4>2, <4>3
    <3> QED
      BY <1>0, <1>t, <1>p, <1>f, <2>0, <2>1, <3>3 DEF CmdsInv, ReadInv, Failed
  <2> QED
    BY <1>1, <2>2, <2>3 DEF Writes
<1>2. CASE Closes \/ Ends
  BY <1>0, <1>t, <1>p, <1>f, <1>2 DEF Closes, Ends, CmdsInv, FirstErrInv, ReadInv, Failed
<1>3. CASE ReadOut
  BY <1>0, <1>t, <1>p, <1>f, <1>3 DEF ReadOut, CmdsInv, FirstErrInv, ReadInv, Failed
<1>4. CASE ReadErr
  <2>0. UNCHANGED <<child, written>> /\ pc' = "check"
    BY <1>4 DEF ReadErr
  <2>1. CASE stderr # <<>> /\ err' = Append(err, Head(stderr)) /\ stderr' = Tail(stderr)
    <3>1. Head(stderr) \in ErrLines
      BY <1>0, <2>1
    <3>2. err' # <<>> /\ (err = <<>> => err'[1] = Head(stderr))
          /\ (err # <<>> => err'[1] = err[1])
      BY <1>0, <2>1, <3>1
    <3>3. FirstErrInv'
      BY <1>0, <1>p, <1>f, <2>0, <2>1, <3>2 DEF CmdsInv, FirstErrInv
    <3> QED
      BY <1>t, <1>p, <2>0, <3>2, <3>3 DEF CmdsInv, ReadInv
  <2>2. CASE stderr = <<>> /\ child # "running" /\ UNCHANGED <<err, stderr>>
    <3>1. err = <<>> => \A n \in DOMAIN program : ~FirstErr(n)
      BY <1>0, <2>2 DEF CmdsInv, FirstErrInv, ReadInv
    <3> QED
      BY <1>t, <1>p, <1>f, <2>0, <2>2, <3>1 DEF CmdsInv, FirstErrInv, ReadInv
  <2> QED
    BY <1>4, <2>1, <2>2 DEF ReadErr
<1>5. CASE GoesOn
  BY <1>0, <1>t, <1>p, <1>f, <1>5 DEF GoesOn, CmdsInv, FirstErrInv, ReadInv
<1>6. CASE Stops
  BY <1>0, <1>t, <1>p, <1>f, <1>6 DEF Stops, CmdsInv, FirstErrInv, ReadInv, Failed
<1>7. CASE UNCHANGED vars
  BY <1>t, <1>p, <1>f, <1>7 DEF vars, command, CmdsInv, FirstErrInv, ReadInv, Failed
<1> QED
  BY <1>1, <1>2, <1>3, <1>4, <1>5, <1>6, <1>7 DEF Next, Command, Script, Finished

\* A failing command whose first line of stderr says something never passes for a
\* success, whatever it writes and however much the pipes hold.
THEOREM Noticed == Spec => []FailureNoticed
<1>1. Init => CmdsInv
  BY InitInv
<1>2. CmdsInv /\ [Next]_vars => CmdsInv'
  BY NextInv
<1>3. CmdsInv => FailureNoticed
  <2> SUFFICES ASSUME CmdsInv, pc = "returned", code # 0,
                      NEW n \in DOMAIN program, FirstErr(n)
               PROVE  program[n] = "blank"
    BY DEF FailureNoticed
  <2>1. err # <<>> /\ err[1] = program[n]
    BY DEF CmdsInv, FirstErrInv, ReadInv
  <2>2. 1 \in DOMAIN err /\ err[1] # "text"
    BY <2>1 DEF CmdsInv, TypeOK, ReadInv, Failed
  <2> QED
    BY <2>1, <2>2 DEF CmdsInv, TypeOK, ErrLines
<1> QED
  BY <1>1, <1>2, <1>3, PTL DEF Spec

-----------------------------------------------------------------------------
(* The output.                                                              *)

\* Ranks count the lines of stdout from 1, in the order in which they are written.
LEMMA RankType ==
  ASSUME TypeOK
  PROVE  /\ Len(program) \in Nat /\ DOMAIN program = 1..Len(program)
         /\ Rank(0) = 0 /\ Rank(Len(program)) = Cardinality(Outs)
         /\ \A n \in Nat : Rank(n) \in Nat /\ IsFiniteSet(Outs \cap 1..n)
<1>1. Len(program) \in Nat /\ DOMAIN program = 1..Len(program)
  BY CmdsAssumption DEF TypeOK
<1>2. Outs \cap 1..0 = {} /\ Outs \cap 1..Len(program) = Outs
  BY <1>1 DEF Outs
<1>3. ASSUME NEW n \in Nat PROVE Rank(n) \in Nat /\ IsFiniteSet(Outs \cap 1..n)
  <2>1. IsFiniteSet(1..n)
    BY FS_Interval
  <2>2. IsFiniteSet(Outs \cap 1..n)
    BY <2>1, FS_Subset
  <2> QED
    BY <2>2, FS_CardinalityType DEF Rank
<1> QED
  BY <1>1, <1>2, <1>3, FS_EmptySet DEF Rank

LEMMA RankNext ==
  ASSUME TypeOK, NEW n \in Nat
  PROVE  Rank(n + 1) = IF n + 1 \in Outs THEN Rank(n) + 1 ELSE Rank(n)
<1>1. IsFiniteSet(Outs \cap 1..n)
  BY RankType
<1>2. n + 1 \notin Outs \cap 1..n
  OBVIOUS
<1>3. CASE n + 1 \in Outs
  <2>1. Outs \cap 1..n + 1 = (Outs \cap 1..n) \cup {n + 1}
    BY <1>3
  <2> QED
    BY <1>1, <1>2, <1>3, <2>1, FS_AddElement DEF Rank
<1>4. CASE n + 1 \notin Outs
  <2>1. Outs \cap 1..n + 1 = Outs \cap 1..n
    BY <1>4
  <2> QED
    BY <1>4, <2>1 DEF Rank
<1> QED
  BY <1>3, <1>4

LEMMA RankOrder ==
  ASSUME TypeOK, NEW n \in Outs, NEW m \in Nat
  PROVE  /\ n \in Nat /\ Rank(n) \in Nat \ {0} /\ Rank(m) \in Nat
         /\ n <= m => Rank(n) <= Rank(m)
         /\ m < n => Rank(m) < Rank(n)
<1>1. n \in Nat /\ n >= 1 /\ n - 1 \in Nat /\ (n - 1) + 1 = n
  BY RankType DEF Outs
<1>2. Rank(n) = Rank(n - 1) + 1
  BY <1>1, RankNext
<1>3. ASSUME NEW a \in Nat, NEW b \in Nat, a <= b PROVE Rank(a) <= Rank(b)
  <2>1. Outs \cap 1..a \subseteq Outs \cap 1..b
    BY <1>3
  <2> QED
    BY <2>1, RankType, FS_Subset DEF Rank
<1>4. Rank(n - 1) \in Nat /\ Rank(n) \in Nat /\ Rank(m) \in Nat
  BY <1>1, RankType
<1>5. n <= m => Rank(n) <= Rank(m)
  BY <1>1, <1>3
<1>6. m < n => Rank(m) <= Rank(n - 1)
  <2>1. m < n => m <= n - 1
    BY <1>1
  <2> QED
    BY <1>1, <1>3, <2>1
<1> QED
  BY <1>1, <1>2, <1>4, <1>5, <1>6

\* The line of stdout that was read and is not yet in the result.
Pending == IF pc \in {"readErr", "check"} /\ output # EOF THEN <<output>> ELSE <<>>

\* All that was written to stdout so far, wherever it is.
Stream == (out \o Pending) \o stdout

\* It is what the command wrote, each line once and in order; the end of stdout is read
\* only when all was written and nothing is left.
StreamInv ==
    /\ Len(Stream) = Rank(written)
    /\ \A n \in Outs : n <= written => Stream[Rank(n)] = program[n]
    /\ \A k \in 1..Len(Stream) : \E n \in Outs : n <= written /\ Rank(n) = k

EndInv ==
    /\ child # "running" => written = Len(program)
    /\ pc \in {"readErr", "check"} /\ output = EOF => child # "running" /\ stdout = <<>>
    /\ pc = "returned" => child # "running" /\ stdout = <<>>

OutInv == TypeOK /\ StreamInv /\ EndInv

LEMMA StreamType ==
  ASSUME TypeOK
  PROVE  /\ Pending \in Seq(OutLines) /\ out \o Pending \in Seq(OutLines)
         /\ Stream \in Seq(OutLines)
<1>1. Pending \in Seq(OutLines)
  BY DEF TypeOK, Pending
<1>2. out \in Seq(OutLines) /\ stdout \in Seq(OutLines)
  BY DEF TypeOK
<1>3. out \o Pending \in Seq(OutLines)
  BY <1>1, <1>2, ConcatProperties
<1> QED
  BY <1>1, <1>2, <1>3, ConcatProperties DEF Stream

LEMMA InitOut == Init => OutInv
<1> SUFFICES ASSUME Init PROVE OutInv
  OBVIOUS
<1>1. TypeOK
  BY InitType
<1>2. out = <<>> /\ stdout = <<>> /\ pc = "readOut" /\ child = "running" /\ written = 0
  BY DEF Init
<1>3. Stream = <<>>
  BY <1>2 DEF Stream, Pending
<1>4. StreamInv
  <2>1. \A n \in Outs : ~(n <= 0)
    BY <1>1, RankType DEF Outs
  <2>2. Rank(written) = 0 /\ Len(Stream) = 0 /\ 1..Len(Stream) = {}
    BY <1>1, <1>2, <1>3, RankType
  <2> QED
    BY <1>2, <2>1, <2>2 DEF StreamInv
<1> QED
  BY <1>1, <1>2, <1>4 DEF OutInv, EndInv

\* Only writing to stdout changes the stream.
LEMMA StreamKept ==
  ASSUME TypeOK, [Next]_vars
  PROVE  \/ /\ Writes /\ IsOut(program[written + 1])
            /\ Stream' = Append(Stream, program[written + 1])
         \/ /\ Writes /\ ~IsOut(program[written + 1])
            /\ Stream' = Stream
         \/ Stream' = Stream /\ written' = written
<1>t. /\ out \in Seq(OutLines) /\ stdout \in Seq(OutLines) /\ Pending \in Seq(OutLines)
      /\ out \o Pending \in Seq(OutLines) /\ output \in OutLines \cup {EOF} /\ EOF \notin OutLines
  BY StreamType, CmdsAssumption DEF TypeOK
<1>1. CASE Writes
  <2>1. UNCHANGED <<pc, output, out>> /\ Pending' = Pending
    BY <1>1 DEF Writes, Pending
  <2>2. CASE IsOut(program[written + 1]) /\ stdout' = Append(stdout, program[written + 1])
    <3>1. program[written + 1] \in OutLines
      BY <2>2 DEF IsOut
    <3>2. Append(stdout, program[written + 1]) = stdout \o <<program[written + 1]>>
      BY <1>t, <3>1, AppendIsConcat
    <3>3. Stream' = (out \o Pending) \o (stdout \o <<program[written + 1]>>)
      BY <2>1, <2>2, <3>2 DEF Stream
    <3>4. <<program[written + 1]>> \in Seq(OutLines)
      BY <3>1
    <3>5. Stream' = ((out \o Pending) \o stdout) \o <<program[written + 1]>>
      BY <1>t, <3>3, <3>4, ConcatAssociative
    <3> QED
      BY <1>1, <2>2, <3>1, <3>5, StreamType, AppendIsConcat DEF Stream
  <2>3. CASE IsErr(program[written + 1]) /\ UNCHANGED stdout
    BY <1>1, <2>1, <2>3, CmdsAssumption DEF Stream, IsErr, IsOut
  <2> QED
    BY <1>1, <2>2, <2>3 DEF Writes
<1>2. CASE ReadOut
  <2>1. pc = "readOut" /\ pc' = "readErr" /\ out' = out /\ written' = written
    BY <1>2 DEF ReadOut
  <2>2. Pending = <<>>
    BY <2>1 DEF Pending
  <2>3. CASE stdout # <<>> /\ output' = Head(stdout) /\ stdout' = Tail(stdout)
    <3>1. Head(stdout) \in OutLines /\ Tail(stdout) \in Seq(OutLines)
      BY <1>t, <2>3, TailShorter
    <3>2. Pending' = <<Head(stdout)>> /\ <<Head(stdout)>> \in Seq(OutLines)
      BY <1>t, <2>1, <2>3, <3>1 DEF Pending
    <3>3. stdout = <<Head(stdout)>> \o Tail(stdout)
      BY <1>t, <2>3, <3>1
    <3>4. Stream' = out \o (<<Head(stdout)>> \o Tail(stdout))
      BY <1>t, <2>1, <2>3, <3>1, <3>2, ConcatAssociative DEF Stream
    <3>5. Stream = out \o stdout
      BY <1>t, <2>2, ConcatEmptySeq DEF Stream
    <3> QED
      BY <2>1, <3>3, <3>4, <3>5
  <2>4. CASE output' = EOF /\ UNCHANGED stdout
    <3>1. Pending' = <<>>
      BY <2>4 DEF Pending
    <3> QED
      BY <2>1, <2>2, <2>4, <3>1 DEF Stream
  <2> QED
    BY <1>2, <2>3, <2>4 DEF ReadOut
<1>3. CASE ReadErr
  <2>1. UNCHANGED <<output, out, stdout, written>> /\ pc = "readErr" /\ pc' = "check"
    BY <1>3 DEF ReadErr
  <2> QED
    BY <2>1 DEF Stream, Pending
<1>4. CASE GoesOn
  <2>1. /\ pc = "check" /\ pc' = "readOut" /\ UNCHANGED <<output, stdout, written>>
        /\ out' = IF output = EOF THEN out ELSE Append(out, output)
    BY <1>4 DEF GoesOn
  <2>2. Pending' = <<>>
    BY <2>1 DEF Pending
  <2>3. out' = out \o Pending
    <3>1. CASE output = EOF
      BY <1>t, <2>1, <3>1, ConcatEmptySeq DEF Pending
    <3>2. CASE output # EOF
      BY <1>t, <2>1, <3>2, AppendIsConcat DEF Pending
    <3> QED
      BY <3>1, <3>2
  <2>4. out' \o Pending' = out \o Pending
    BY <1>t, <2>2, <2>3, ConcatEmptySeq
  <2> QED
    BY <2>1, <2>4 DEF Stream
<1>5. CASE Stops
  <2>1. /\ pc = "check" /\ output = EOF /\ pc' \in {"exited", "returned"}
        /\ UNCHANGED <<output, out, stdout, written>>
    BY <1>5 DEF Stops, LoopOver
  <2> QED
    BY <2>1 DEF Stream, Pending
<1>6. CASE Closes \/ Ends \/ UNCHANGED vars
  BY <1>6 DEF Closes, Ends, vars, Stream, Pending
<1> QED
  BY <1>1, <1>2, <1>3, <1>4, <1>5, <1>6 DEF Next, Command, Script, Finished

LEMMA NextOut == OutInv /\ [Next]_vars => OutInv'
<1> SUFFICES ASSUME OutInv, [Next]_vars PROVE OutInv'
  OBVIOUS
<1>t. /\ TypeOK /\ TypeOK' /\ written \in 0..Len(program) /\ Len(program) \in Nat
      /\ DOMAIN program = 1..Len(program) /\ written \in Nat /\ Rank(written) \in Nat
      /\ Stream \in Seq(OutLines)
  <2>1. TypeOK /\ TypeOK'
    BY NextType DEF OutInv
  <2>2. Len(program) \in Nat /\ DOMAIN program = 1..Len(program)
    BY <2>1, RankType
  <2>3. written \in 0..Len(program)
    BY <2>1 DEF TypeOK
  <2>4. written \in Nat
    BY <2>2, <2>3
  <2>5. Rank(written) \in Nat
    BY <2>1, <2>4, RankType
  <2>6. Stream \in Seq(OutLines)
    BY <2>1, StreamType
  <2> QED
    BY <2>1, <2>2, <2>3, <2>4, <2>5, <2>6
<1>p. program' = program
  BY DEF Next, Command, Script, Finished, Writes, Closes, Ends, ReadOut, ReadErr, GoesOn,
         Stops, vars, command
<1>r. Outs' = Outs /\ \A n : Rank(n)' = Rank(n)
  BY <1>p DEF Outs, IsOut, Rank
<1>1. StreamInv'
  <2>1. CASE Stream' = Stream /\ written' = written
    BY <1>p, <1>r, <2>1 DEF OutInv, StreamInv
  <2>2. CASE Writes
    <3>0. written' = written + 1 /\ written + 1 \in DOMAIN program
      BY <1>t, <2>2 DEF Writes
    <3>1. CASE IsOut(program[written + 1]) /\ Stream' = Append(Stream, program[written + 1])
      <4>1. written + 1 \in Outs /\ Rank(written + 1) = Rank(written) + 1
        BY <1>t, <3>0, <3>1, RankNext DEF Outs
      <4>2. /\ Len(Stream') = Rank(written) + 1
            /\ Stream'[Rank(written) + 1] = program[written + 1]
            /\ \A k \in 1..Rank(written) : Stream'[k] = Stream[k]
        <5>1. Len(Stream) = Rank(written) /\ program[written + 1] \in OutLines
          BY <3>1 DEF OutInv, StreamInv, IsOut
        <5> QED
          BY <1>t, <3>1, <5>1, AppendProperties
      <4>3. ASSUME NEW n \in Outs, n <= written + 1 PROVE Stream'[Rank(n)] = program[n]
        <5>1. CASE n = written + 1
          BY <4>1, <4>2, <5>1
        <5>2. CASE n <= written
          <6>1. Rank(n) \in 1..Rank(written)
            BY <1>t, <5>2, RankOrder
          <6> QED
            BY <4>2, <5>2, <6>1 DEF OutInv, StreamInv
        <5> QED
          BY <1>t, <4>3, <5>1, <5>2, RankOrder
      <4>4. ASSUME NEW k \in 1..Rank(written) + 1
            PROVE  \E n \in Outs : n <= written + 1 /\ Rank(n) = k
        <5>1. CASE k = Rank(written) + 1
          BY <1>t, <4>1, <5>1
        <5>2. CASE k \in 1..Rank(written)
          <6>1. PICK n \in Outs : n <= written /\ Rank(n) = k
            BY <5>2 DEF OutInv, StreamInv
          <6>2. n <= written + 1
            BY <1>t, <6>1, RankOrder
          <6> QED
            BY <6>1, <6>2
        <5> QED
          BY <1>t, <5>1, <5>2
      <4> QED
        BY <1>p, <1>r, <3>0, <4>1, <4>2, <4>3, <4>4 DEF StreamInv
    <3>2. CASE ~IsOut(program[written + 1]) /\ Stream' = Stream
      <4>1. written + 1 \notin Outs /\ Rank(written + 1) = Rank(written)
        BY <1>t, <3>2, RankNext DEF Outs
      <4>2. \A n \in Outs : n <= written + 1 <=> n <= written
        BY <1>t, <4>1 DEF Outs
      <4> QED
        BY <1>p, <1>r, <3>0, <3>2, <4>1, <4>2 DEF OutInv, StreamInv
    <3> QED
      BY <1>t, <2>1, <3>1, <3>2, StreamKept
  <2> QED
    BY <1>t, <2>1, <2>2, StreamKept
<1>2. EndInv'
  <2>1. CASE Writes
    BY <1>p, <2>1 DEF Writes, OutInv, EndInv
  <2>2. CASE ReadOut \/ ReadErr \/ GoesOn
    BY <1>p, <2>2, CmdsAssumption DEF ReadOut, ReadErr, GoesOn, OutInv, EndInv, TypeOK
  <2>3. CASE Closes \/ Ends \/ Stops
    BY <1>p, <2>3 DEF Closes, Ends, Stops, LoopOver, OutInv, EndInv
  <2>4. CASE UNCHANGED vars
    BY <1>p, <2>4 DEF vars, OutInv, EndInv
  <2> QED
    BY <2>1, <2>2, <2>3, <2>4 DEF Next, Command, Script, Finished
<1> QED
  BY <1>t, <1>1, <1>2 DEF OutInv

\* What is returned.
LEMMA Returned ==
  ASSUME OutInv, pc = "returned"
  PROVE  /\ Len(out) = Cardinality(Outs)
         /\ \A n \in Outs : out[Rank(n)] = program[n]
         /\ \A k \in 1..Len(out) : \E n \in Outs : Rank(n) = k
<1>1. stdout = <<>> /\ written = Len(program) /\ Pending = <<>>
  BY DEF OutInv, EndInv, Pending
<1>2. Stream = out
  BY <1>1, ConcatEmptySeq DEF Stream, OutInv, TypeOK
<1>3. TypeOK /\ \A n \in Outs : n <= written
  BY <1>1, RankType DEF OutInv, Outs
<1> QED
  BY <1>1, <1>2, <1>3, RankType DEF OutInv, StreamInv

\* The result is all the command wrote to stdout, in that order, whatever it writes and
\* however early it ends (utils.py:169-175).
THEOREM AllOutput == Spec => []OutputComplete
<1>1. OutInv => OutputComplete
  BY Returned DEF OutputComplete
<1> QED
  BY InitOut, NextOut, <1>1, PTL DEF Spec

-----------------------------------------------------------------------------
(* Credentials.                                                             *)

\* Lines are assigned after the command has returned.
LoopInv ==
    /\ assigned \in 0..Len(out)
    /\ pc # "returned" => assigned = 0 /\ stage = "command"
    /\ stage # "command" => assigned = Len(out)

\* A variable has the value of the last line so far that sets it, or the caller's.
LastOfLines(name, k) ==
    /\ Key[out[k]] = name /\ \A j \in k + 1..assigned : Key[out[j]] # name
    /\ name \in DOMAIN environ /\ environ[name] = Value[out[k]]

OfCaller(name) ==
    /\ \A k \in 1..assigned : Key[out[k]] # name
    /\ name \in DOMAIN environ <=> name \in DOMAIN caller
    /\ name \in DOMAIN caller => environ[name] = caller[name]

EnvInv == \A name \in Names : OfCaller(name) \/ \E k \in 1..assigned : LastOfLines(name, k)

\* A client is made of complete credentials of the environment.
ClientInv == stage = "ready" => Complete /\ client = NewClient

CInv == OutInv /\ LoopInv /\ EnvInv /\ ClientInv

LEMMA InitCredentials == CredentialsInit => CInv
<1> SUFFICES ASSUME CredentialsInit PROVE CInv
  OBVIOUS
<1>1. OutInv /\ out \in Seq(OutLines)
  BY InitOut DEF CredentialsInit, OutInv, TypeOK
<1>2. assigned = 0 /\ environ = caller /\ stage = "command" /\ pc = "readOut"
  BY DEF CredentialsInit, Init
<1>3. LoopInv
  BY <1>1, <1>2 DEF LoopInv
<1>4. EnvInv /\ ClientInv
  BY <1>2 DEF EnvInv, OfCaller, ClientInv
<1> QED
  BY <1>1, <1>3, <1>4 DEF CInv

\* The command and its output before anything is assigned.
LEMMA CommandsStep ==
  ASSUME CInv, Commands
  PROVE  CInv'
<1>1. pc # "returned" /\ [Next]_vars /\ UNCHANGED <<caller, environ, assigned, stage, client>>
  BY DEF Commands, Next, credentials
<1>2. OutInv' /\ out' \in Seq(OutLines)
  BY <1>1, NextOut DEF CInv, OutInv, TypeOK
<1>3. assigned = 0 /\ stage = "command"
  BY <1>1 DEF CInv, LoopInv
<1>4. LoopInv'
  BY <1>1, <1>2, <1>3 DEF LoopInv
<1>5. \A name \in Names : OfCaller(name)
  BY <1>3 DEF CInv, EnvInv
<1>6. EnvInv' /\ ClientInv'
  BY <1>1, <1>3, <1>5 DEF EnvInv, OfCaller, ClientInv
<1> QED
  BY <1>2, <1>4, <1>6 DEF CInv

\* One line more: it is the last that sets its variable, and changes no other.
LEMMA AssignStep ==
  ASSUME CInv, stage = "command", pc = "returned", assigned < Len(out),
         assigned' = assigned + 1, environ' = Assign(environ, out[assigned + 1]),
         UNCHANGED <<vars, caller, stage, client>>
  PROVE  CInv'
<1> DEFINE line == out[assigned + 1]
<1>1. OutInv' /\ out \in Seq(OutLines) /\ out' = out /\ pc' = pc
  BY NextOut DEF CInv, OutInv, TypeOK, vars
<1>2. assigned \in Nat /\ assigned + 1 \in 1..Len(out) /\ line \in OutLines
  BY <1>1 DEF CInv, LoopInv
<1>3. LoopInv' /\ ClientInv'
  BY <1>1, <1>2 DEF LoopInv, ClientInv
<1>4. ASSUME NEW name \in Names
      PROVE  OfCaller(name)' \/ \E k \in 1..assigned' : LastOfLines(name, k)'
  <2>n. name # ""
    <3>1. ASSUME NEW d \in Domains PROVE d.id # "" /\ d.name # ""
      <4>1. /\ d.id \in {"USER_DOMAIN_ID", "PROJECT_DOMAIN_ID"}
            /\ d.name \in {"USER_DOMAIN_NAME", "PROJECT_DOMAIN_NAME"}
        BY DEF Domains
      <4> QED
        BY <4>1
    <3>2. "" \notin DomainNames
      BY <3>1 DEF DomainNames
    <3> QED
      BY <3>2 DEF Names
  <2>0. name # "" /\ (OfCaller(name) \/ \E k \in 1..assigned : LastOfLines(name, k))
    BY <2>n DEF CInv, EnvInv
  <2>1. CASE Key[line] = name
    <3>1. name \in DOMAIN environ' /\ environ'[name] = Value[line]
      BY <2>0, <2>1 DEF Assign
    <3>2. \A j \in assigned' + 1..assigned' : FALSE
      BY <1>2
    <3>3. LastOfLines(name, assigned)'
      BY <1>1, <2>1, <3>1, <3>2 DEF LastOfLines
    <3>4. assigned' \in 1..assigned'
      BY <1>2
    <3> QED
      BY <3>3, <3>4
  <2>2. CASE Key[line] # name
    <3>1. /\ name \in DOMAIN environ' <=> name \in DOMAIN environ
          /\ name \in DOMAIN environ => environ'[name] = environ[name]
      BY <2>2 DEF Assign
    <3>2. CASE OfCaller(name)
      <4>1. \A k \in 1..assigned + 1 : k \in 1..assigned \/ k = assigned + 1
        BY <1>2
      <4> QED
        BY <1>1, <2>2, <3>1, <3>2, <4>1 DEF OfCaller
    <3>3. ASSUME NEW k \in 1..assigned, LastOfLines(name, k)
          PROVE  k \in 1..assigned + 1 /\ LastOfLines(name, k)'
      <4>1. \A j \in k + 1..assigned + 1 : j \in k + 1..assigned \/ j = assigned + 1
        BY <1>2
      <4>2. k \in 1..assigned + 1
        BY <1>2
      <4> QED
        BY <1>1, <2>2, <3>1, <3>3, <4>1, <4>2 DEF LastOfLines
    <3> QED
      BY <2>0, <3>2, <3>3
  <2> QED
    BY <2>1, <2>2
<1> QED
  BY <1>1, <1>3, <1>4 DEF CInv, EnvInv

\* Steps that assign nothing.
LEMMA EnvironKept ==
  ASSUME CInv, UNCHANGED <<vars, caller, environ, assigned>>,
         stage # "command" => stage' # "command",
         stage' # "command" => assigned = Len(out) /\ pc = "returned", ClientInv'
  PROVE  CInv'
<1>1. OutInv' /\ out' = out /\ pc' = pc
  BY NextOut DEF CInv, vars
<1>2. LoopInv'
  BY <1>1 DEF CInv, LoopInv
<1>3. EnvInv'
  BY <1>1 DEF CInv, EnvInv, OfCaller, LastOfLines
<1> QED
  BY <1>1, <1>2, <1>3 DEF CInv

\* What the client is made from does not change with the environment as it is.
LEMMA ClientKept ==
  ASSUME UNCHANGED environ
  PROVE  NewClient' = NewClient /\ Complete' = Complete
<1>1. \A name, default : GetEnvVar(name, default)' = GetEnvVar(name, default)
  BY DEF GetEnvVar
<1>2. ProjectName' = ProjectName /\ Version' = Version
  BY <1>1 DEF ProjectName, Version, GetEnvVar
<1>3. IsV3' = IsV3 /\ PassedOn' = PassedOn
  BY <1>2 DEF IsV3, PassedOn
<1>4. Complete' = Complete
  BY <1>1, <1>2, <1>3 DEF Complete, GetEnvVar
<1>5. NewClient' = NewClient
  BY <1>1, <1>2, <1>3 DEF NewClient, GetEnvVar
<1> QED
  BY <1>4, <1>5

LEMMA NextCredentials == CInv /\ [CredentialsNext]_cvars => CInv'
<1> SUFFICES ASSUME CInv, [CredentialsNext]_cvars PROVE CInv'
  OBVIOUS
<1>l. stage # "command" => assigned = Len(out) /\ pc = "returned"
  BY DEF CInv, LoopInv
<1>1. CASE Commands
  BY <1>1, CommandsStep
<1>2. CASE SourceRcFiles
  <2>1. CASE assigned < Len(out) /\ assigned' = assigned + 1
    <3>1. environ' = Assign(environ, out[assigned']) /\ UNCHANGED stage
      BY <1>2, <2>1 DEF SourceRcFiles, CInv, LoopInv
    <3> QED
      BY <1>2, <2>1, <3>1, AssignStep DEF SourceRcFiles
  <2>2. CASE assigned = Len(out) /\ stage' = "sourced" /\ UNCHANGED <<environ, assigned>>
    <3>1. ClientInv'
      BY <2>2 DEF ClientInv
    <3> QED
      BY <1>2, <2>2, <3>1, EnvironKept DEF SourceRcFiles
  <2> QED
    BY <1>2, <2>1, <2>2 DEF SourceRcFiles
<1>3. CASE CredentialsFail
  <2>1. ClientInv'
    BY <1>3 DEF CredentialsFail, ClientInv
  <2> QED
    BY <1>l, <1>3, <2>1, EnvironKept DEF CredentialsFail
<1>4. CASE Authenticate
  <2>1. ClientInv'
    BY <1>4, ClientKept DEF Authenticate, ClientInv
  <2> QED
    BY <1>l, <1>4, <2>1, EnvironKept DEF Authenticate
<1>5. CASE UNCHANGED cvars
  <2>1. UNCHANGED <<vars, caller, environ, assigned, stage, client>>
    BY <1>5 DEF cvars, credentials
  <2>2. ClientInv'
    BY <2>1, ClientKept DEF CInv, ClientInv
  <2> QED
    BY <1>l, <2>1, <2>2, EnvironKept
<1> QED
  BY <1>1, <1>2, <1>3, <1>4, <1>5 DEF CredentialsNext, CredentialsEnded

LEMMA CredentialsInvariant == CredentialsSpec => []CInv
  BY InitCredentials, NextCredentials, PTL DEF CredentialsSpec

\* The last line that sets a variable is the last the command wrote of those.
LEMMA LastSetting ==
  ASSUME OutInv, pc = "returned", NEW name \in Names, NEW k \in 1..Len(out),
         Key[out[k]] = name, \A j \in k + 1..Len(out) : Key[out[j]] # name
  PROVE  Sets(name) /\ RcValue(name) = Value[out[k]]
<1>t. /\ TypeOK /\ \A n \in Outs : n \in Nat /\ Rank(n) \in 1..Len(out)
      /\ Len(out) \in Nat /\ k \in Nat
  <2>1. TypeOK /\ Len(out) \in Nat
    BY DEF OutInv, TypeOK
  <2>2. ASSUME NEW n \in Outs PROVE n \in Nat /\ Rank(n) \in 1..Len(out)
    <3>1. n \in Nat /\ n <= Len(program) /\ Len(program) \in Nat
      BY <2>1, RankType DEF Outs
    <3>2. Rank(n) \in Nat \ {0} /\ Rank(n) <= Rank(Len(program))
      BY <2>1, <3>1, RankOrder
    <3>3. Rank(Len(program)) = Len(out)
      BY <2>1, RankType, Returned
    <3> QED
      BY <2>1, <3>1, <3>2, <3>3
  <2> QED
    BY <2>1, <2>2
<1>1. PICK n \in Outs : Rank(n) = k
  BY Returned
<1>2. program[n] = out[k]
  BY <1>1, Returned
<1>3. n \in Setting(name)
  BY <1>2 DEF Setting
<1>4. ASSUME NEW m \in Setting(name) PROVE n >= m
  <2>1. m \in Outs /\ Key[out[Rank(m)]] = name
    BY Returned DEF Setting
  <2>2. ~(Rank(m) > k)
    BY <1>t, <2>1
  <2>3. n < m => Rank(m) > k
    BY <1>t, <1>1, <2>1, RankOrder
  <2> QED
    BY <1>t, <2>1, <2>2, <2>3
<1>5. \A x \in Setting(name) : (\A y \in Setting(name) : x >= y) => x = n
  BY <1>t, <1>3, <1>4 DEF Setting
<1>6. Max(Setting(name)) = n
  BY <1>3, <1>4, <1>5 DEF Max
<1> QED
  BY <1>2, <1>3, <1>6 DEF Sets, RcValue

\* Nothing sets a variable that no line read sets.
LEMMA NoSetting ==
  ASSUME OutInv, pc = "returned", NEW name \in Names,
         \A k \in 1..Len(out) : Key[out[k]] # name
  PROVE  ~Sets(name)
<1> SUFFICES ASSUME NEW n \in Setting(name) PROVE FALSE
  BY DEF Sets
<1>1. n \in Outs /\ Key[out[Rank(n)]] = name
  BY Returned DEF Setting
<1>2. Rank(n) \in 1..Len(out)
  <2>1. TypeOK /\ Len(out) \in Nat /\ Len(out) = Cardinality(Outs)
    BY Returned DEF OutInv, TypeOK
  <2>2. n \in Nat /\ n <= Len(program) /\ Len(program) \in Nat
    BY <1>1, <2>1, RankType DEF Outs
  <2>3. Rank(n) \in Nat \ {0} /\ Rank(n) <= Rank(Len(program))
    BY <1>1, <2>1, <2>2, RankOrder
  <2> QED
    BY <2>1, <2>3, RankType
<1> QED
  BY <1>1, <1>2

LEMMA RcFile == CInv => RcWins
<1> SUFFICES ASSUME CInv, stage # "command", NEW name \in Names
             PROVE  IF Sets(name) THEN name \in DOMAIN environ /\ environ[name] = RcValue(name)
                    ELSE IF name \in DOMAIN caller
                    THEN name \in DOMAIN environ /\ environ[name] = caller[name]
                    ELSE name \notin DOMAIN environ
  BY DEF RcWins
<1>1. OutInv /\ pc = "returned" /\ assigned = Len(out)
  BY DEF CInv, LoopInv
<1>2. CASE OfCaller(name)
  <2>1. ~Sets(name)
    BY <1>1, <1>2, NoSetting DEF OfCaller
  <2> QED
    BY <1>2, <2>1 DEF OfCaller
<1>3. ASSUME NEW k \in 1..assigned, LastOfLines(name, k)
      PROVE  Sets(name) /\ name \in DOMAIN environ /\ environ[name] = RcValue(name)
  <2>1. Sets(name) /\ RcValue(name) = Value[out[k]]
    BY <1>1, <1>3, LastSetting DEF LastOfLines
  <2> QED
    BY <1>3, <2>1 DEF LastOfLines
<1> QED
  BY <1>2, <1>3 DEF CInv, EnvInv

\* What a client holds, in terms of the environment.
LEMMA ClientFields ==
  ASSUME CInv, stage = "ready"
  PROVE  /\ client.plugin = "v3" <=> IsV3
         /\ client.project = ProjectName
         /\ DOMAIN client.given \subseteq Names
         /\ IsV3 => DomainNames \subseteq DOMAIN client.given
         /\ \A name \in DOMAIN client.given : client.given[name] = GetEnvVar(name, Unset)
         /\ IsV3 => client.verify = Trusted(GetEnvVar("VERIFY_CA", "true"),
                                            GetEnvVar("CACERT", Unset))
<1>1. client = NewClient
  BY DEF CInv, ClientInv
<1>2. PassedOn \subseteq Names /\ (IsV3 => DomainNames \subseteq PassedOn)
  BY DEF PassedOn, Names
<1> QED
  BY <1>1, <1>2 DEF NewClient

\* A variable that is the file's alone.
LEMMA VariableOfFile ==
  ASSUME CInv, stage # "command", NEW name \in Names, Undisturbed(name)
  PROVE  /\ name \in DOMAIN environ <=> Sets(name)
         /\ Sets(name) => environ[name] = RcValue(name)
         /\ GetEnvVar(name, Unset) = OfFile(name)
<1>1. RcWins
  BY RcFile
<1>2. /\ name \in DOMAIN environ <=> Sets(name)
      /\ Sets(name) => environ[name] = RcValue(name)
  BY <1>1 DEF RcWins, Undisturbed
<1> QED
  BY <1>2 DEF GetEnvVar, OfFile

LEMMA ClientRc == CInv => ClientOfRc
<1> SUFFICES ASSUME CInv, stage = "ready" PROVE ClientOfRc
  BY DEF ClientOfRc
<1>0. stage # "command"
  OBVIOUS
<1>n. /\ {"PROJECT_NAME", "TENANT_NAME", "IDENTITY_API_VERSION", "VERIFY_CA", "CACERT"}
            \subseteq Names
      /\ \A d \in Domains : d.id \in DomainNames /\ d.name \in DomainNames
      /\ DomainNames \subseteq Names
  BY DEF Names, DomainNames
<1>1. Undisturbed("IDENTITY_API_VERSION") =>
         (client.plugin = "v3" <=> OfFile("IDENTITY_API_VERSION") \in Threes)
  <2> SUFFICES ASSUME Undisturbed("IDENTITY_API_VERSION")
               PROVE  IsV3 <=> OfFile("IDENTITY_API_VERSION") \in Threes
    BY ClientFields
  <2>1. Unset \notin Threes /\ "2.0" \notin Threes
    BY CredentialsAssumption
  <2>2. /\ "IDENTITY_API_VERSION" \in DOMAIN environ <=> Sets("IDENTITY_API_VERSION")
        /\ Sets("IDENTITY_API_VERSION") =>
              environ["IDENTITY_API_VERSION"] = RcValue("IDENTITY_API_VERSION")
    BY <1>0, <1>n, VariableOfFile
  <2> QED
    BY <2>1, <2>2 DEF IsV3, Version, GetEnvVar, OfFile
<1>2. ASSUME NEW name \in DOMAIN client.given, Undisturbed(name)
      PROVE  client.given[name] = OfFile(name)
  BY <1>0, <1>2, ClientFields, VariableOfFile
<1>3. ASSUME Undisturbed("PROJECT_NAME"), Sets("PROJECT_NAME") \/ Undisturbed("TENANT_NAME")
      PROVE  client.project = OfFile(IF Sets("PROJECT_NAME") THEN "PROJECT_NAME"
                                                             ELSE "TENANT_NAME")
  <2>1. /\ "PROJECT_NAME" \in DOMAIN environ <=> Sets("PROJECT_NAME")
        /\ Sets("PROJECT_NAME") => environ["PROJECT_NAME"] = RcValue("PROJECT_NAME")
    BY <1>0, <1>3, <1>n, VariableOfFile
  <2>2. CASE Sets("PROJECT_NAME")
    BY <2>1, <2>2, ClientFields DEF ProjectName, GetEnvVar, OfFile
  <2>3. CASE ~Sets("PROJECT_NAME")
    <3>1. ProjectName = GetEnvVar("TENANT_NAME", Unset)
      BY <2>1, <2>3 DEF ProjectName, GetEnvVar
    <3>2. GetEnvVar("TENANT_NAME", Unset) = OfFile("TENANT_NAME")
      BY <1>0, <1>3, <1>n, <2>3, VariableOfFile
    <3> QED
      BY <2>3, <3>1, <3>2, ClientFields
  <2> QED
    BY <2>2, <2>3
<1>4. ASSUME client.plugin = "v3", NEW d \in Domains,
             Undisturbed(d.id), IsSet(OfFile(d.id)) \/ Undisturbed(d.name)
      PROVE  DomainOf(client.given[d.id], client.given[d.name])
                 = DomainOf(OfFile(d.id), OfFile(d.name))
  <2>1. d.id \in DOMAIN client.given /\ d.name \in DOMAIN client.given
    BY <1>4, <1>n, ClientFields
  <2>2. client.given[d.id] = OfFile(d.id)
    BY <1>2, <1>4, <2>1
  <2>3. CASE IsSet(OfFile(d.id))
    BY <2>2, <2>3 DEF DomainOf
  <2>4. CASE Undisturbed(d.name)
    <3>1. client.given[d.name] = OfFile(d.name)
      BY <1>2, <2>1, <2>4
    <3> QED
      BY <2>2, <3>1
  <2> QED
    BY <1>4, <2>3, <2>4
<1>5. ASSUME client.plugin = "v3", Undisturbed("VERIFY_CA"), Undisturbed("CACERT")
      PROVE  client.verify = Trusted(IF Sets("VERIFY_CA") THEN RcValue("VERIFY_CA") ELSE "true",
                                     OfFile("CACERT"))
  <2>1. GetEnvVar("CACERT", Unset) = OfFile("CACERT")
    BY <1>0, <1>5, <1>n, VariableOfFile
  <2>2. GetEnvVar("VERIFY_CA", "true")
           = IF Sets("VERIFY_CA") THEN RcValue("VERIFY_CA") ELSE "true"
    <3>1. /\ "VERIFY_CA" \in DOMAIN environ <=> Sets("VERIFY_CA")
          /\ Sets("VERIFY_CA") => environ["VERIFY_CA"] = RcValue("VERIFY_CA")
      BY <1>0, <1>5, <1>n, VariableOfFile
    <3> QED
      BY <3>1 DEF GetEnvVar
  <2>3. client.verify = Trusted(GetEnvVar("VERIFY_CA", "true"), GetEnvVar("CACERT", Unset))
    BY <1>5, ClientFields
  <2> QED
    BY <2>1, <2>2, <2>3
<1> QED
  BY <1>1, <1>2, <1>3, <1>4, <1>5 DEF ClientOfRc

\* A variable has the value the RC file gave it last, and where the file is silent the
\* caller's, whatever the file prints and however its lines come through the pipe
\* (utils.py:149-156).
THEOREM RcFileWins == CredentialsSpec => []RcWins
  BY CredentialsInvariant, RcFile, PTL

\* The caller's environment gets into a client only through variables that the RC file
\* leaves out: version, login, project, the domains as keystone reads them and the
\* certificates are the file's unless the caller has a variable of theirs that the file
\* does not set, such as the id of a domain that the file names (utils.py:104-146,
\* osclient.py:28-46).
THEOREM ClientIsOfRc == CredentialsSpec => []ClientOfRc
  BY CredentialsInvariant, ClientRc, PTL
=============================================================================
