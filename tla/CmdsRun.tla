------------------------------- MODULE CmdsRun -------------------------------
(***************************************************************************)
(* Utils.cmds_run of scripts/helper/utils.py, with which the import and    *)
(* the comparison source their credentials: a shell command writes to two  *)
(* pipes, and the script reads a line from each in turn until the command  *)
(* has ended.  The command and its pipes are external.  Callers pass one   *)
(* command; a pipe is measured in lines.                                   *)
(***************************************************************************)
EXTENDS Naturals, Sequences, FiniteSets

CONSTANTS
    OutLines,   \* the lines commands write to stdout
    Programs,   \* what commands write, in order: lines of either stream
    Codes,      \* the return codes they end with
    PipeCap     \* lines a pipe holds

\* A line of stderr either says something or is blank.
ErrLines == {"text", "blank"}
Lines == OutLines \cup ErrLines
IsOut(line) == line \in OutLines
IsErr(line) == line \in ErrLines

\* What readline returns at the end of a file; a line is never empty.
EOF == "eof"

ASSUME CmdsAssumption ==
    /\ OutLines \cap ErrLines = {} /\ EOF \notin OutLines
    /\ Programs \subseteq Seq(Lines)
    /\ Codes \subseteq Nat
    /\ PipeCap \in Nat \ {0}

VARIABLES
    \* the command
    program,    \* all it writes
    written,    \* how many of its lines it has written
    child,      \* running, its pipes closed, or ended so that poll sees it
    code,       \* the return code it ends with
    stdout, stderr,
    \* the script
    pc,
    output,     \* the line of stdout just read; empty at the end of the file
    out, err    \* what has been read so far

command == <<program, code>>
vars == <<command, written, child, stdout, stderr, pc, output, out, err>>

TypeOK ==
    /\ program \in Programs /\ code \in Codes
    /\ written \in 0..Len(program)
    /\ child \in {"running", "closed", "ended"}
    /\ stdout \in Seq(OutLines) /\ Len(stdout) <= PipeCap
    /\ stderr \in Seq(ErrLines) /\ Len(stderr) <= PipeCap
    /\ pc \in {"readOut", "readErr", "check", "returned", "exited"}
    /\ output \in OutLines \cup {EOF}
    /\ out \in Seq(OutLines)
    /\ err \in Seq(ErrLines)

Init ==
    /\ program \in Programs /\ code \in Codes
    /\ written = 0 /\ child = "running"
    /\ stdout = <<>> /\ stderr = <<>>
    /\ pc = "readOut" /\ output = EOF
    /\ out = <<>> /\ err = <<>>

-----------------------------------------------------------------------------
(* The command.  Writing to a full pipe blocks.                            *)

Writes ==
    /\ child = "running" /\ written < Len(program)
    /\ LET line == program[written + 1]
       IN  \/ /\ IsOut(line) /\ Len(stdout) < PipeCap
              /\ stdout' = Append(stdout, line) /\ UNCHANGED stderr
           \/ /\ IsErr(line) /\ Len(stderr) < PipeCap
              /\ stderr' = Append(stderr, line) /\ UNCHANGED stdout
    /\ written' = written + 1
    /\ UNCHANGED <<command, child, pc, output, out, err>>

Closes ==
    /\ child = "running" /\ written = Len(program)
    /\ child' = "closed"
    /\ UNCHANGED <<command, written, stdout, stderr, pc, output, out, err>>

Ends ==
    /\ child = "closed"
    /\ child' = "ended"
    /\ UNCHANGED <<command, written, stdout, stderr, pc, output, out, err>>

-----------------------------------------------------------------------------
(* The script.  Reading a line blocks until there is one or the pipe is     *)
(* closed.                                                                  *)

ReadOut ==
    /\ pc = "readOut"
    /\ \/ /\ stdout # <<>>
          /\ output' = Head(stdout) /\ stdout' = Tail(stdout)
       \/ /\ stdout = <<>> /\ child # "running"
          /\ output' = EOF /\ UNCHANGED stdout
    /\ pc' = "readErr"
    /\ UNCHANGED <<command, written, child, stderr, out, err>>

\* Mutant: reading stderr does not wait.
ReadErr_NoWait ==
    /\ pc = "readErr"
    /\ \/ stderr # <<>> /\ err' = Append(err, Head(stderr)) /\ stderr' = Tail(stderr)
       \/ UNCHANGED <<err, stderr>>
    /\ pc' = "check"
    /\ UNCHANGED <<command, written, child, stdout, output, out>>

ReadErr ==
    /\ pc = "readErr"
    /\ \/ stderr # <<>> /\ err' = Append(err, Head(stderr)) /\ stderr' = Tail(stderr)
       \/ stderr = <<>> /\ child # "running" /\ UNCHANGED <<err, stderr>>
    /\ pc' = "check"
    /\ UNCHANGED <<command, written, child, stdout, output, out>>

\* A failure is one that said something, as far as it has been read.
Failed == code # 0 /\ \E n \in DOMAIN err : err[n] = "text"

\* Mutant: returncode is looked at instead of poll; it stays None until polled.
LoopOver_NoPoll == FALSE

\* Mutant: the loop ends with the command, with output left to read.
LoopOver_AtExit == child = "ended"

\* The end of stdout was read and poll says that the command has ended.
LoopOver == output = EOF /\ child = "ended"

GoesOn ==
    /\ pc = "check"
    /\ ~LoopOver
    /\ pc' = "readOut"
    /\ out' = IF output = EOF THEN out ELSE Append(out, output)
    /\ UNCHANGED <<command, written, child, stdout, stderr, output, err>>

Stops ==
    /\ pc = "check"
    /\ LoopOver
    /\ pc' = IF Failed THEN "exited" ELSE "returned"
    /\ UNCHANGED <<command, written, child, stdout, stderr, output, out, err>>

Finished == pc \in {"returned", "exited"} /\ UNCHANGED vars

Command == Writes \/ Closes \/ Ends
Script == ReadOut \/ ReadErr \/ GoesOn \/ Stops

Next == Command \/ Script \/ Finished

\* Two processes, each of which the operating system lets run.
Spec == Init /\ [][Next]_vars /\ WF_vars(Command) /\ WF_vars(Script)

-----------------------------------------------------------------------------
(* What cmds_run should guarantee.                                          *)

\* The lines of each stream, and how many lines of stdout are among the first n.
Outs == {n \in DOMAIN program : IsOut(program[n])}
Errs == {n \in DOMAIN program : IsErr(program[n])}
Rank(n) == Cardinality(Outs \cap 1..n)

FirstErr(n) == IsErr(program[n]) /\ \A k \in 1..n - 1 : IsOut(program[k])

\* The result is all the command wrote to stdout, in that order, although the loop
\* watches the process as well as the pipe (utils.py:169-175).
OutputComplete ==
    pc = "returned" =>
        /\ Len(out) = Cardinality(Outs)
        /\ \A n \in Outs : out[Rank(n)] = program[n]

\* A failing command whose first line of stderr says something never passes for a
\* success: that line is waited for, however early the command ends
\* (utils.py:171-181).
FailureNoticed ==
    pc = "returned" /\ code # 0 =>
        \A n \in DOMAIN program :
            FirstErr(n) => program[n] = "blank"

\* Reading the pipes in turn comes to an end if each stream fits into its pipe:
\* neither process waits for the other for ever (utils.py:169-175).
EndsIfItFits ==
    (Cardinality(Outs) <= PipeCap /\ Cardinality(Errs) <= PipeCap)
        => <>(pc \in {"returned", "exited"})
=============================================================================
