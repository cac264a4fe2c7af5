------------------------------ MODULE MiterCheck -------------------------------
(***************************************************************************)
(* checker.cpp: a miter is printed to a file by pointing stdout at it, ABC *)
(* reads the file, stdout is pointed at /dev/null with the array Result as *)
(* its buffer, ABC prints its answer into that buffer, stdout is pointed   *)
(* at /dev/tty, and the descriptor that dup saved is put back.  Each call  *)
(* of the C library or of ABC may fail, and each failure has a return of   *)
(* its own.                                                                *)
(*                                                                         *)
(* A stream is not its descriptor: freopen flushes it and gives it back    *)
(* the descriptor it had, or, when the file cannot be opened, closes both; *)
(* a stream that is closed gets the lowest free descriptor the next time.  *)
(* A buffer given by setbuffer is in use until the next freopen.  Writing  *)
(* to std::cout while stdout is closed makes std::cout bad for good.       *)
(***************************************************************************)
EXTENDS Integers, FiniteSets, Functions

CONSTANTS NoMiter,
          Faults,      \* the calls that may fail: a subset of FaultyCalls
          StaleFiles,  \* what tmp_file may hold before the first call
          MaxCalls     \* bound: miters checked one after the other

FaultyCalls == {"freopen tmp_file", "read_verilog", "freopen /dev/null", "sat",
                "freopen /dev/tty"}

ASSUME NoMiterAssumption == NoMiter \notin {"sat", "unsat"}
ASSUME FaultsAssumption == Faults \subseteq FaultyCalls
\* A file of another user, which cannot be opened for writing, would be read in
\* place of the miter.
ASSUME StaleFilesAssumption ==
    "freopen tmp_file" \in Faults => StaleFiles \subseteq {"none", "empty"}
ASSUME MaxCallsAssumption == MaxCalls \in Nat

VARIABLES fd,        \* descriptor -> what it is open on, or "closed"
          stream,    \* stdout: its descriptor (0: closed), buffer and unwritten text
          coutBad,   \* std::cout has failed
          tmpFile,   \* "none", "empty", or the miter written in it
          network,   \* the network ABC has read last
          result,    \* what is in the memory of the array Result
          written,   \* history: file -> the program's own text it has got
          outer,     \* old_fd of checkMiter(Circuit *); 0 is dup's error
          inner,     \* old_fd of checkMiter(const char *)
          value,     \* what checkMiter(const char *) has returned
          pc,
          question,  \* the miter a check is about
          answer,    \* what checkMiter(Circuit *) has returned last
          calls,     \* history: how many miters were checked
          failed     \* history: the calls that have failed

io == <<fd, stream, coutBad, written>>
abc == <<network, result>>
saved == <<outer, inner>>
caller == <<question, calls>>
vars == <<io, abc, saved, caller, tmpFile, pc, value, answer, failed>>

Descriptors == 1..4
Free == {d \in Descriptors : fd[d] = "closed"}
Lowest(S) == CHOOSE d \in S : \A e \in S : d <= e

Init ==
    /\ fd = [d \in Descriptors |-> IF d = 1 THEN "out" ELSE "closed"]
    /\ stream = [fd |-> 1, buffer |-> "own", text |-> {}]
    /\ coutBad = FALSE
    /\ tmpFile \in StaleFiles
    /\ network = "none" /\ result = "garbage"
    /\ written = [file \in {"out", "tmp", "null", "tty"} |-> {}]
    /\ outer = 0 /\ inner = 0
    /\ pc = "idle" /\ question = NoMiter /\ value = TRUE /\ answer = TRUE
    /\ calls = 0 /\ failed = {}

-------------------------------------------------------------------------------
(***************************************************************************)
(* The C library.                                                          *)
(***************************************************************************)
\* What a flush of stdout adds to the file it is on.  A buffer in a stack frame
\* that is gone has whatever later calls have put there.
Flushed ==
    IF stream.fd = 0 THEN written
    ELSE [written EXCEPT ![fd[stream.fd]] =
             @ \cup (IF stream.buffer = "dead" THEN {"garbage"} ELSE stream.text)]

\* printf: the text stays in the buffer.
Printed(text) == IF stream.fd = 0 THEN stream ELSE [stream EXCEPT !.text = @ \cup {text}]

\* freopen(file, ..., stdout) that succeeds, given the table of descriptors.
Reopened(file) ==
    LET d == IF stream.fd = 0 THEN Lowest(Free) ELSE stream.fd
    IN  /\ fd' = [fd EXCEPT ![d] = file]
        /\ stream' = [fd |-> d, buffer |-> "own", text |-> {}]
        /\ written' = Flushed

Closed == [fd |-> 0, buffer |-> "own", text |-> {}]
WithoutStream == [d \in Descriptors |-> IF d = stream.fd THEN "closed" ELSE fd[d]]

\* freopen that fails.
ReopenFailed ==
    /\ fd' = WithoutStream
    /\ stream' = Closed
    /\ written' = Flushed

\* Mutant: the descriptor that was saved stays open.
Unclosed(table, old) ==
    IF old = 0 THEN table ELSE [table EXCEPT ![1] = table[old]]

\* dup2(old_fd, 1); close(old_fd)
Restored(table, old) ==
    IF old = 0 THEN table ELSE [table EXCEPT ![1] = table[old], ![old] = "closed"]

Fails(call) == call \in Faults /\ failed' = failed \cup {call}

-------------------------------------------------------------------------------
(***************************************************************************)
(* The program between checks, and the two functions.                      *)
(***************************************************************************)
\* log: the program prints a line of its own.
Log ==
    /\ pc = "idle"
    /\ stream' = Printed("line")
    /\ UNCHANGED <<abc, saved, caller, fd, coutBad, tmpFile, written, pc, value, answer, failed>>

\* checkMiter(Circuit *), to the dup.
Call ==
    /\ pc = "idle" /\ calls < MaxCalls
    /\ question' \in {"sat", "unsat"}
    /\ outer' = Lowest(Free)
    /\ fd' = [fd EXCEPT ![Lowest(Free)] = fd[1]]
    /\ pc' = "redirect" /\ calls' = calls + 1
    /\ UNCHANGED <<abc, stream, coutBad, tmpFile, written, inner, value, answer, failed>>

Redirect ==
    /\ pc = "redirect"
    /\ \/ Reopened("tmp") /\ tmpFile' = "empty" /\ UNCHANGED failed
       \/ Fails("freopen tmp_file") /\ ReopenFailed /\ UNCHANGED tmpFile
    /\ pc' = "print"
    /\ UNCHANGED <<abc, saved, caller, coutBad, value, answer>>

\* miter->print() writes with std::cout and std::endl.
PrintMiter ==
    /\ pc = "print"
    /\ coutBad' = (coutBad \/ stream.fd = 0)
    /\ tmpFile' = IF coutBad' THEN tmpFile ELSE question
    /\ pc' = "save"
    /\ UNCHANGED <<abc, saved, caller, fd, stream, written, value, answer, failed>>

\* checkMiter(const char *), to the dup.
Save ==
    /\ pc = "save"
    /\ inner' = IF fd[1] = "closed" THEN 0 ELSE Lowest(Free)
    /\ fd' = [d \in Descriptors |-> IF d = inner' THEN fd[1] ELSE fd[d]]
    /\ pc' = "read"
    /\ UNCHANGED <<abc, caller, stream, coutBad, tmpFile, written, outer, value, answer, failed>>

\* Mutant: the call is tried again until it does not fail.
Retries(newStream) ==
    /\ stream' = newStream
    /\ UNCHANGED <<fd, pc, value, written>>

\* The early returns: the error value -1, which the caller makes true.
ReturnsError(newStream) ==
    /\ value' = TRUE
    /\ stream' = newStream
    /\ fd' = Restored(fd, inner)
    /\ pc' = "restore"
    /\ UNCHANGED written

\* The same after freopen has closed stdout.
ReturnsErrorClosed ==
    /\ fd' = Restored(WithoutStream, inner)
    /\ stream' = Closed
    /\ written' = Flushed
    /\ value' = TRUE
    /\ pc' = "restore"

\* ABC keeps the network it had when a file cannot be read.
Read ==
    /\ pc = "read"
    /\ \/ /\ tmpFile \in {"sat", "unsat"}
          /\ network' = tmpFile
          /\ pc' = "null"
          /\ UNCHANGED <<fd, stream, written, value, failed>>
       \/ /\ \/ tmpFile \in {"none", "empty"} /\ UNCHANGED failed
             \/ Fails("read_verilog")
          /\ ReturnsError(Printed("line"))
          /\ UNCHANGED network
    /\ UNCHANGED <<saved, caller, coutBad, tmpFile, result, answer>>

OpenNull ==
    /\ pc = "null"
    /\ \/ Reopened("null") /\ pc' = "setbuffer" /\ UNCHANGED <<value, failed>>
       \/ Fails("freopen /dev/null") /\ ReturnsErrorClosed
    /\ UNCHANGED <<abc, saved, caller, coutBad, tmpFile, answer>>

\* Mutant: the buffer stays the stream's own.
KeepBuffer ==
    /\ pc = "setbuffer"
    /\ pc' = "sat"
    /\ UNCHANGED <<io, abc, saved, caller, tmpFile, value, answer, failed>>

SetBuffer ==
    /\ pc = "setbuffer"
    /\ stream' = [stream EXCEPT !.buffer = "Result"]
    /\ pc' = "sat"
    /\ UNCHANGED <<abc, saved, caller, fd, coutBad, tmpFile, written, value, answer, failed>>

\* Mutant: the program reports before stdout is back.
SatReported ==
    /\ pc = "sat"
    /\ stream' = [stream EXCEPT !.text = @ \cup {network, "line"}]
    /\ result' = IF stream.buffer = "Result" THEN network ELSE result
    /\ pc' = "tty"
    /\ UNCHANGED <<saved, caller, fd, written, value, coutBad, tmpFile, network, answer, failed>>

\* When `sat' fails, checkMiter returns while stdout has a buffer in its frame.
Sat ==
    /\ pc = "sat"
    /\ \/ /\ stream' = Printed(network)
          /\ result' = IF stream.buffer = "Result" THEN network ELSE result
          /\ pc' = "tty"
          /\ UNCHANGED <<fd, written, value, failed>>
       \/ /\ Fails("sat")
          /\ ReturnsError([Printed("line") EXCEPT !.buffer = "dead"])
          /\ UNCHANGED result
    /\ UNCHANGED <<saved, caller, coutBad, tmpFile, network, answer>>

OpenTty ==
    /\ pc = "tty"
    /\ \/ Reopened("tty") /\ pc' = "verdict" /\ UNCHANGED <<value, failed>>
       \/ Fails("freopen /dev/tty") /\ ReturnsErrorClosed
    /\ UNCHANGED <<abc, saved, caller, coutBad, tmpFile, answer>>

\* strstr(Result, "UNSATISFIABLE"), after the descriptor is back.
Verdict ==
    /\ pc = "verdict"
    /\ value' = (result = "unsat")
    /\ stream' = Printed("line")
    /\ fd' = Restored(fd, inner)
    /\ pc' = "restore"
    /\ UNCHANGED <<abc, saved, caller, coutBad, tmpFile, written, answer, failed>>

\* The end of checkMiter(Circuit *): unlink, dup2, close.
Restore ==
    /\ pc = "restore"
    /\ tmpFile' = "none"
    /\ fd' = Restored(fd, outer)
    /\ question' = NoMiter
    /\ answer' = value
    /\ pc' = "idle"
    /\ UNCHANGED <<abc, saved, stream, coutBad, written, value, calls, failed>>

Step ==
    Redirect \/ PrintMiter \/ Save \/ Read \/ OpenNull \/ SetBuffer \/ Sat \/ OpenTty
    \/ Verdict \/ Restore

Next == Log \/ Call \/ Step

\* The program is sequential: a check that has begun goes on, and ABC's `sat',
\* which is given no limits, returns.
Spec == Init /\ [][Next]_vars /\ WF_vars(Step)

-------------------------------------------------------------------------------
(***************************************************************************)
(* Properties.                                                             *)
(***************************************************************************)
Promise == INSTANCE Checker WITH faulty <- (failed # {})

\* checkMiter is a Checker: whatever fails, and in whatever state earlier failures
\* have left stdout, a miter that cannot be true is not said to be one that can,
\* and as long as nothing has failed every answer is right.
AnswersRight == Promise!Spec

\* Every call returns, whatever fails in it.
CallsReturn == question # NoMiter ~> question = NoMiter

\* Between calls descriptor 1 is the program's stdout again, nothing saved is
\* left open, and the file is gone, whatever has failed.
DescriptorsRestored ==
    pc = "idle" /\ calls > 0 =>
        /\ fd[1] = "out"
        /\ \A d \in Descriptors \ {1, stream.fd} : fd[d] = "closed"
        /\ tmpFile = "none"

\* "save stdout's descriptor" (checker.cpp:18): as long as no call has failed,
\* but for reading the miter, the stream is on the program's stdout between
\* calls, with a buffer that exists, and what the program prints for its user is
\* not in the file ABC reads, thrown away or mixed with what is not text.
StdoutRestored ==
    pc = "idle" /\ failed \subseteq {"read_verilog"} =>
        /\ stream.fd = 1 /\ fd[1] = "out" /\ stream.buffer # "dead"
        /\ \A file \in {"tmp", "null", "tty"} : "line" \notin written[file]
        /\ "garbage" \notin written["out"]

===============================================================================
