--------------------------- MODULE MiterCheckProofs ----------------------------
(***************************************************************************)
(* checkMiter gives only the answers module Checker allows, for every set  *)
(* of faults, any number of miters and any state earlier failures left.    *)
(***************************************************************************)
EXTENDS MiterCheck, TLAPS

\* stdout keeps the shape of a record.
StreamRecord ==
    stream = [fd |-> stream.fd, buffer |-> stream.buffer, text |-> stream.text]

\* Where the miter in question has got to at each step: into the file, unless
\* writing failed; from there into ABC; from ABC into the memory of Result,
\* because the stream has that buffer; and from there into the answer.
MiterTravels ==
    /\ pc \in {"idle", "redirect"} /\ "freopen tmp_file" \in Faults =>
           tmpFile \in {"none", "empty"}
    /\ pc = "print" => tmpFile \in {"none", "empty"}
    /\ pc \in {"save", "read"} =>
           /\ tmpFile \in {question, "none", "empty"}
           /\ failed = {} => tmpFile = question
    /\ pc \in {"null", "setbuffer", "sat"} => network = question
    /\ pc = "sat" => stream.buffer = "Result"
    /\ pc \in {"tty", "verdict"} => result = question
    /\ pc = "restore" =>
           value = (question = "unsat") \/ (failed # {} /\ value = TRUE)

\* The inductive invariant.  Until a call fails stdout is never closed.
IInv ==
    /\ question \in {"sat", "unsat", NoMiter}
    /\ pc = "idle" <=> question = NoMiter
    /\ StreamRecord
    /\ failed = {} => coutBad = FALSE /\ stream.fd # 0
    /\ MiterTravels

\* freopen leaves a record, and an open stream stays open when it succeeds.
LEMMA ReopenedStream ==
    ASSUME NEW file, Reopened(file)
    PROVE  StreamRecord' /\ (stream.fd # 0 => stream'.fd # 0)
<1> DEFINE d == IF stream.fd = 0 THEN Lowest(Free) ELSE stream.fd
<1>1. stream' = [fd |-> d, buffer |-> "own", text |-> {}]
  BY DEF Reopened
<1>2. stream.fd # 0 => d = stream.fd
  OBVIOUS
<1> HIDE DEF d
<1> QED
  BY <1>1, <1>2 DEF StreamRecord

\* A stream that freopen has closed is a record.
LEMMA ClosedStream == ASSUME stream' = Closed PROVE StreamRecord'
  BY DEF Closed, StreamRecord

\* The invariant holds at first.
LEMMA InitInvariant == Init => IInv
<1> SUFFICES ASSUME Init
             PROVE  IInv
  OBVIOUS
<1>1. StreamRecord /\ stream.fd # 0
  BY DEF Init, StreamRecord
<1>2. MiterTravels
  BY StaleFilesAssumption DEF Init, MiterTravels
<1>3. pc = "idle" /\ question = NoMiter /\ coutBad = FALSE
  BY DEF Init
<1> QED
  BY <1>1, <1>2, <1>3 DEF IInv

\* Every step keeps the invariant.
LEMMA StepInvariant == IInv /\ [Next]_vars => IInv'
<1> SUFFICES ASSUME IInv, [Next]_vars
             PROVE  IInv'
  OBVIOUS
<1> USE NoMiterAssumption, FaultsAssumption DEF IInv, MiterTravels, StreamRecord
<1>1. CASE Log
  BY <1>1 DEF Log, Printed, abc, saved, caller
<1>2. CASE Call
  BY <1>2 DEF Call, abc
<1>3. CASE Redirect
  <2>1. StreamRecord' /\ (failed' = {} => stream'.fd # 0)
    BY <1>3, ReopenedStream, ClosedStream DEF Redirect, ReopenFailed, Fails
  <2>2. tmpFile' \in {"none", "empty"}
    BY <1>3 DEF Redirect, Fails
  <2>3. failed' = {} => failed = {}
    BY <1>3 DEF Redirect, Fails
  <2> QED
    BY <1>3, <2>1, <2>2, <2>3 DEF Redirect, abc, saved, caller
<1>4. CASE PrintMiter
  BY <1>4 DEF PrintMiter, abc, saved, caller
<1>5. CASE Save
  BY <1>5 DEF Save, abc, caller
<1>6. CASE Read
  BY <1>6 DEF Read, ReturnsError, Printed, Fails, saved, caller
<1>7. CASE OpenNull
  <2>1. StreamRecord' /\ (failed' = {} => stream'.fd # 0)
    BY <1>7, ReopenedStream, ClosedStream DEF OpenNull, ReturnsErrorClosed, Fails
  <2>2. pc' = "restore" => failed' # {} /\ value' = TRUE
    BY <1>7 DEF OpenNull, ReturnsErrorClosed, Fails
  <2> QED
    BY <1>7, <2>1, <2>2 DEF OpenNull, ReturnsErrorClosed, abc, saved, caller
<1>8. CASE SetBuffer
  BY <1>8 DEF SetBuffer, abc, saved, caller
<1>9. CASE Sat
  BY <1>9 DEF Sat, ReturnsError, Printed, Fails, saved, caller
<1>10. CASE OpenTty
  <2>1. StreamRecord' /\ (failed' = {} => stream'.fd # 0)
    BY <1>10, ReopenedStream, ClosedStream DEF OpenTty, ReturnsErrorClosed, Fails
  <2>2. pc' = "restore" => failed' # {} /\ value' = TRUE
    BY <1>10 DEF OpenTty, ReturnsErrorClosed, Fails
  <2> QED
    BY <1>10, <2>1, <2>2 DEF OpenTty, ReturnsErrorClosed, abc, saved, caller
<1>11. CASE Verdict
  BY <1>11 DEF Verdict, Printed, abc, saved, caller
<1>12. CASE Restore
  BY <1>12 DEF Restore, abc, saved
<1>13. CASE UNCHANGED vars
  BY <1>13 DEF vars, io, abc, saved, caller
<1> QED
  BY <1>1, <1>2, <1>3, <1>4, <1>5, <1>6, <1>7, <1>8, <1>9, <1>10, <1>11, <1>12, <1>13
  DEF Next, Step

\* A call asks, the end of the call answers, and nothing else is visible.
LEMMA StepImplements ==
    IInv /\ [Next]_vars => [Promise!Next]_<<question, answer, failed # {}>>
<1> SUFFICES ASSUME IInv, [Next]_vars
             PROVE  [Promise!Next]_<<question, answer, failed # {}>>
  OBVIOUS
<1>1. CASE Call
  BY <1>1 DEF Call, IInv, Promise!Next, Promise!Ask
<1>2. CASE Restore
  BY <1>2, NoMiterAssumption DEF Restore, IInv, MiterTravels, Promise!Next, Promise!Answer
<1>3. CASE Redirect \/ Read \/ OpenNull \/ Sat \/ OpenTty
  <2>1. question' = question /\ answer' = answer /\ question # NoMiter
    BY <1>3 DEF Redirect, Read, OpenNull, Sat, OpenTty, caller, IInv
  <2>2. failed' = failed \/ failed' # {}
    BY <1>3 DEF Redirect, Read, OpenNull, Sat, OpenTty, Fails
  <2>3. CASE failed' = failed
    BY <2>1, <2>3
  <2>4. CASE failed' # {}
    BY <2>1, <2>4 DEF Promise!Next, Promise!Fail
  <2> QED
    BY <2>2, <2>3, <2>4
<1>4. CASE Log \/ PrintMiter \/ Save \/ SetBuffer \/ Verdict \/ UNCHANGED vars
  BY <1>4 DEF Log, PrintMiter, Save, SetBuffer, Verdict, vars, caller
<1> QED
  BY <1>1, <1>2, <1>3, <1>4 DEF Next, Step

\* The answers of checkMiter are those the simulator counts on: a miter that can
\* not be true is never reported as one that can, whatever fails, and as long as
\* nothing has failed every answer is right.
THEOREM AnswersAreRight == Spec => AnswersRight
<1>1. Init => Promise!Init
  BY DEF Init, Promise!Init
<1> QED
  BY <1>1, InitInvariant, StepInvariant, StepImplements, PTL DEF Spec, AnswersRight, Promise!Spec

-------------------------------------------------------------------------------
(***************************************************************************)
(* The descriptors and the stream.  Whatever fails, stdout is closed, on   *)
(* descriptor 1, or on 3 once a failure has closed it: 2 holds the dup of  *)
(* the outer function and 3 or 4 that of the inner one.                    *)
(***************************************************************************)
Files == {"out", "tmp", "null", "tty"}
ABCTexts == {"sat", "unsat"}

\* The types of the tables, with the descriptors stdout can be on.
Typed ==
    /\ fd \in [Descriptors -> Files \cup {"closed"}]
    /\ stream \in [fd : {0, 1, 3}, buffer : {"own", "Result", "dead"},
                   text : SUBSET (ABCTexts \cup {"line"})]
    /\ written \in [Files -> SUBSET (ABCTexts \cup {"line", "garbage"})]

\* checkMiter(const char *) has saved a descriptor.
Inside == pc \in {"read", "null", "setbuffer", "sat", "tty", "verdict"}

\* Besides descriptor 1, that of stdout and those saved, all are closed; the first
\* saved is the program's stdout; and stdout is closed past print only when there
\* is no miter to read, for printing to it has failed.
DescriptorsKept ==
    /\ \A d \in Descriptors \ {1, stream.fd} :
           (d = 2 => pc = "idle") /\ (d = inner => ~Inside) => fd[d] = "closed"
    /\ pc # "idle" => outer = 2 /\ fd[2] = "out"
    /\ pc \in {"idle", "redirect"} \/ stream.fd = 3 => fd[1] = "out"
    /\ stream.fd = 3 \/ (stream.fd = 1 /\ pc # "restore") => fd[stream.fd] # "closed"
    /\ Inside => /\ stream.fd = 0 => pc = "read" /\ inner \in {0, 3}
                 /\ stream.fd = 1 => inner = 3
                 /\ stream.fd = 3 => inner = 4 /\ fd[4] = "out"
    /\ stream.fd = 0 /\ pc \in {"save", "read"} => tmpFile \in {"none", "empty"}
    /\ pc = "idle" /\ calls > 0 => tmpFile = "none"

\* While at most reading the miter has failed, the stream is on descriptor 1, that
\* is on the file the step of the check calls for, and the stream is empty when
\* it is given another file, except for what ABC says and for what is printed on
\* the program's own stdout.
StdoutKept ==
    failed \subseteq {"read_verilog"} =>
        /\ stream.fd = 1 /\ stream.buffer # "dead"
        /\ pc \in {"idle", "redirect"} => fd[1] = "out"
        /\ pc \in {"print", "save", "read", "null"} => fd[1] = "tmp"
        /\ pc \in {"setbuffer", "sat", "tty"} => fd[1] = "null"
        /\ pc \notin {"idle", "redirect", "tty", "restore"} => stream.text = {}
        /\ pc = "tty" => stream.text \subseteq ABCTexts
        /\ \A file \in Files \ {"out"} : "line" \notin written[file]
        /\ "garbage" \notin written["out"]

\* What is inductive together with IInv.
RInv == Typed /\ DescriptorsKept /\ StdoutKept

\* Free has a lowest element when some member is below the others.
LEMMA LowestIs ==
    ASSUME NEW S \in SUBSET Int, NEW d \in S, \A e \in S : d <= e
    PROVE  Lowest(S) = d
<1> DEFINE least(e) == e \in S /\ \A x \in S : e <= x
<1>1. least(d)
  OBVIOUS
<1>2. ASSUME NEW e, least(e)
      PROVE  e = d
  <2>1. e \in Int /\ d \in Int /\ d <= e /\ e <= d
    BY <1>2
  <2> QED
    BY <2>1
<1> HIDE DEF least
<1>3. (CHOOSE e : least(e)) = d
  BY <1>1, <1>2
<1> QED
  BY <1>3 DEF Lowest, least

\* dup in checkMiter(Circuit *) finds descriptor 2.
LEMMA OuterDup ==
    ASSUME Typed, DescriptorsKept, pc = "idle"
    PROVE  Lowest(Free) = 2
<1>1. fd[1] = "out" /\ fd[2] = "closed"
  BY DEF Typed, DescriptorsKept, Descriptors, Inside
<1>2. Free \in SUBSET Int /\ 2 \in Free /\ \A e \in Free : 2 <= e
  BY <1>1 DEF Free, Descriptors
<1> QED
  BY <1>2, LowestIs

\* freopen of a closed stdout finds descriptor 3.
LEMMA ReopenDescriptor ==
    ASSUME Typed, DescriptorsKept, pc = "redirect", stream.fd = 0
    PROVE  Lowest(Free) = 3
<1>1. fd[1] = "out" /\ fd[2] = "out" /\ fd[3] = "closed"
  BY DEF Typed, DescriptorsKept, Descriptors, Inside
<1>2. Free \in SUBSET Int /\ 3 \in Free /\ \A e \in Free : 3 <= e
  BY <1>1 DEF Free, Descriptors
<1> QED
  BY <1>2, LowestIs

\* dup in checkMiter(const char *) finds 3, or 4 when stdout is on 3.
LEMMA InnerDup ==
    ASSUME Typed, DescriptorsKept, pc = "save", fd[1] # "closed"
    PROVE  Lowest(Free) = IF stream.fd = 3 THEN 4 ELSE 3
<1>1. fd[2] = "out" /\ fd[4] = "closed"
  BY DEF Typed, DescriptorsKept, Descriptors, Inside
<1>2. CASE stream.fd # 3
  <2>1. fd[3] = "closed"
    BY <1>2 DEF Typed, DescriptorsKept, Descriptors, Inside
  <2>2. Free \in SUBSET Int /\ 3 \in Free /\ \A e \in Free : 3 <= e
    BY <1>1, <2>1 DEF Free, Descriptors
  <2> QED
    BY <1>2, <2>2, LowestIs
<1>3. CASE stream.fd = 3
  <2>1. fd[3] # "closed"
    BY <1>3 DEF DescriptorsKept
  <2>2. Free \in SUBSET Int /\ 4 \in Free /\ \A e \in Free : 4 <= e
    BY <1>1, <2>1 DEF Free, Descriptors
  <2> QED
    BY <1>3, <2>2, LowestIs
<1> QED
  BY <1>2, <1>3

\* They hold at first.
LEMMA InitRestoring == Init => RInv
  BY DEF Init, RInv, Typed, DescriptorsKept, StdoutKept, Descriptors, Files, ABCTexts, Inside

\* A flush keeps the types, and the files' contents are as the stream's were.
LEMMA FlushKeeps ==
    ASSUME Typed, stream.fd # 0 => fd[stream.fd] \in Files
    PROVE  /\ Flushed \in [Files -> SUBSET (ABCTexts \cup {"line", "garbage"})]
           /\ stream.fd # 0 /\ stream.buffer # "dead" =>
                  Flushed = [written EXCEPT ![fd[stream.fd]] = @ \cup stream.text]
<1>1. CASE stream.fd = 0
  BY <1>1 DEF Typed, Flushed
<1>2. CASE stream.fd # 0
  <2> DEFINE file == fd[stream.fd]
             more == IF stream.buffer = "dead" THEN {"garbage"} ELSE stream.text
  <2>1. Flushed = [written EXCEPT ![file] = @ \cup more]
    BY <1>2 DEF Flushed
  <2>2. file \in Files /\ more \in SUBSET (ABCTexts \cup {"line", "garbage"})
    BY <1>2 DEF Typed
  <2>3. stream.buffer # "dead" => more = stream.text
    OBVIOUS
  <2> HIDE DEF more
  <2> QED
    BY <1>2, <2>1, <2>2, <2>3 DEF Typed
<1> QED
  BY <1>1, <1>2

\* An open stdout has an open file when freopen flushes it.
LEMMA OpenStream ==
    ASSUME Typed, DescriptorsKept, stream.fd # 0, pc \in {"redirect", "null", "tty"}
    PROVE  fd[stream.fd] \in Files
  BY DEF Typed, DescriptorsKept, Descriptors

\* What freopen does when it succeeds: stdout is on d, empty, and the tables are typed.
LEMMA FreopenKeeps ==
    ASSUME Typed, DescriptorsKept, pc \in {"redirect", "null", "tty"},
           NEW file \in Files, Reopened(file)
    PROVE  /\ Typed'
           /\ stream'.fd = (IF stream.fd = 0 THEN 3 ELSE stream.fd)
           /\ stream'.buffer = "own" /\ stream'.text = {}
           /\ fd' = [fd EXCEPT ![stream'.fd] = file]
           /\ written' = Flushed
<1> DEFINE d == IF stream.fd = 0 THEN Lowest(Free) ELSE stream.fd
<1>1. d = (IF stream.fd = 0 THEN 3 ELSE stream.fd) /\ d \in {1, 3}
  BY ReopenDescriptor DEF Typed, DescriptorsKept, Inside
<1>2. /\ fd' = [fd EXCEPT ![d] = file]
      /\ stream' = [fd |-> d, buffer |-> "own", text |-> {}]
      /\ written' = Flushed
  BY DEF Reopened
<1>3. Flushed \in [Files -> SUBSET (ABCTexts \cup {"line", "garbage"})]
  BY FlushKeeps, OpenStream
<1> HIDE DEF d
<1> QED
  BY <1>1, <1>2, <1>3 DEF Typed, Descriptors, ABCTexts, Files

\* What freopen does when it fails.
LEMMA FreopenFails ==
    ASSUME Typed, DescriptorsKept, pc \in {"redirect", "null", "tty"},
           stream' = Closed, written' = Flushed
    PROVE  /\ stream' \in [fd : {0, 1, 3}, buffer : {"own", "Result", "dead"},
                            text : SUBSET (ABCTexts \cup {"line"})]
           /\ written' \in [Files -> SUBSET (ABCTexts \cup {"line", "garbage"})]
           /\ stream'.fd = 0
           /\ WithoutStream \in [Descriptors -> Files \cup {"closed"}]
           /\ \A d \in Descriptors :
                  WithoutStream[d] = IF d = stream.fd THEN "closed" ELSE fd[d]
  BY FlushKeeps, OpenStream DEF Closed, Typed, WithoutStream, ABCTexts, Files

\* What the inner function's dup2 and close leave.
LEMMA InnerRestored ==
    ASSUME NEW table \in [Descriptors -> Files \cup {"closed"}], inner \in {0, 3, 4}
    PROVE  /\ Restored(table, inner) \in [Descriptors -> Files \cup {"closed"}]
           /\ Restored(table, inner)[2] = table[2]
           /\ \A d \in {3, 4} : Restored(table, inner)[d] =
                  IF d = inner THEN "closed" ELSE table[d]
           /\ Restored(table, inner)[1] = IF inner = 0 THEN table[1] ELSE table[inner]
  BY DEF Restored, Descriptors

\* The early returns and the last one of checkMiter(const char *) put descriptor
\* inner back, whether stdout is open or freopen has closed it.
LEMMA InnerReturn ==
    ASSUME Typed, DescriptorsKept, Inside, pc' = "restore", NEW table,
           fd' = Restored(table, inner),
           \/ table = fd /\ stream'.fd = stream.fd
           \/ table = WithoutStream /\ stream'.fd = 0,
           UNCHANGED <<outer, calls>>
    PROVE  DescriptorsKept' /\ fd' \in [Descriptors -> Files \cup {"closed"}]
<1>1. inner \in {0, 3, 4}
  BY DEF DescriptorsKept, Inside, Typed
<1>2. /\ table \in [Descriptors -> Files \cup {"closed"}]
      /\ table[2] = fd[2]
      /\ \A d \in {3, 4} : table[d] # fd[d] => d = stream.fd /\ table[d] = "closed"
      /\ \A d \in {3, 4} : d = stream.fd => stream'.fd = d \/ table[d] = "closed"
      /\ stream'.fd \in {0, stream.fd}
      /\ stream'.fd # 0 => table = fd
      /\ stream.fd # 3 => table[3] = fd[3] /\ table[4] = fd[4]
  BY DEF WithoutStream, Typed, Descriptors
<1>3. /\ fd' \in [Descriptors -> Files \cup {"closed"}]
      /\ fd'[2] = table[2]
      /\ \A d \in {3, 4} : fd'[d] = IF d = inner THEN "closed" ELSE table[d]
      /\ fd'[1] = IF inner = 0 THEN table[1] ELSE table[inner]
  BY <1>1, <1>2, InnerRestored
<1>4. stream'.fd = 3 => fd'[1] = "out"
  BY <1>2, <1>3 DEF DescriptorsKept
<1> QED
  BY <1>1, <1>2, <1>3, <1>4 DEF DescriptorsKept, Inside, Typed, Descriptors

\* The return after freopen has closed stdout.
LEMMA ClosedReturn ==
    ASSUME Typed, DescriptorsKept, pc \in {"null", "tty"}, ReturnsErrorClosed,
           UNCHANGED <<outer, calls>>
    PROVE  Typed' /\ DescriptorsKept'
<1>1. /\ stream' = Closed /\ written' = Flushed /\ fd' = Restored(WithoutStream, inner)
      /\ pc' = "restore"
  BY DEF ReturnsErrorClosed
<1>2. /\ stream'.fd = 0
      /\ stream' \in [fd : {0, 1, 3}, buffer : {"own", "Result", "dead"},
                      text : SUBSET (ABCTexts \cup {"line"})]
      /\ written' \in [Files -> SUBSET (ABCTexts \cup {"line", "garbage"})]
  BY <1>1, FreopenFails
<1>3. DescriptorsKept' /\ fd' \in [Descriptors -> Files \cup {"closed"}]
  BY <1>1, <1>2, InnerReturn DEF Inside
<1> QED
  BY <1>2, <1>3 DEF Typed

\* Every step keeps them.
LEMMA StepRestoring == IInv /\ RInv /\ [Next]_vars => RInv'
<1> SUFFICES ASSUME IInv, Typed, DescriptorsKept, StdoutKept, [Next]_vars
             PROVE  Typed' /\ DescriptorsKept' /\ StdoutKept'
  BY DEF RInv
<1>0. \A d \in {1, 2, 3, 4} : d \in Descriptors
  BY DEF Descriptors
<1>1. CASE Log
  BY <1>1 DEF Log, Printed, abc, saved, caller, Typed, DescriptorsKept, StdoutKept, Inside
<1>2. CASE Call
  <2>1. pc = "idle" /\ pc' = "redirect" /\ outer' = 2 /\ fd' = [fd EXCEPT ![2] = "out"]
    BY <1>2, OuterDup DEF Call, DescriptorsKept
  <2>2. UNCHANGED <<stream, written, failed, inner, tmpFile>>
    BY <1>2 DEF Call
  <2> QED
    BY <2>1, <2>2 DEF Typed, DescriptorsKept, StdoutKept, Inside, Descriptors, Files
<1>3. CASE Redirect
  <2>1. pc = "redirect" /\ pc' = "print" /\ UNCHANGED <<outer, inner, calls>>
    BY <1>3 DEF Redirect, saved, caller
  <2>2. CASE Reopened("tmp") /\ UNCHANGED failed
    <3>1. /\ Typed'
          /\ stream'.fd = (IF stream.fd = 0 THEN 3 ELSE stream.fd)
          /\ stream'.buffer = "own" /\ stream'.text = {}
          /\ fd' = [fd EXCEPT ![stream'.fd] = "tmp"]
          /\ written' = Flushed
      BY <2>1, <2>2, FreopenKeeps DEF Files
    <3>2. DescriptorsKept'
      BY <2>1, <3>1 DEF Typed, DescriptorsKept, Inside, Descriptors
    <3>3. ASSUME failed' \subseteq {"read_verilog"}
          PROVE  StdoutKept'
      <4>1. stream.fd = 1 /\ stream.buffer # "dead" /\ fd[1] = "out"
        BY <2>1, <2>2, <3>3 DEF StdoutKept
      <4>2. written' = [written EXCEPT !["out"] = @ \cup stream.text]
        BY <3>1, <4>1, FlushKeeps DEF Files
      <4>3. fd'[1] = "tmp"
        BY <3>1, <4>1 DEF Typed, Descriptors
      <4>4. /\ \A file \in Files \ {"out"} : "line" \notin written'[file]
            /\ "garbage" \notin written'["out"]
        BY <2>2, <3>3, <4>2 DEF StdoutKept, Typed, Files, ABCTexts
      <4> QED
        BY <2>1, <3>1, <4>1, <4>3, <4>4 DEF StdoutKept
    <3> QED
      BY <3>1, <3>2, <3>3 DEF StdoutKept
  <2>3. CASE Fails("freopen tmp_file") /\ ReopenFailed
    <3>1. stream' = Closed /\ written' = Flushed /\ fd' = WithoutStream
      BY <2>3 DEF ReopenFailed
    <3>2. Typed' /\ stream'.fd = 0
          /\ \A d \in Descriptors : fd'[d] = IF d = stream.fd THEN "closed" ELSE fd[d]
      BY <2>1, <3>1, FreopenFails DEF Typed
    <3>3. DescriptorsKept'
      BY <2>1, <3>2 DEF Typed, DescriptorsKept, Inside, Descriptors
    <3>4. StdoutKept'
      BY <2>3 DEF StdoutKept, Fails
    <3> QED
      BY <3>2, <3>3, <3>4
  <2> QED
    BY <1>3, <2>2, <2>3 DEF Redirect
<1>4. CASE PrintMiter
  BY <1>4 DEF PrintMiter, abc, saved, caller, IInv, MiterTravels, Typed, DescriptorsKept,
      StdoutKept, Inside
<1>5. CASE Save
  <2>1. /\ pc = "save" /\ pc' = "read"
        /\ UNCHANGED <<stream, tmpFile, written, outer, calls, failed>>
    BY <1>5 DEF Save, caller
  <2>2. inner' = IF fd[1] = "closed" THEN 0 ELSE IF stream.fd = 3 THEN 4 ELSE 3
    BY <1>5, <2>1, InnerDup DEF Save
  <2>3. fd' = [d \in Descriptors |-> IF d = inner' THEN fd[1] ELSE fd[d]]
    BY <1>5 DEF Save
  <2>4. fd'[1] = fd[1] /\ Typed'
    BY <1>0, <2>1, <2>2, <2>3 DEF Typed
  <2>5. DescriptorsKept'
    BY <2>1, <2>2, <2>3 DEF Typed, DescriptorsKept, Inside, Descriptors
  <2>6. StdoutKept'
    BY <2>1, <2>4 DEF StdoutKept
  <2> QED
    BY <2>4, <2>5, <2>6
<1>6. CASE Read
  <2>1. pc = "read" /\ UNCHANGED <<outer, inner, calls, tmpFile>>
    BY <1>6 DEF Read, saved, caller
  <2>2. CASE pc' = "null" /\ tmpFile \in {"sat", "unsat"} /\ UNCHANGED <<fd, stream, written, failed>>
    BY <2>1, <2>2 DEF Typed, DescriptorsKept, StdoutKept, Inside
  <2>3. CASE ReturnsError(Printed("line")) /\ (UNCHANGED failed \/ Fails("read_verilog"))
    <3>1. /\ fd' = Restored(fd, inner) /\ stream' = Printed("line") /\ pc' = "restore"
          /\ written' = written
      BY <2>3 DEF ReturnsError
    <3>2. /\ stream'.fd = stream.fd /\ stream'.buffer = stream.buffer
          /\ stream' \in [fd : {0, 1, 3}, buffer : {"own", "Result", "dead"},
                          text : SUBSET (ABCTexts \cup {"line"})]
      BY <3>1 DEF Typed, Printed
    <3>3. DescriptorsKept' /\ fd' \in [Descriptors -> Files \cup {"closed"}]
      BY <2>1, <3>1, <3>2, InnerReturn DEF Inside
    <3>4. failed \subseteq failed'
      BY <2>3 DEF Fails
    <3> QED
      BY <3>1, <3>2, <3>3, <3>4 DEF Typed, StdoutKept
  <2> QED
    BY <1>6, <2>2, <2>3 DEF Read
<1>7. CASE OpenNull
  <2>1. pc = "null" /\ UNCHANGED <<outer, inner, calls, tmpFile>>
    BY <1>7 DEF OpenNull, saved, caller
  <2>2. CASE Reopened("null") /\ pc' = "setbuffer" /\ UNCHANGED failed
    <3>0. stream.fd # 0
      BY <2>1 DEF DescriptorsKept, Inside
    <3>1. /\ Typed'
          /\ stream'.fd = stream.fd
          /\ stream'.buffer = "own" /\ stream'.text = {}
          /\ fd' = [fd EXCEPT ![stream.fd] = "null"]
          /\ written' = Flushed
      BY <2>1, <2>2, <3>0, FreopenKeeps DEF Files
    <3>2. DescriptorsKept'
      BY <2>1, <2>2, <3>0, <3>1 DEF Typed, DescriptorsKept, Inside, Descriptors
    <3>3. ASSUME failed' \subseteq {"read_verilog"}
          PROVE  StdoutKept'
      <4>1. stream.fd = 1 /\ stream.buffer # "dead" /\ fd[1] = "tmp" /\ stream.text = {}
        BY <2>1, <2>2, <3>3 DEF StdoutKept
      <4>2. written' = [written EXCEPT !["tmp"] = @ \cup stream.text]
        BY <2>1, <3>1, <4>1, FlushKeeps DEF Files
      <4>3. fd'[1] = "null"
        BY <3>1, <4>1 DEF Typed, Descriptors
      <4>4. /\ \A file \in Files \ {"out"} : "line" \notin written'[file]
            /\ "garbage" \notin written'["out"]
        BY <2>2, <3>3, <4>1, <4>2 DEF StdoutKept, Typed, Files, ABCTexts
      <4> QED
        BY <2>2, <3>1, <4>1, <4>3, <4>4 DEF StdoutKept
    <3> QED
      BY <3>1, <3>2, <3>3 DEF StdoutKept
  <2>3. CASE Fails("freopen /dev/null") /\ ReturnsErrorClosed
    <3>1. Typed' /\ DescriptorsKept'
      BY <2>1, <2>3, ClosedReturn
    <3>2. StdoutKept'
      BY <2>3 DEF StdoutKept, Fails
    <3> QED
      BY <3>1, <3>2
  <2> QED
    BY <1>7, <2>2, <2>3 DEF OpenNull
<1>8. CASE SetBuffer
  BY <1>8 DEF SetBuffer, abc, saved, caller, Typed, DescriptorsKept, StdoutKept, Inside
<1>9. CASE Sat
  <2>1. pc = "sat" /\ UNCHANGED <<outer, inner, calls, tmpFile>> /\ network \in ABCTexts
    BY <1>9, NoMiterAssumption DEF Sat, saved, caller, IInv, MiterTravels, ABCTexts
  <2>2. CASE stream' = Printed(network) /\ pc' = "tty" /\ UNCHANGED <<fd, written, failed>>
    <3>1. /\ stream'.fd = stream.fd /\ stream'.buffer = stream.buffer
          /\ stream'.text \subseteq stream.text \cup {network}
          /\ stream' \in [fd : {0, 1, 3}, buffer : {"own", "Result", "dead"},
                          text : SUBSET (ABCTexts \cup {"line"})]
      BY <2>1, <2>2 DEF Typed, Printed
    <3> QED
      BY <2>1, <2>2, <3>1 DEF Typed, DescriptorsKept, StdoutKept, Inside
  <2>3. CASE Fails("sat") /\ ReturnsError([Printed("line") EXCEPT !.buffer = "dead"])
    <3>1. /\ fd' = Restored(fd, inner) /\ pc' = "restore" /\ written' = written
          /\ stream' = [Printed("line") EXCEPT !.buffer = "dead"]
      BY <2>3 DEF ReturnsError
    <3>2. /\ stream'.fd = stream.fd
          /\ stream' \in [fd : {0, 1, 3}, buffer : {"own", "Result", "dead"},
                          text : SUBSET (ABCTexts \cup {"line"})]
      BY <3>1 DEF Typed, Printed
    <3>3. DescriptorsKept' /\ fd' \in [Descriptors -> Files \cup {"closed"}]
      BY <2>1, <3>1, <3>2, InnerReturn DEF Inside
    <3> QED
      BY <2>3, <3>1, <3>2, <3>3 DEF Typed, StdoutKept, Fails
  <2> QED
    BY <1>9, <2>2, <2>3 DEF Sat
<1>10. CASE OpenTty
  <2>1. pc = "tty" /\ UNCHANGED <<outer, inner, calls, tmpFile>>
    BY <1>10 DEF OpenTty, saved, caller
  <2>2. CASE Reopened("tty") /\ pc' = "verdict" /\ UNCHANGED failed
    <3>0. stream.fd # 0
      BY <2>1 DEF DescriptorsKept, Inside
    <3>1. /\ Typed'
          /\ stream'.fd = stream.fd
          /\ stream'.buffer = "own" /\ stream'.text = {}
          /\ fd' = [fd EXCEPT ![stream.fd] = "tty"]
          /\ written' = Flushed
      BY <2>1, <2>2, <3>0, FreopenKeeps DEF Files
    <3>2. DescriptorsKept'
      BY <2>1, <2>2, <3>0, <3>1 DEF Typed, DescriptorsKept, Inside, Descriptors
    <3>3. ASSUME failed' \subseteq {"read_verilog"}
          PROVE  StdoutKept'
      <4>1. /\ stream.fd = 1 /\ stream.buffer # "dead" /\ fd[1] = "null"
            /\ stream.text \subseteq ABCTexts
        BY <2>1, <2>2, <3>3 DEF StdoutKept
      <4>2. written' = [written EXCEPT !["null"] = @ \cup stream.text]
        BY <2>1, <3>1, <4>1, FlushKeeps DEF Files
      <4>4. /\ \A file \in Files \ {"out"} : "line" \notin written'[file]
            /\ "garbage" \notin written'["out"]
        BY <2>2, <3>3, <4>1, <4>2 DEF StdoutKept, Typed, Files, ABCTexts
      <4> QED
        BY <2>2, <3>1, <4>1, <4>4 DEF StdoutKept
    <3> QED
      BY <3>1, <3>2, <3>3 DEF StdoutKept
  <2>3. CASE Fails("freopen /dev/tty") /\ ReturnsErrorClosed
    <3>1. Typed' /\ DescriptorsKept'
      BY <2>1, <2>3, ClosedReturn
    <3>2. StdoutKept'
      BY <2>3 DEF StdoutKept, Fails
    <3> QED
      BY <3>1, <3>2
  <2> QED
    BY <1>10, <2>2, <2>3 DEF OpenTty
<1>11. CASE Verdict
  <2>1. /\ pc = "verdict" /\ UNCHANGED <<outer, inner, calls, tmpFile, written, failed>>
        /\ fd' = Restored(fd, inner) /\ pc' = "restore" /\ stream' = Printed("line")
    BY <1>11 DEF Verdict, saved, caller
  <2>2. /\ stream'.fd = stream.fd /\ stream'.buffer = stream.buffer
        /\ stream' \in [fd : {0, 1, 3}, buffer : {"own", "Result", "dead"},
                        text : SUBSET (ABCTexts \cup {"line"})]
    BY <2>1 DEF Typed, Printed
  <2>3. DescriptorsKept' /\ fd' \in [Descriptors -> Files \cup {"closed"}]
    BY <2>1, <2>2, InnerReturn DEF Inside
  <2> QED
    BY <2>1, <2>2, <2>3 DEF Typed, StdoutKept
<1>12. CASE Restore
  <2>1. /\ pc = "restore" /\ pc' = "idle" /\ tmpFile' = "none"
        /\ UNCHANGED <<stream, written, failed, calls>>
        /\ outer = 2 /\ fd[2] = "out" /\ fd' = Restored(fd, outer)
    BY <1>12 DEF Restore, saved, DescriptorsKept
  <2>2. Restored(fd, 2) = [fd EXCEPT ![1] = fd[2], ![2] = "closed"]
    BY DEF Restored
  <2>3. Typed' /\ fd'[1] = "out" /\ fd'[2] = "closed" /\ fd'[3] = fd[3] /\ fd'[4] = fd[4]
    BY <2>1, <2>2 DEF Typed, Descriptors, Files
  <2>4. DescriptorsKept'
    BY <2>1, <2>3 DEF Typed, DescriptorsKept, Inside, Descriptors
  <2>5. StdoutKept'
    BY <2>1, <2>3 DEF StdoutKept
  <2> QED
    BY <2>3, <2>4, <2>5
<1>13. CASE UNCHANGED vars
  BY <1>13 DEF vars, io, abc, saved, caller, Typed, DescriptorsKept, StdoutKept, Inside
<1> QED
  BY <1>1, <1>2, <1>3, <1>4, <1>5, <1>6, <1>7, <1>8, <1>9, <1>10, <1>11, <1>12, <1>13
  DEF Next, Step

\* Whatever fails, and however often, descriptor 1 is the program's stdout between
\* checks, no saved descriptor is left open, and the file is gone.
THEOREM DescriptorsAreRestored == Spec => []DescriptorsRestored
<1>1. RInv => DescriptorsRestored
  BY DEF RInv, DescriptorsKept, DescriptorsRestored, Typed, Descriptors, Inside
<1> QED
  BY <1>1, InitInvariant, StepInvariant, InitRestoring, StepRestoring, PTL DEF Spec

\* As long as at most reading the miter has failed, stdout is the program's between
\* checks, and its lines have gone nowhere else.
THEOREM StdoutIsRestored == Spec => []StdoutRestored
<1>1. RInv => StdoutRestored
  BY DEF RInv, StdoutKept, StdoutRestored, Files
<1> QED
  BY <1>1, InitInvariant, StepInvariant, InitRestoring, StepRestoring, PTL DEF Spec

===============================================================================
