--------------------------------- MODULE Reader --------------------------------
(***************************************************************************)
(* parse_verilog of verilog.ypp, file after file.  The actions of the      *)
(* grammar work on global lists; a statement that the grammar has no place *)
(* for ends yyparse with an error that parse_verilog does not look at, and *)
(* a name that was not declared ends the program.  The constants a gate    *)
(* may read need no declaration and are left out, like its function.       *)
(***************************************************************************)
EXTENDS Selection, SequencesExt

CONSTANTS Statements,     \* the statements of files: [kind, words], with the
                          \* title of the module in its header, and a
                          \* "broken" one ends in the middle of its words
          NoCircuit,      \* what the caller has before its first call
          MaxStatements,  \* bound: the statements of a file
          MaxGates        \* bound: the gates of a file

ASSUME StatementsAssumption ==
    \A statement \in Statements : statement.words \in Seq(ToSet(statement.words))

VARIABLES file,         \* history: the statements of this file
          section,      \* which parts of the grammar are behind
          items, gates, word_list, circuit_name,
          errors,       \* messages on stderr for this file
          circuit,      \* the circuit parse_verilog returned last, or NoCircuit
          program       \* "runs", "reads", "exit" or "crash"

vars == <<file, section, items, gates, word_list, circuit_name, errors, circuit, program>>

Sections == <<"module", "input", "output", "wire", "gate", "endmodule">>
SectionOf(kind) == CHOOSE n \in DOMAIN Sections : Sections[n] = kind

\* items[word] = type
Marked(map, words, type) ==
    [name \in DOMAIN map \cup words |-> IF name \in words THEN type ELSE map[name]]

Init ==
    /\ file = <<>>
    /\ section = 0
    /\ items = <<>>
    /\ gates = <<>>
    /\ word_list = <<>>
    /\ circuit_name = ""
    /\ errors = 0
    /\ circuit = NoCircuit
    /\ program = "runs"

\* Mutant: the gates of the file before are kept.
BeginUncleared ==
    /\ program = "runs"
    /\ items' = <<>> /\ word_list' = <<>>
    /\ file' = <<>> /\ section' = 0 /\ errors' = 0
    /\ program' = "reads"
    /\ UNCHANGED <<gates, circuit_name, circuit>>

\* A call of parse_verilog.
Begin ==
    /\ program = "runs"
    /\ items' = <<>> /\ gates' = <<>> /\ word_list' = <<>>
    /\ file' = <<>> /\ section' = 0 /\ errors' = 0
    /\ program' = "reads"
    /\ UNCHANGED <<circuit_name, circuit>>

\* The file goes on with a statement of this kind, and the grammar has a place
\* for it.
Reads(statement, kind) ==
    /\ program = "reads"
    /\ Len(file) < MaxStatements
    /\ statement.kind = kind
    /\ IF kind = "module" THEN section = 0
       ELSE section \in 1 .. SectionOf(kind) /\ section # SectionOf("endmodule")
    /\ file' = Append(file, statement)
    /\ section' = SectionOf(kind)

Exit ==
    /\ errors' = errors + 1
    /\ program' = "exit"
    /\ UNCHANGED <<items, gates, word_list, circuit_name, circuit>>

Words(statement) == ToSet(word_list \o statement.words)

ReadModule(statement) ==
    /\ Reads(statement, "module")
    /\ LET words == word_list \o statement.words
       IN  IF ~IsInjective(words) THEN Exit
           ELSE /\ items' = Marked(items, ToSet(words), "port")
                /\ circuit_name' = statement.title
                /\ word_list' = <<>>
                /\ UNCHANGED <<gates, errors, circuit, program>>

ReadInput(statement) ==
    /\ Reads(statement, "input")
    /\ IF \E name \in Words(statement) : name \notin DOMAIN items THEN Exit
       ELSE /\ items' = Marked(items, Words(statement), "input")
            /\ word_list' = <<>>
            /\ UNCHANGED <<gates, circuit_name, errors, circuit, program>>

ReadOutput(statement) ==
    /\ Reads(statement, "output")
    /\ IF \E name \in Words(statement) : name \notin DOMAIN items \/ items[name] = "input"
       THEN Exit
       ELSE /\ items' = Marked(items, Words(statement), "output")
            /\ word_list' = <<>>
            /\ UNCHANGED <<gates, circuit_name, errors, circuit, program>>

\* A name that is declared already stays what it is.
ReadWire(statement) ==
    /\ Reads(statement, "wire")
    /\ items' = Marked(items, Words(statement) \ DOMAIN items, "wire")
    /\ word_list' = <<>>
    /\ UNCHANGED <<gates, circuit_name, errors, circuit, program>>

ReadGate(statement) ==
    /\ Len(gates) < MaxGates
    /\ Reads(statement, "gate")
    /\ IF \E name \in Words(statement) : name \notin DOMAIN items THEN Exit
       ELSE /\ gates' = Append(gates, word_list \o statement.words)
            /\ word_list' = <<>>
            /\ UNCHANGED <<items, circuit_name, errors, circuit, program>>

ReadEnd(statement) ==
    /\ Reads(statement, "endmodule")
    /\ UNCHANGED <<items, gates, word_list, circuit_name, errors, circuit, program>>

-------------------------------------------------------------------------------
(***************************************************************************)
(* The end of parse_verilog: nets and nodes from the lists, and construct, *)
(* which follows the pointer of every name a gate reads.                   *)
(***************************************************************************)
NetTypes == {"input", "output", "wire"}
Drivers == {g[1] : g \in ToSet(gates)}
HasNode(name) == name \in Drivers \/ (name \in DOMAIN items /\ items[name] = "input")
ReadNames == UNION {ToSet(Tail(g)) : g \in ToSet(gates)}

\* Ports that are neither inputs nor outputs get no net, until construct sets
\* the driver of one, which makes a default net of its name.
AddedNets == {name \in DOMAIN items : items[name] \in NetTypes}
NetType(name) == IF name \in AddedNets THEN items[name] ELSE "wire"

Build(words) ==
    /\ word_list' = words
    /\ IF \A name \in ReadNames : HasNode(name)
       THEN /\ circuit' = [name  |-> circuit_name,
                           nets  |-> [name \in AddedNets \cup Drivers |-> NetType(name)],
                           gates |-> gates]
            /\ program' = "runs"
       ELSE program' = "crash" /\ UNCHANGED circuit
    /\ UNCHANGED <<items, gates, circuit_name>>

\* The file ends where the grammar lets it end.
EndOfFile ==
    /\ program = "reads"
    /\ section \in {0, SectionOf("endmodule")}
    /\ Build(word_list)
    /\ UNCHANGED <<file, section, errors>>

\* The file ends too early, or goes on with a statement there is no place for,
\* or breaks off in a statement whose words are left in word_list.
SyntaxError ==
    /\ program = "reads"
    /\ \/ /\ section \notin {0, SectionOf("endmodule")}
          /\ Build(word_list)
       \/ \E statement \in Statements :
             /\ IF statement.kind = "broken" THEN section # SectionOf("endmodule")
                ELSE IF statement.kind = "module" THEN section # 0
                ELSE section \notin 1 .. SectionOf(statement.kind)
                     \/ section = SectionOf("endmodule")
             /\ Build(IF statement.kind = "broken" THEN statement.words ELSE word_list)
    /\ errors' = errors + 1
    /\ UNCHANGED <<file, section>>

Next ==
    \/ Begin
    \/ \E statement \in Statements :
          \/ ReadModule(statement) \/ ReadInput(statement) \/ ReadOutput(statement)
          \/ ReadWire(statement) \/ ReadGate(statement) \/ ReadEnd(statement)
    \/ EndOfFile
    \/ SyntaxError

ReaderSpec == Init /\ [][Next]_vars

-------------------------------------------------------------------------------
Said(kind) == {n \in DOMAIN file : file[n].kind = kind}
Named(kind) == UNION {ToSet(file[n].words) : n \in Said(kind)}

\* The circuit that is returned has the nets and gates that the statements of
\* its own file declare, in their order and with the role they were declared
\* in first, whatever was read, broken off or refused before; a port that is
\* declared as nothing is a net if a gate drives it.  It has the name in the
\* header of its file; circuit_name is never cleared, so that a file without a
\* header gives it the name of an earlier one.
ReturnedAsWritten ==
    (program = "runs" /\ circuit # NoCircuit) =>
        LET declared(name) ==
                CASE name \in Named("input") -> "input"
                  [] name \in Named("output") -> "output"
                  [] OTHER -> "wire"
            driven == {file[n].words[1] : n \in Said("gate")}
        IN  /\ Selects(circuit.gates, [n \in DOMAIN file |-> file[n].words], Said("gate"))
            /\ DOMAIN circuit.nets = Named("input") \cup Named("output")
                                     \cup (Named("wire") \ Named("module")) \cup driven
            /\ \A name \in DOMAIN circuit.nets : circuit.nets[name] = declared(name)
            /\ Named("input") \cap Named("output") = {}
            /\ \A n \in Said("module") : circuit.name = file[n].title

===============================================================================
