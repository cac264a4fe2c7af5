# Verification of boolean-matching

The program reads combinational circuits in Verilog and looks for the ways in
which the inputs and outputs of two of them can correspond ("Boolean
matching"). It never builds a matching: it refines partitions of outputs and of
inputs until only few correspondences are left, and prints how many.

This directory models its own code (`src/src`, about 3,600 lines). The
directory `src/alanmi-abc-f3bca91bd507` is a vendored copy of ABC, which the
code calls to decide whether a miter can be true.

## 1. Inventory

| component | state | operations | who calls it |
|---|---|---|---|
| `Circuit` (circuit.cpp) | nodes, nets, inputs, outputs; a lazily cached value per node | `construct`, `evalOutput`, `stuckInput`, `invertInput`, `invertOutput`, `getCone`, `getMiter`, copy | everything |
| `checkMiter` (checker.cpp) | the ABC frame, the file `tmp_file`, the process's stdout | write the miter to a file, read it into ABC, `sat`, scan the answer | `Simulator` |
| `Simulator` (simulator.cpp) | none between calls; each call keeps the properties not refuted yet | `simulate` (unateness), `simulateSym` (symmetry classes), `simulateSVSym` | commands `sim` and `split`, `SignData` |
| `Matcher` (matcher.cpp) | per circuit: the outputs by signature, and per output an ordered, signed partition of the inputs of its cone | `splitBySupport`, `splitByUnateness`, `splitBySymmetry`, `splitBySimType1`, `splitBySimType2`, `calculatePossibleMatchings` | command `split` |
| `combCount`, `permCount` (utils.cpp) | none | counts of matchings | `Matcher`, command `split` |
| Verilog reader (verilog.ypp, verilog.l) | global lists of nets and gates | `delete_comments`, `yyparse`, `parse_verilog` | every command |
| `IOSupportCalculator` | a cache per output | supports of outputs | `SignData` |
| `SignData`, `Validator` | signatures of outputs | compare two outputs, partition inputs | no command |
| `misc/old_matcher.cpp` | clusters of inputs and outputs, a partial match | a greedy matching | not built |
| `fileutils.cpp` | none | files, MD5 | the reader |

Everything runs in one thread. What makes it hard is not interleaving but:

* **random choices**: vectors come from `rand()`, so that every run takes
  another path, and tests see few of them;
* **order**: signatures are compared position by position, so that the order in
  which clusters are appended has to be the same for equivalent outputs whose
  inputs have other names;
* **state replaced while it is read**: rounds walk over one map and build
  another, erasing and inserting keys whose value changes underneath;
* **a counter that is reset**: the two simulation loops start again after each
  split;
* **an external judge that can fail**: `checkMiter` returns -1 on errors and its
  caller converts that to `bool`.

What makes each component correct:

* `Simulator`: never loses a property an input has; what it reports after
  confirmation is exactly the unateness and the symmetry classes of the cone.
* `Matcher`: the input clusters of an output stay an ordered partition and are
  only refined; exchangeable inputs stay together; outputs are filed under
  their current signature; the true correspondence of two equivalent outputs is
  among the candidates at every moment; the command returns.
* `combCount`: as long as its products fit in a word, the number is not 0 where
  there is a matching; it never counts too many.
* `Circuit`: an operation on the netlist changes the functions of its outputs
  as it should and leaves the others alone; the cached values are current.
* `checkMiter`: answers 1 only for an unsatisfiable miter; leaves stdout usable.

`PROJECT.json` lists the components and the hazards, each with its line.

## 2. Modules

| module | models |
|---|---|
| `BoolCone` | the function of a cone, its cofactors and miters; reference definitions of unateness, exchangeability and equivalence under renaming |
| `OrderedPartition` | an ordered partition split through a `std::map` from keys to sets |
| `Matcher` | matcher.cpp as the command `split` drives it |
| `Simulator` | simulator.cpp on one cone as the command `sim` drives it, with the checker's answers |
| `Checker` | what a caller of `checkMiter` relies on, before and after a call in it has failed |
| `MiterCheck` | checker.cpp with stdout, its buffer, descriptors, the file and ABC, and a failure of every call; implements `Checker` |
| `Confirmation` | the confirmations of simulator.cpp carried out on a netlist |
| `CircuitFunctions` | what the operations of `Circuit` promise: their effect on the functions of the outputs |
| `Netlist` | circuit.cpp: nets, nodes, gates, names and pointers, lazy evaluation; implements `CircuitFunctions` |
| `SortNodes` | circuit.cpp: the topological sort, the renaming of nets, and what `print` writes after them |
| `Support` | support_calculator.cpp on a circuit of `Netlist` |
| `Signing` | `Confirmation` and `Support` on one circuit, as `SignData` uses them: supports first, then confirmations |
| `Validator` | signdata.cpp and `Validator::validateMatching` |
| `ValidatorPartition` | `Validator::partitionType1` and `partitionType2` |
| `Comments`, `Reader` | verilog.ypp: `delete_comments`; the grammar's actions and `parse_verilog`, file after file |
| `Selection` | what the two promise of the sequences they build: the elements at some positions of another sequence, in order |
| `Counting` | `combCount` with words of a given length |
| `OldMatcher` | misc/old_matcher.cpp |
| `MCMatcher`, `MCSimulator`, `MCNetlist`, `MCConfirmation`, `MCMiterCheck` | instances for TLC |
| `MCReader` | `Comments`, then `Reader`: the calls of `parse_verilog` |
| `MCCalls` | one call of `Counting`, `SortNodes`, `Validator`, `ValidatorPartition` or `OldMatcher`, which depend on nothing but their arguments; `running` says which |
| `OperatorProofs` | lemmas about the operators of `BoolCone` and `OrderedPartition` |
| `MatcherProofs`, `SimulatorProofs`, `MiterCheckProofs`, `NetlistProofs`, `ReaderProofs` | theorems about the modules they are named for |
| `SigningProofs` | theorems about `Support` and `Confirmation`, along `Signing` |
| `CallsProofs` | theorems about `Counting`, `Validator`, `ValidatorPartition`, `SortNodes` and `OldMatcher` |

The modules of the commands `split` and `sim` form a chain, from the commands
down to pointers and descriptors, and each link is checked:

* `Matcher` takes what `simulate` and `simulateSym` return from the reference
  definitions of `BoolCone`;
* that they return exactly this is what `UnatenessExact` and `SymmetryExact`
  say of `Simulator`, which asks the checker about cofactors and miters as
  expressions of `BoolCone` over functions (checked and proved);
* that the checker gives no answers but those `Simulator` allows for is the
  refinement of `Checker` by `MiterCheck` (checked and proved);
* that the netlists the program makes for those questions have these functions
  is what `VerdictRight` says of `Confirmation`, which extends `Netlist` (checked
  and proved);
* that every operation of a netlist, in any order, has the effect on functions
  that `BoolCone` and `CircuitFunctions` give it is the refinement
  `ImplementsFunctions` of `Netlist`.

### Data

An input name is represented by its rank in the order of names, because the
code keeps names in `std::set<std::string>` and depends on their order. A
vector is the set of the inputs that are true in it. A cone is the pair of its
inputs and of the set of vectors that make its output true: matcher and
simulator look at it only through `evalOutput` and through cofactors and
miters. A random vector is any vector (`\E vec \in SUBSET f.ins`).

### `Matcher`

| variable | code |
|---|---|
| `cir` | `cir1`, `cir2` with `cones1`, `cones2` |
| `poPart` | `cir1_po_partition`, `cir2_po_partition`: signature -> set of outputs |
| `piPart` | `cir1_pi_partitions`, `cir2_pi_partitions`: output -> sequence of signed clusters |
| `stage` | the call of `main` that runs |
| `it` | the counter of `splitBySimType1(max_it)` or `splitBySimType2(max_it)` |
| `inRound`, `todo`, `ind`, `split` | the locals of `splitBySimType1()` or `splitBySimType2()` |

`SplitBySupport`, `SplitByUnateness` and `SplitBySymmetry` are one action each:
they visit every output once and read nothing they have written for another.
The loop of the two simulation splits is cut at its natural steps: `BeginRound`,
`Attempt` (one value of `i`: a random value per cluster, all outputs of one
signature in both circuits, and the signature erased and inserted again),
`NextCluster`, `EndRound` (`it = 0` after a split, then `++it`) and `EndLoop`.
The copies `new_partition1` and `new_partition2` are not variables: they equal
the partitions until a split, and a split ends the visits of the round.
`Code` writes a signature as the sequence of numbers that `operator<` compares;
the largest `size_t` of the initial signature is written -1.

`Fact` and `combCount` calculate with words of `WordBits` bits, as `fact` does
with `size_t`. A `fact` that has wrapped to 0 is divided by all the same: the
count is then a `Fault`, on which the program is killed. `OutputMatches` goes
through the signatures in ascending order, as the code does, and starts again
with 1 where the number so far is 0. The numbers of outputs and of
inputs are multiplied as `double`, which is written as a product of numbers:
rounding is not modelled, and the properties ask only whether the number is 0.

### `Simulator`

`call` says which of the three calls runs, `i`, `j` and `it` are the loop
indices, and each `continue`, iteration, confirmation and end of a loop is an
action. `CheckMiter` is the set of answers the simulator may get for a miter:
the right one, and also `TRUE` when `CheckerFails`, because an error value of
-1 becomes `true`.

### `CircuitFunctions` and `Netlist`

| variable | code |
|---|---|
| `circuit[s]` | a `Circuit` held by a caller; `node` is `nodes` and `service_nodes`, `nets` the map from names to nets, `inputs` and `outputs` the vectors of those names, `lazy` the nodes with `is_lazy` and their cached values |
| `call` | history: the last call with its arguments and result |
| `fun[s]` | history: the functions of `circuit[s]`, computed along its pointers |

A node keeps pointers to what it reads (`input`), the nodes that read it
(`output`), and the names of the nets it reads and drives (`inNames`,
`outName`). `Construct` derives pointers and reader lists from names. `Copy`,
`GetCone` and `GetMiter` start from names only; `StuckInputOf`,
`InvertInputOf` and `InvertOutputOf` change names, pointers and reader lists by
hand, and forgetting one of the three shows only in a later call that uses it.
This is why the property is a refinement over sequences of calls and not a
statement about each. `Abstract == INSTANCE CircuitFunctions` maps `fun` and
`call` to the variables of the same name.

* A name is the sequence of its parts: `"not_" + "f"` is `<<"not_", "f">>`.
  A net that has such a name already clashes in the model as in the code.
  Two different sequences that spell one string do not, for instance an input
  called `cir1_f` and the gate a miter makes of a net `f`.
* A pointer is a number. 0 and 1 are the two constant nodes, which all circuits
  share and no circuit owns.
* `output` is a bag: rewiring removes one occurrence for each time a gate is
  listed.
* `inputs` and `outputs` are sets: their order matters to printing alone.
  For the same reason, gates of a cone keep the order of the circuit; sorting
  and renaming have a module of their own.
* Calls that end in an error message and leave the circuit alone (an unknown
  name, for instance) are not actions.
* `NameIsFree` is a precondition that the caller of an inversion has to meet
  and the code does not test. `ReuseNames` drops it.

### `Confirmation`

The cone under confirmation is in one slot, its two cofactors and the miter in
others. `Script` lists the calls of each case of `confirmProperties`
and both `confirmSymmetries`; `CopyCone`, `StuckCofactor`,
`InvertCofactor` and `MakeMiter` make the next one through the action of
`Netlist`, and `Check` prints the miter, reads it again and decides it. Then all
circuits made are deleted, and another property of the same cone is confirmed.
`Kinds` chooses the cases. A `CUT` gate is printed in a form ABC cannot read,
so that `Verdicts` allows both answers for a miter with one.

### `MiterCheck`

| variable | code |
|---|---|
| `fd` | the process's table of descriptors |
| `stream`, `coutBad` | `stdout` with its descriptor, its buffer and what waits in it; the state of `std::cout` |
| `tmpFile` | the file `tmp_file` |
| `network`, `result` | what ABC has read last; the memory of `Result` |
| `outer`, `inner` | `old_fd` of the two functions |
| `question`, `answer` | the miter that is checked, and the result |
| `value` | what `checkMiter(const char *)` returned |
| `written` | history: which file has got the program's own text |
| `failed`, `calls` | history: which calls failed; how many miters were checked |

One action per call of the C library or of ABC. A member of `Faults` may fail
each time it is called; `failed` is the history of those that did. The early
returns are `ReturnsError` and, where `freopen` has closed stdout,
`ReturnsErrorClosed`. The point is that a stream and its descriptor are two
things: `dup2` puts back the descriptor, and only `freopen` would put back the
stream. That a check goes on from whatever an earlier failure left is why
several checks follow one another. `Promise == INSTANCE Checker` has `faulty`
exactly when something has failed, so that the refinement also covers the
checks before the first failure. ABC and the C library are external:
`FaultyCalls` are those whose result the code tests, or should.

### `SortNodes`

Gates are numbers in the order of construction and compute NAND, which with
constants is every function. `stack` holds the calls of `topsort` that have not
returned, each with the index of its loop, so that `BeginSort`, `NextNode`,
`VisitInput`, `SkipInput`, `Leave` and `EndSort` are the recursion. `Printed`
is the text of `print` as gates and names; `Behaviour` is what a reader of the
text makes of it, for circles as well: the consistent values of all nets.
`DependsOn` is the transitive closure of `Reads`, said as the least set closed
under it.

### `Support`

`frames` is the recursion of `getSupport`, `cache` its map, with an entry from
the moment the walk over a driver begins. A call that is answered from the cache
adds what is there at that time (`AddSupport`), and `CallAgain` asks for the
supports a second time. Only circuits without circles are taken: the evaluation
of any other does not return.

### `Validator` and `ValidatorPartition`

`Sign` gives a circuit's outputs their support and what random simulation may
leave (`Unrefuted`) and confirmation accepts (`Confirmed`), both on the whole
circuit as the constructor of `SignData` has it. `Validate` takes the pairs of a
proposed matching in order. `ValidatorPartition` has one action per cluster of
an iteration, since each cluster draws a vector of its own; a cluster is split
by the same operator as those of `Matcher`, `SplitBy` of `OrderedPartition`.

### `Comments` and `Reader`

`Comments` has one action for each way an iteration of `delete_comments` can go,
on characters. What it should keep is said without a loop: `Cuts`, the positions
between pieces of the text, is the least set that has 1 and, with the beginning
of a comment or another character, the position after it. `Reader` starts after
the lexer: a statement is its kind and its words, and a `"broken"` one ends in
the middle, which leaves its words in `word_list`. `Build` is the rest of
`parse_verilog`: a net for each name declared as input, output or wire; one more
for each driver that has none, which `construct` inserts when it sets the net's
input (a port in the header that is declared as nothing is accepted by the
grammar); and the null pointer that `construct` follows when a name has no node.
`circuit_name` is a variable of the parser like the lists, but no call clears
it.

### `Counting`

Each multiplication of `fact` is an action, modulo 2^w; the two calls come in an
order the language leaves open, and the model takes one: the results do not
depend on it. `Injections` is the number meant.

### `OldMatcher`

A signature is the sequence of the characters that the code keeps in a string,
`UnmatchedId` for `'0'`. `NewClusterId` narrows the next id to a character of
`CharBits` bits; strings compare by unsigned characters. `MatchCommon` is one
turn of the inner loop of `getResult` with `Matcher::match` and
`CircuitData::match` for both circuits, `ChooseOutput` and `StickOne` the part
that sticks inputs, `ReturnResult` its end. `clusterOf` is history.

## 3. Runs

| run | instance | question | result |
|---|---|---|---|
| `split_renamed` | all 256 functions of 3 inputs, each against its 6 renamings, and 108 pairs of circuits with 3 and 2 outputs from 6 functions, one constant and one of two inputs; every random vector; `MaxIt = 2` | Does `split` keep the true correspondence among its candidates, its maps consistent and its number large enough, does it refine only, and does it return? | holds, 57,010 states |
| `split_swapped_classes` | (a+b)cde with the classes named in the other order | Is a correspondence always counted? | `MatchesCounted` violated |
| `split_twin_outputs` | a ? b : c twice in each circuit | Are all of them? | `AllMatchingsCounted` violated |
| `simulate` | all 276 functions of at most 3 inputs, 2 orders of inputs, `MaxIter = 2` | Is what `sim` reports exact, and nothing true lost on the way? | holds, 210,436 states |
| `simulate_unconfirmed` | the functions of at most 2 inputs and 4 of 3; every checker call may fail | Is a reported unateness confirmed? | `UnateIsConfirmed` violated |
| `simulate_one_input` | as `simulate`, `MaxIter = 1` | Does `sim` end without an exception? | `NeverThrows` violated |
| `netlist` | 3 designs, one slot, `MaxGates = 5`; every operation in every order | Does any sequence of operations compute what it should, by names and by pointers? | holds, 269,813 states |
| `netlist_name_taken` | a wire called `not_a`, `ReuseNames = TRUE` | Is the printed circuit the one that is evaluated? | `PrintedIsEvaluated` violated |
| `confirmation` | the 3 designs, one gate of each of 8 kinds over 3 inputs, the majority of 3; unateness, symmetry and single-variable symmetry; `MaxGates = 12`; supports of those cones and of all circuits of 3 gates of 2 pins | Do the netlists of each confirmation give the right verdict, again and again, and are supports those of the cones? | holds, 35,182 states |
| `miter_check` | 4 checks, every call may fail every time | Is an answer right until something has failed, and on the safe side afterwards; what of descriptors and stdout? | holds, 19,318 states |
| `reader` | all texts of at most 6 of 4 characters; files of at most 6 of 16 statements, 2 gates, one after the other | Are comments deleted and nothing else, and is a file read as written whatever was read before? | holds, 434,715 states |
| `calls` | `combCount` up to 12, words of 4 to 16 bits; all circuits of 3 gates that read 1 or 2 nets, circles included, with 2 nets renamed; pairs of one-output circuits of at most 3 inputs; the partition functions on all functions of 3 inputs and 4 of 4; all supports of 2 outputs over 2 inputs against 3 over 3 | Do the calls return what they are named for? | holds, 236,981 states |

Deadlock is checked in all runs but `reader` and `calls`, where a file of the
bounded length, a program that ends with an error, and a call that has returned
stop for good. A run with an expected violation checks that one property.

**Bounds.** Three inputs are the least with which a cluster can be split while
another stays, a symmetry class and a single input can be in one cluster, and
type 2 simulation can tell apart what type 1 cannot; all functions of three
inputs are taken, not a sample. Five inputs are needed for two symmetry
classes of different sizes (`split_swapped_classes`). `MaxIt` and `MaxIter`
replace 1000 and 10000: with 2, a loop can fail once and then split, run out,
and be reset; more iterations repeat the same steps, since random vectors are
independent. Three outputs are the least with which one circuit has a signature
the other has not and two outputs that share one.

The netlist designs have what makes rewiring hard: an output that drives
another gate, gates listed before those they read, a gate that reads one input
twice, one that reads a constant, gates nothing reads, and an input with
several readers. With one slot, a copy, a cone or a miter replaces what it was
made from and is worked on further; four slots, in `confirmation`, show that
circuits do not disturb each other. Five gates leave room for one to three
inversions, or for a miter of small circuits; `MaxGates` only bounds the
sequences, and 12 is not reached by any confirmation.

Two checks after one another are the least with which a failure of the first
is seen by the second, and four leave room for two different failures and a
check after them; there are four descriptors because a check holds at most
two copies, stdout and a free one. Three gates are the least that have a circle
entered from outside, and a net read by two of which one reads the other. Six
characters hold a comment in another one with text around it; six statements
are a complete file with one gate, or one with two that breaks off. Words of 8
bits wrap to 0 from 10!, as those of 64 bits do from 66! (`fact(n)` is (n-1)!).
`Matcher` has words of 16 bits, with at most three outputs to count: wrapping is
the matter of `calls`, where the words are short enough for it. `CharBits = 8`
is the width in the program; two or three outputs use few ids, so that narrowing
does not happen in the run, and `IdsFit` says of the proofs how far it does not.
Three outputs against two leave one without a partner, which makes inputs be
stuck.

**Fairness.** Nothing runs concurrently: `Matcher` and `Simulator` assume weak
fairness of their next-state relation, `MCCalls` of the steps of `getResult`,
`Signing` of those of `getOutputSupport` (`SupportStep`), and
`MiterCheck` of the steps of a check that runs. All say that the program goes
on while it has a step to take; for `MiterCheck` also that ABC's `sat`, which is
called without limits, returns. Nothing is assumed of random vectors: the calls
terminate for every choice.

**What fails, and why.** Five runs end with a violation; they are the findings
of `PROJECT.json`:

1. `splitBySymmetry` appends symmetry classes in the order of the names of
   their first inputs. Two equivalent outputs whose classes differ in size and
   are named in another order get different signatures, and the program prints
   0 possible matchings. `MatchesKept` and `MatchesCounted` hold for functions
   of three inputs, which have at most one class of two inputs or more.
2. `fact` in `combCount` leaves out the last factor.
3. A checker that fails confirms what it is asked.
4. `sim` ends with an exception on an output of one input.
5. `invertInput` and `invertOutput` name the net they make `not_` and the old
   name, and ask nobody whether that name is in use. Where it is, the old net is
   replaced: evaluation, which follows pointers, goes on as it should, and the
   printed circuit, the copies, cones and miters compute something else.

Other behaviour that the modules contain, but that no line of the repository
speaks against, or that nothing calls for at present:

* Miters are printed for the program and not for ABC: a `CUT` gate becomes
  `_cut`, which ABC does not know. `Verdicts` has both answers for such a miter,
  and `MCConfirmation` confirms no cone with one.
* The case of `ESymmetry` in `confirmSymmetries` confirms the opposite of what
  simulation leaves. `Script` has it; nothing asks for that symmetry, and
  `Kinds` leaves it out.
* Without a controlling terminal `checkMiter` closes the stream of stdout, and
  when `sat` fails, stdout keeps a buffer in a stack frame that is gone.
  `StdoutRestored` excludes checks after such failures by name.
* `SignData` runs a simulator made for one output on all outputs of a circuit:
  with several, a property may be confirmed because another output is false.
  `calls` takes circuits of one output.
* The reader accepts names without a driver, and `construct` follows a null
  pointer (`program = "crash"`).
* `fact(n)` is 0 from n = 67, because 2^64 divides 66!. With 67 outputs or more
  of one signature in both circuits `split` finds 0 matchings, of equivalent
  circuits too, unless a signature counted later starts the product again; where
  numbers of outputs differ by 67 or more, `combCount` divides by 0 (`Fault`).
  From 22 outputs on the number has wrapped.
* `circuit_name` survives a file: one without a module header gives its circuit
  the name of the file before. `ReturnedAsWritten` speaks of the name only of
  files that have a header.
* `getMiter` puts `cir1_` and `cir2_` before the names of gates but not of
  inputs, so that an input can get the name of a gate of the other circuit. The
  model's inputs have no such names (section 2, `Netlist`).
* The old matcher, which is not built, tests one of two groups with the wrong
  sign and never records a group of inputs; `ClustersCorrespond` speaks of the
  clusters it uses and not of those it records. Its ids are characters: where
  `char` has 8 bits, the 208th is the first that is narrowed, which puts it
  before the others, and from the 256th on they repeat, beginning with `'0'`,
  which is the mark of unmatched inputs.
* A redundant input keeps both unateness properties ("WARNING!!!!",
  simulator.cpp:47), which is right by the definitions; the break at
  simulator.cpp:40 is never taken, which costs time only; `delete_comments` takes
  `/*/` for the beginning of a line comment; and the partition functions of
  `Validator` return nothing for a partition of one cluster. `CommentsDeleted`
  and `Refined` name the last two as exceptions.

## 4. Proofs

All are checked by TLAPS, for every value of the constants that satisfies the
named assumptions: for the matcher `NamesAssumption` (finitely many names,
ordered like numbers), `MaxItAssumption`, `WordBitsAssumption` and
`InstancesAssumption` (the inputs of each cone are inputs of its circuit, which
has finitely many outputs); for the simulator `ConesAssumption`,
`OrdersAssumption` (an order of inputs is a sequence of names without
repetition), `MaxIterAssumption` and, where it says so, a checker that does not
fail; for the checker `NoMiterAssumption`, `FaultsAssumption` and
`StaleFilesAssumption` (a file that cannot be written does not hold a miter
already). `CircuitsAssumption`, `PartitionsAssumption`, `TextsAssumption`,
`StatementsAssumption` and `SupportsAssumption` of `Validator`,
`ValidatorPartition`, `Comments`, `Reader` and `OldMatcher` say what the
arguments of a call look like: functions of a circuit's own inputs, clusters
that partition them, sequences of characters or of statements of the grammar,
outputs with sets of inputs (and `CharBitsAssumption`, that `'0'` is a
character). `SortNodes` assumes of a circuit (`DesignsAssumption`) what
`construct` makes sure of or cannot do without: a net has one driver (it keeps a
single `input` for each net), every net read has one (a null pointer is followed
otherwise), no net has the name of the constant; and that no new name is that of
the constant (`NewNamesAssumption`). `Netlist` assumes the same of its
`Designs`, and with `IsDesign` two things more that the reader does not look at:
that no gates read each other in a circle, on which `Node::eval` does not
return, and that no input has a name such as `getMiter` makes. `Confirmation`
and `Signing` assume it of their cones and circuits. Theorems about `Netlist`
are stated for `~ReuseNames`, which is a precondition of the inversions: without
it they are false, as `netlist_name_taken` shows. The theorem about verdicts has
this precondition too, and leaves out `ESymmetry` and the cones with a `CUT`
gate, for which section 3 says that verdicts are wrong or can be.

* `OperatorProofs`: exchangeability is symmetric and transitive, exchangeable
  inputs have the same unateness, flipping either of two exchangeable inputs with
  one value gives the same output, and a renaming under which two functions are
  equal keeps all of this. Enumerating the slots of a split in ascending order is
  well defined (`SlotEnumeration`), and a split partitions (`SplitByPartitions`),
  refines in place (`SplitByRefines`), keeps together what has one key
  (`SplitByTogether`) and has more clusters than before as soon as a cluster has
  two keys (`SplitByGrows`).
* `MatcherProofs`: `TypeOK`, `InputsPartitioned`, `SymmetricTogether` and
  `SignaturesCurrent` hold in every state (`Invariance`), signatures say what is
  true of the inputs (`SignaturesStayTruthful`), every step refines
  (`CandidatesOnlyRefined`), and a split that starts the loop again is progress
  (`SplitsMakeProgress`). Equivalent outputs stay candidates of each
  other (`OrderedMatchesStayKept`, `MatchesStayKept`), and what `split` counts includes
  every renaming and, while the products fit in words, is never 0
  (`MatchesStayCounted`), under conditions stated below.
* `SimulatorProofs`: types are kept, nothing true is removed and no input is
  left out or taken twice, whatever the checker answers (`SimulatorTyped`,
  `NoUnatenessLost`, `NoSingleVariableSymmetryLost`, `InputsStayInOnePlace`);
  when it does not fail, what is reported is
  exact (`UnatenessIsExact`, `SymmetryIsExact`).
* `MiterCheckProofs`: the answers of a check are those of `Checker`
  (`AnswersAreRight`); descriptors and, after no failure but one, the stream of
  stdout are what they were (`DescriptorsAreRestored`, `StdoutIsRestored`).
* `CallsProofs`: circuits of one output are judged right
  (`EquivalentPairsStayValid`, `RenamingsStayInClusters`), the partition
  functions refine (`PartitionsRefined`), gates are sorted topologically, also
  those that read each other in a circle (`CircuitsGetSorted`), and a printed
  circuit behaves as the circuit does (`CircuitsArePrintedSame`). The clusters
  and signatures of the old matcher are right in every state of `getResult`, for
  all supports whose ids are different characters (`IdsFit`: up to 207 outputs
  where they have 8 bits; `OutputsStayFiled`, `SignaturesStayDescriptive`,
  `ClustersStayInStep`). `combCount` never counts too many, for words of any
  length (`CountsStayBelow`).
* `NetlistProofs`: every circuit held is well formed after any sequence of
  operations (`CircuitsStayRight`), so that its names and pointers agree
  (`NamesStayMatched`) and its reader lists are exact (`ReadersStayListed`); the
  operations do to functions what `CircuitFunctions` says
  (`CircuitsImplementFunctions`), and what is printed is what is evaluated
  (`PrintedStaysEvaluated`).
* `SigningProofs`: supports are those of the cones (`SupportsAreOfCones`), and the
  verdicts of confirmations are right for all cones without a `CUT` gate
  (`VerdictsAreRight`).
* `ReaderProofs`: `CommentsAreDeleted` for texts of any length, and
  `CircuitsAreReturnedAsWritten` for any number of files of any length.

**Matcher.** The invariant is the conjunction of the four, because none of them
is inductive alone. Exchangeable inputs stay together through a simulation
because the vector has one value on their cluster, which needs disjoint
clusters; pushing a symmetry class whole keeps the partition because the members
of the class were together; the outputs a round erases and inserts again are all
those that change because signatures were current; and a round never visits a
signature that circuit 2 lacks because its list was computed from current
partitions that do not change before a split. The argument for one output is in
`FairSplitIsSound`: a split whose keys agree on exchangeable inputs of a cluster
keeps everything. Its four uses differ only in why the keys agree: unateness is
the same for exchangeable inputs, a class has one order, flipping either input
gives one output, and the weights of type 2 count the same vectors
(`ExchangeableWeight`).

`SignaturesTruthful` (an input signed with a unateness or as a member of a
symmetry class has it) needs an invariant of its own, `SignsInv`: the signs are
not what a split looks at, and what keeps them true is that they are handed
down. A split by unateness or symmetry signs clusters from the reference
definitions (`UnatenessSigns`, `SymmetrySignsTrue`); a simulation splits a
cluster and gives each part the sign of the whole, so that a sign stays true
for every subset (`SimulationKeepsSigns`). The order of calls matters: the
invariant says which kinds of signs there can be at which `stage`.

`SplitsMakeProgress` needs that no cluster is empty (`NonEmptyInv`), which holds
from `splitByUnateness` on: `splitBySupport` makes an empty cluster of an output
without inputs. Then a partition has as many clusters as slots, and a cluster of
two keys has two.

**The two circuits.** `MatchInv` says of a renaming under which two outputs are
equal that it maps the clusters of one, signs included, onto those of the other,
place by place. One step of both circuits keeps it because each key is carried
along by the renaming (`UnatenessCorresponds`, `SymmetryCorresponds`,
`SimKeyRenamed`) and a split visits slots in the order of keys
(`SplitsCorrespond`). An attempt visits the outputs of one signature in both
circuits, and matched outputs have one signature (`SignatureRenamed`), so that
both or none are visited. `RenamingsListed`, the first half of `MatchesCounted`,
follows: the pair is a candidate and the renaming maps each cluster to the one
in its place. The second half, that the number printed is positive, is about two
products and a function, each defined by recursion: that they exist is shown
along the finite subsets of a set and along the numbers (`ProductPositive`,
`FactDefined`), by the least number for which it fails. No factor that inputs
contribute is 0, because outputs with one signature have clusters of the same sizes
(`SameSizes`). Of those that outputs contribute this is true only while no
product of `fact` wraps (`FactGrows`, `CombCountPositive`), which is the
condition `CountsFit`: up to 21 outputs of one signature with words of 64 bits.
The other condition concerns the inputs, and the code is the reason again: the order
of symmetry classes in a cluster is that of names, and a renaming may not keep it
(finding 1, `split_swapped_classes`). `ClassesOrdered` says that every renaming
keeps it. `OneClassEach`, a condition on functions alone, suffices for it
(`OneClassOrdered`): inputs that are unate alike are in at most one class of two
or more. It holds of all functions of three inputs, and so of the run
`split_renamed`, which checks the invariants without a condition.

**Simulator.** `Base` (types, inputs listed once, nothing true lost) is
inductive by itself: a pair of vectors refutes only what is false
(`RefutedIsFalse`, `SymRefutedIsFalse`), and the checker confirms what is true
even when it fails. The miters ask the right questions (`PosMiterAsks`,
`NegMiterAsks`, `SymMiterAsks`), so that a checker that does not fail leaves
only what is true. `UnatenessIsExact` adds that the inputs behind the loop are
exact and those before it untouched. `SymmetryIsExact` is the harder one, since
an input is compared only with later inputs that no group has taken. The
invariant says that the inputs in no finished cluster lie ahead of the loop and
are closed under exchangeability, that finished clusters are whole classes, and
that the group under construction has got exactly the exchangeable inputs among
those passed so far; closedness is what allows the inputs that were skipped to be
ignored, and it follows from transitivity. `InputsStayInOnePlace` does without
the checker: that the four kinds of places are disjoint and cover the inputs
(`Placed`) is inductive by itself, and counting places follows from it
(`PlacedInOnePlace`).

**Checker.** `MiterTravels` follows the miter in question: into the file unless
writing failed, from the file into ABC, from ABC through the stream into
`Result`, and from there into the answer. Every failure on the way is recorded
in `failed` and ends in the answer TRUE, which `Checker` allows from then on.
`Result` is not cleared, and the invariant shows why an old text is not read: at
the step that reads it, `sat` has written it in this check.

`RInv` is about descriptors. Whatever has failed before, stdout is closed, on
descriptor 1, or on 3 after a failure closed it; the outer `dup` gets 2 and the
inner one 3 or 4, because descriptors are handed out from the lowest; besides
these all are closed. That is what makes the two `dup2` put back what they
should. `StdoutKept` follows the stream: at each step of the check on which file
descriptor 1 is and what can wait in the buffer, as long as only reading the
miter has failed.

**Circuit.** `CircuitsHeld` says of each circuit that it `IsCircuit`: it has the
parts a circuit has (`HasParts`: finitely many nodes with their names), each net
has the driver it names (`DriversRight`), a pin points to the driver of the net
it names (`PinsRight`), a node lists each reader once for each pin
(`ReadersRight`), and no gates read each other in a circle (`NoCircle`). The
properties of the run are three of these, and none of them is inductive alone:
the loop that rewires the readers of an input replaces as many pins as the list
has entries, so that the pins come out right because the list was exact; an
inversion leaves the net it takes over with one driver because the new name was
free; and a copy, a cone or a miter, which are made of names only, are what
`Construct` makes of a design, for which it is enough that names were right. A
cone is closed under what its gates read, and the two halves of a miter have
different prefixes, so that their names do not meet. `ConeNodes` says which nodes
a cone has as the least set that is closed under reading, which is what the
recursion of `getConeRec` with its cache comes to.
`NoCircle` is not needed for the rest; it is there because the support and the
values of nodes are computed by recursion.

**Functions of circuits.** A netlist is evaluated by a recursion over nodes, and
an operation renames, renumbers or replaces nodes. What is compared instead are
assignments: values of all nets that every gate agrees with (`NamesRight`). A
circuit without a circle has exactly one for each vector of its inputs
(`ValuesExist`, `ValuesUnique`: the gates can be given values one by one, each
after those it reads, and where two assignments differed there would be a gate
that differs and reads none that does), and `evalOutput` returns its value at the output
(`FunctionsByNames`). That an operation has the function it should is then a
matter of turning an assignment of the circuit it makes into one of the circuit
it was given: with the same names for a copy or a cone, with the prefix taken off
for a half of a miter (`MiterPart`), with the constant for the stuck input
(`StuckFunctions`), and with the net of the new gate inverted for an inversion.
`FunctionsHeld` keeps `fun` in step with the circuits, and needs `LazyRight`: an
evaluation keeps values in `lazy` and clears those of the nodes of its circuit
before the next one, but never those of the two constants, which all circuits
share; these must be, and are, right.

**Supports.** `SupportRight` describes `getSupport` in the middle of its work. A
call on the stack is at the net that the next call is for; its entry in the
cache is exactly what the nets it is past add (`FrameRight`); the entry of a call
that has returned is the set of all inputs below the net (`CacheRight`). The
hazard is the entry of a call that is under way,
which is empty or half full: nobody asks for it, because the net asked for
is read by the last call, each call is for a net that depends on those of the
calls after it, and there is no circle (`NotUnderWay`). What nets add is stated
over the names a gate reads (`InputsByNames`) and is then shown to be what
`ConeOf` finds (`ConeInputs`), which has never seen a cache. `NetlistProofs` gives the
circuit; the confirmations that follow in other slots leave it as it is
(`ConfirmsKeep`).

**Confirmations.** The scripts of the four kinds of properties differ in what
they do and in which order, but all of them keep to a discipline (`InOrder`,
shown by `ScriptsInOrder`): a circuit is copied before anything else is done to
it, no input is set twice, no output is inverted twice, and the miter is made at
last. Under it the invariant `SlotsRight` can say what a slot holds in the
middle of a script: the circuit that is left of the cone (`IsCofactor`) when the
inputs that the calls so far have fixed have their values (`FixedTo`) and the
output is inverted if they have inverted it. Each call of `Netlist` takes one
such circuit to the next (`CopyCofactor`, `StuckIsCofactor`,
`InvertedIsCofactor`), on the strength of `NetlistProofs`, and what earlier
properties have left in the slots does not matter. The miter of two of them,
printed and read again, can be true exactly when their values can
(`CofactorVerdict`); for this no gate of it may be a `CUT`, and the operations
are shown to bring none in (`CopyUses`, `StuckUses`, `InvertedUses`,
`MiterUses`). It remains to compare, for each kind, two cofactors with the
definition of the property (`VerdictSays`).

**Validator.** `ValidatorInv` files signatures with the outputs they belong to
and judges no pair before all are signed. For circuits with one output
(`Singles`) what the simulator leaves is confirmed on the function of all inputs
(`ConfirmedIsUnate`), so that the recorded properties are exactly those of the
output (`PropertiesExact`), and a renaming keeps them (`ReadingRenamed`).
`Singles` cannot be left out: for several outputs the code simulates the first
one only. For the partition functions, `PartitionInv` says that `new_partition`
partitions and refines the clusters before the one an iteration is at.

**Sorting and printing.** `PrintInv` describes the recursion of `topsort` in the
middle of its work: the gates on the stack are different, each reads the next,
everything used is on the stack or in the result, and what a gate on the stack
reads through the inputs it is past has been visited. When a gate is left, each
gate it reads is in the result already, or on the stack below it; in that case
it reads the gate being left through the chain of the stack, so that it depends
on it, which is the exception `SortsTopologically` makes. The result never
repeats a gate, and at the end nothing is on the stack, so that it has them all.
`PrintedSame` needs of this only that the list has each gate once: values of the
nets that are consistent are carried over by the renaming, which is injective on
the nets, in both directions.

**Counting.** The second call of `fact` repeats the first until it gets to the
difference of the arguments (`CallWords`: both go along one sequence of words).
From there each step multiplies by a number and wraps, which only makes it
smaller, so that the second result is no larger than the first times the ways to
match (`WordsBelow`), and the quotient no larger than those.

**Reader.** `DeleteInv` places the loop of `delete_comments`: outside comments
it is at a cut, in a comment it is after the beginning of one at a cut and
before its end; and the result lists the kept characters up to that cut.
`ReaderInv` says that `items` and `gates` have what the statements read so far
declare, that `circuit_name` is that of the header if there was one, that
`word_list` is empty between statements, and that no statement belongs to a part
of the grammar still to come; after a file is done with, nothing of it is
needed, because what is left of it is cleared when the next one begins, or, in
the case of the name, replaced by its header.

**Old matcher.** The invariant `GetResultInv` has six parts for each circuit
(`DataInv`): its types; the shape of a signature, ids in ascending order and then
zeros; inputs and outputs know of each other; every output is filed in the
cluster of its signature; outputs with a matched signature have no free inputs;
and a signature counts the inputs under each id. For both circuits, the matched
signatures are the same, so that the next id is, and clusters with one id have
one size. `MatchStep` needs that the cluster chosen is the least common one
(`LeastIsCommon`), for which the order of strings is shown to be total
(`LessTotal`), and that a signature's zeros are replaced where its inputs are
matched (`SignatureAfter`). `ClustersCorrespond` follows by counting. All of it
rests on the next id being larger than those before it, which narrowing would
undo: while an output waits, there are fewer matched signatures than outputs, and
under `IdsFit` the next id is a character (`NewIdFits`).

**Only model-checked.**

* Liveness (`Terminates`, `SupportTerminates`, `CallsReturn`,
  `GetResultReturns`): the prover has no rules for fairness and ENABLED.

## 5. Not modelled, and why

* **ABC** (about 790,000 lines in 1,300 files, almost all of the repository) is a
  program of its own, copied in unchanged. The code uses two of its commands
  through `checkMiter`; `MiterCheck` has their outcomes. Of the repository's own
  code, about two thirds are modelled; the rest are declarations, conversions to
  text, and what follows.
* **`fileutils.cpp`** reads and copies files and computes a sum: input and output.
* **The lexer and `print`'s layout**: statements in `Reader` are words already,
  and `SortNodes` has which net is printed where.
* **The other commands of `main.cpp`** check arguments, call one operation that
  has its action in `Netlist`, and print its result.
* **Two processes in one directory** share the name `tmp_file`; each process is
  modelled alone.
* **Circuits with circles** outside `SortNodes`: the reader accepts them, but
  `Node::eval` does not return on them.
* **`setName`, `log`, `makeAssertion`** and the conversions of properties to text
  change what is printed and nothing else.
