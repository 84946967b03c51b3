------------------------------ MODULE CommandLine ------------------------------
(***************************************************************************)
(* ProcessCommandLineParameters: argv, one word at a time, through a       *)
(* max::Containers::StateMachine, and the Action that main visits.         *)
(*                                                                         *)
(* A word is an opaque string.  What strtoull makes of it is given by      *)
(* Numeral: the integer its leading numeral denotes, sign included; a word *)
(* without one converts to 0.                                              *)
(*                                                                         *)
(* Operators named <Operation>_<Fault> are what a plausible bug would make *)
(* of the operation after them; README.md says which property each breaks. *)
(***************************************************************************)
EXTENDS Integers, Sequences, FiniteSetsExt

CONSTANTS
  Words,         \* what argv may hold
  Numeral,       \* the integers that some of the Words start with
  UllongMax,     \* the largest unsigned long long
  SizeMax,       \* the largest size_t: narrower in the Win32 build, as wide in the x64 build
  MaxArguments,  \* bound: words on a command line
  Anything,      \* the AnythingMatcher
  None           \* an empty optional

ASSUME NumeralAssumption ==
  /\ DOMAIN Numeral \subseteq Words
  /\ \A w \in DOMAIN Numeral : Numeral[w] \in Int
  /\ UllongMax \in Nat
  /\ SizeMax \in Nat
  /\ (UllongMax + 1) % (SizeMax + 1) = 0   \* both are powers of two
  /\ MaxArguments \in Nat

VARIABLES
  argv,      \* the words consumed so far
  current,   \* current_node_index_
  captured,  \* the variables the callbacks capture by reference, and errno
  action     \* the Action returned, or None

vars == <<argv, current, captured, action>>

-----------------------------------------------------------------------------
(* The options that take a number, the flag of each, and the flag of the   *)
(* input file.                                                             *)
Options == {"buffer_size", "thread_count", "queue_depth"}

Flag == [o \in Options |->
           CASE o = "buffer_size"  -> "--buffer_size"
             [] o = "thread_count" -> "--thread_count"
             [] o = "queue_depth"  -> "--queue_depth"]

InputFlag == "-i"

NodeIndices ==
  {"Start", "AwaitingFlags", "AwaitingInputFile", "Error"} \cup Options

ErrorMessages == {"Could not convert", "Unexpected parameter"} \X Words

ASSUME MarkersAssumption ==
  /\ Anything \notin {InputFlag} \cup {Flag[o] : o \in Options}
  /\ None \notin NodeIndices \cup ErrorMessages

\* strtoull: out of range by its magnitude, negated modulo 2^w by its sign.
OutOfRange(w) ==
  w \in DOMAIN Numeral /\ (Numeral[w] > UllongMax \/ -Numeral[w] > UllongMax)

Strtoull(w) ==
  CASE w \notin DOMAIN Numeral -> 0
    [] OutOfRange(w)           -> UllongMax
    [] OTHER                   -> Numeral[w] % (UllongMax + 1)

ToSize_Wide(number) == number

\* An unsigned long long assigned to an optional<size_t> loses its high bits.
ToSize(number) == number % (SizeMax + 1)

\* The callbacks.
ToNumber_KeepsAnyNumber(option, c, input) ==
  LET errno == IF OutOfRange(input) THEN "ERANGE" ELSE c.errno
  IN  [to |-> "AwaitingFlags",
       captured |-> [c EXCEPT !.errno = errno,
                              !.number[option] = ToSize(Strtoull(input))]]

\* errno is whatever the last failed call of the process left in it: the code
\* never clears it, and strtoull sets it only when it fails.
ToNumber(option, c, input) ==
  LET errno == IF OutOfRange(input) THEN "ERANGE" ELSE c.errno
  IN  IF errno = "ERANGE"
        THEN [to |-> "Error",
              captured |-> [c EXCEPT !.errno = errno,
                                     !.error_message = <<"Could not convert", input>>]]
        ELSE [to |-> "AwaitingFlags",
              captured |-> [c EXCEPT !.number[option] = ToSize(Strtoull(input))]]

Unexpected_NoMessage(c, input) == [to |-> "Error", captured |-> c]

Unexpected(c, input) ==
  [to |-> "Error",
   captured |-> [c EXCEPT !.error_message = <<"Unexpected parameter", input>>]]

TakeInputFile(c, input) ==
  [to |-> "AwaitingFlags", captured |-> [c EXCEPT !.input_file = input]]

Callback(callback, c, input) ==
  CASE callback.does = "goto"      -> [to |-> callback.node, captured |-> c]
    [] callback.does = "number"     -> ToNumber(callback.option, c, input)
    [] callback.does = "inputFile"  -> TakeInputFile(c, input)
    [] callback.does = "unexpected" -> Unexpected(c, input)

Machine == INSTANCE StateMachine WITH NoNode <- None

Edge(matcher, callback) == [matcher |-> matcher, callback |-> callback]

Goto(matcher, node) == Edge(matcher, [does |-> "goto", node |-> node])

Number(option) ==
  [this |-> option,
   outbound |-> <<Edge(Anything, [does |-> "number", option |-> option])>>]

\* The nodes, in the order of the tuple they are made into.
Nodes == <<
  [this |-> "Start", outbound |-> <<Goto(Anything, "AwaitingFlags")>>],
  [this |-> "AwaitingFlags",
   outbound |-> <<
     Goto(InputFlag, "AwaitingInputFile"),
     Goto(Flag["buffer_size"], "buffer_size"),
     Goto(Flag["thread_count"], "thread_count"),
     Goto(Flag["queue_depth"], "queue_depth"),
     Edge(Anything, [does |-> "unexpected"])>>],
  [this |-> "AwaitingInputFile",
   outbound |-> <<Edge(Anything, [does |-> "inputFile"])>>],
  [this |-> "Error", outbound |-> <<Goto(Anything, "Error")>>],
  Number("buffer_size"),
  Number("thread_count"),
  Number("queue_depth") >>

-----------------------------------------------------------------------------
TypeOK ==
  /\ argv \in Seq(Words)
  /\ current \in NodeIndices
  /\ captured \in [errno : {"none", "ERANGE"},
                   error_message : ErrorMessages \cup {None},
                   input_file : Words \cup {None},
                   number : [Options -> (0..SizeMax) \cup {None}]]
  /\ action \in {"none", "ErrorAction", "SuccessAction"}

Init ==
  /\ argv = <<>>
  /\ current = "Start"
  /\ captured = [errno |-> "none", error_message |-> None, input_file |-> None,
                 number |-> [o \in Options |-> None]]
  /\ action = "none"

\* One turn of the loop over argv.
Consume(word) ==
  /\ action = "none"
  /\ Len(argv) < MaxArguments
  /\ argv' = Append(argv, word)
  /\ LET after == Machine!AttemptTransition(Nodes, current, captured, word)
     IN  /\ current' = after.current
         /\ captured' = after.captured
  /\ UNCHANGED action

\* After the last word.
CheckErrors ==
  /\ action = "none"
  /\ action' = IF current = "Error" \/ captured.input_file = None
                 THEN "ErrorAction" ELSE "SuccessAction"
  /\ UNCHANGED <<argv, current, captured>>

Next == (\E word \in Words : Consume(word)) \/ CheckErrors

Spec == Init /\ [][Next]_vars

-----------------------------------------------------------------------------
(* What a command line means, read off argv at once: the program's name,   *)
(* then pairs of a flag and its value.                                     *)
Pairs == {i \in 2..Len(argv) : i % 2 = 0}

HasValue(i) == i + 1 <= Len(argv)

IsFlag(w) == w = InputFlag \/ \E o \in Options : w = Flag[o]

IsNumberFlag(w) == \E o \in Options : w = Flag[o]

\* The place of a word that cannot be accepted, in the pair at i.
Wrong(i) ==
  IF ~IsFlag(argv[i]) THEN {i}
  ELSE IF HasValue(i) /\ IsNumberFlag(argv[i]) /\ OutOfRange(argv[i + 1]) THEN {i + 1}
  ELSE {}

WrongPlaces == UNION {Wrong(i) : i \in Pairs}

\* The number a word starts with, in the width of a size_t: the number itself
\* if it fits, and 0 if there is none.
SizeGiven(w) == IF w \in DOMAIN Numeral THEN Numeral[w] % (SizeMax + 1) ELSE 0

\* The value that the last complete pair with this flag gives, converted.
LastGiven(flag, convert(_)) ==
  LET given == {i \in Pairs : argv[i] = flag /\ HasValue(i)}
  IN  IF given = {} THEN None ELSE convert(argv[Max(given) + 1])

(* The machine, which sees one word at a time, agrees with that reading:   *)
(* it is in the error node exactly if some word is unacceptable, blames    *)
(* the first one, and otherwise holds for every option and for the file    *)
(* the last value given, each word being used once, as a flag or a value.  *)
(* A number is held as given if a size_t can hold it.  One that only an    *)
(* unsigned long long can hold is not refused, but held without its high   *)
(* bits: in the Win32 build a thread count of 2^32 is one of 0.            *)
ReadsPairs ==
  IF WrongPlaces # {}
    THEN /\ current = "Error"
         /\ captured.error_message[2] = argv[Min(WrongPlaces)]
    ELSE /\ current # "Error"
         /\ captured.input_file = LastGiven(InputFlag, LAMBDA w : w)
         /\ \A o \in Options : captured.number[o] = LastGiven(Flag[o], SizeGiven)

(* errno is tested after every strtoull and cleared before none.  That no  *)
(* valid number is refused for the range error of an earlier one holds     *)
(* only because the first range error is the end of the parse.             *)
RangeErrorEndsParse == captured.errno = "ERANGE" => current = "Error"

(* The error node is absorbing and its message is the first one: main      *)
(* prints *error_message without a look whether there is one.              *)
FirstErrorReported ==
  [][/\ current = "Error" => current' = "Error" /\ UNCHANGED captured
     /\ action' = "ErrorAction" /\ current = "Error"
          => captured.error_message # None]_vars

=============================================================================
