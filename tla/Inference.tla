----------------------------- MODULE Inference ------------------------------
(***************************************************************************)
(* The inference runtime: a model is loaded from a file by the back end    *)
(* that its extension names, and called with one input, or with inputs and *)
(* outputs by name, which only ONNX has.  What the libraries of the back   *)
(* ends accept is external.                                                *)
(*                                                                         *)
(* A session is what a file declares.  Numbers are in quarters, and what a *)
(* network computes is [output, of], with the tensors it was computed of.  *)
(***************************************************************************)
EXTENDS Integers, Sequences

CONSTANTS
    Files,      \* what the files declare that may be loaded
    Values,     \* what is given to an input
    Names,      \* of the inputs that are given
    Outputs     \* of the outputs that are asked for

VARIABLES
    compiled,       \* the back ends: USE_TORCH, USE_ONNX
    model,          \* NoModel, or [type, session, loaded_]
    call,           \* the call that is answered, or NoCall
    result          \* [status, answers]

vars == <<compiled, model, call, result>>

Node(name, etype, shape) == [name |-> name, etype |-> etype, shape |-> shape]

File(extension, good, inputs, outputs) ==
    [extension |-> extension, good |-> good, inputs |-> inputs,
     outputs |-> outputs]

Elem(s) == {s[i] : i \in DOMAIN s}

\* What is loaded has inputs and outputs, no two inputs of one name.  Inputs are
\* a batch of one row, or of any number of them; the width may be open too.
InferenceAssumption ==
    /\ \A file \in Files :
          /\ file.inputs \in Seq(Elem(file.inputs))
          /\ file.outputs \in Seq(Elem(file.outputs))
          /\ file.extension \in {".pt", ".onnx"} =>
                Len(file.inputs) > 0 /\ Len(file.outputs) > 0
          /\ \A n \in Elem(file.inputs) :
                /\ n.shape \in Seq(Int) /\ Len(n.shape) = 2
                /\ n.shape[1] \in {-1, 1} /\ n.shape[2] \in Nat \cup {-1}
          /\ \A n, m \in Elem(file.inputs) : n.name = m.name => n = m
    /\ Values \subseteq Seq(Int)

NoModel == [type |-> "none"]
NoCall == [of |-> "none"]
None == [status |-> "none", answers |-> <<>>]
Thrown == [status |-> "thrown", answers |-> <<>>]
Answered(answers) == [status |-> "answered", answers |-> answers]

Init ==
    /\ compiled \in SUBSET {"TORCH", "ONNX"}
    /\ model = NoModel /\ call = NoCall /\ result = None
-----------------------------------------------------------------------------
(* The libraries.                                                          *)

\* A tensor that is created has the elements of its shape, of which there must
\* be enough; -1 is no number of elements.
Elements(shape) ==
    LET Upto[d \in 0 .. Len(shape)] ==
            IF d = 0 THEN 1 ELSE Upto[d - 1] * shape[d]
    IN  Upto[Len(shape)]
CanCreate(data, shape) ==
    /\ \A d \in DOMAIN shape : shape[d] >= 0
    /\ Elements(shape) <= Len(data)
CreateTensor(etype, data, shape) ==
    [etype |-> etype, data |-> SubSeq(data, 1, Elements(shape)), shape |-> shape]

\* A session runs when each input is there, in the type and shape declared.
CanRun(session, tensors) ==
    /\ DOMAIN tensors = {n.name : n \in Elem(session.inputs)}
    /\ \A n \in Elem(session.inputs) :
          /\ tensors[n.name].etype = n.etype
          /\ Len(tensors[n.name].shape) = Len(n.shape)
          /\ \A d \in DOMAIN n.shape : n.shape[d] \in {-1, tensors[n.name].shape[d]}

Run(tensors, output) == [output |-> output, of |-> tensors]
-----------------------------------------------------------------------------
(* ModelFactory.                                                           *)

detect_model_type(file) ==
    CASE file.extension = ".pt" -> "TORCH"
      [] file.extension = ".onnx" -> "ONNX"
      [] OTHER -> "unknown"

\* Mutant: what load returns is not looked at.
LoadedUnchecked(type, file) ==
    [type |-> type, session |-> file, loaded_ |-> file.good /\ type \in compiled]

\* A file that cannot be read, or not by what is compiled in, gives a null.
Loaded(type, file) ==
    IF file.good /\ type \in compiled
    THEN [type |-> type, session |-> file, loaded_ |-> TRUE]
    ELSE NoModel

load_model(file) ==
    /\ call = NoCall
    /\ call' = [of |-> "load_model", file |-> file]
    /\ LET type == detect_model_type(file)
       IN  IF type = "unknown"
           THEN result' = Thrown /\ UNCHANGED model
           ELSE result' = Answered(<<>>) /\ model' = Loaded(type, file)
    /\ UNCHANGED compiled
-----------------------------------------------------------------------------
(* The calls of a model that is not null.                                  *)

\* Torch takes the width that it is given, and its network only its own; ONNX
\* declares the first input of the file, whatever it is given.
forward(input) ==
    /\ call = NoCall /\ model # NoModel
    /\ call' = [of |-> "forward", input |-> input]
    /\ LET first == model.session.inputs[1]
           shape == IF model.type = "TORCH" THEN <<1, Len(input)>> ELSE first.shape
           tensors == [n \in {first.name} |-> CreateTensor("FLOAT", input, shape)]
           output == model.session.outputs[1]
       IN  result' = IF /\ model.loaded_
                        /\ CanCreate(input, shape)
                        /\ CanRun(model.session, tensors)
                     THEN Answered([o \in {output} |-> Run(tensors, output)])
                     ELSE Thrown
    /\ UNCHANGED <<compiled, model>>

\* Halves are rounded away from zero.
llround(v) == IF v >= 0 THEN ((v + 2) \div 4) * 4 ELSE -(((2 - v) \div 4) * 4)

Convert(etype, vals) ==
    IF etype = "FLOAT" THEN vals ELSE [i \in DOMAIN vals |-> llround(vals[i])]

\* inputs maps names to vals; each has the shape {1, size}, which both callers
\* say and which is taken when none is said.
forward_io(inputs, output_names) ==
    /\ call = NoCall /\ model # NoModel
    /\ call' = [of |-> "forward_io", inputs |-> inputs, names |-> output_names]
    /\ LET declared == model.session.inputs
           nodes == {n \in Elem(declared) : n.name \in DOMAIN inputs}
           Etype(name) == (CHOOSE n \in nodes : n.name = name).etype
           tensors == [name \in {n.name : n \in nodes} |->
                        CreateTensor(Etype(name), Convert(Etype(name), inputs[name]),
                                     <<1, Len(inputs[name])>>)]
       IN  result' = IF /\ model.loaded_ /\ model.type = "ONNX"
                        /\ DOMAIN tensors = DOMAIN inputs
                        /\ output_names \subseteq Elem(model.session.outputs)
                        /\ CanRun(model.session, tensors)
                     THEN Answered([o \in output_names |-> Run(tensors, o)])
                     ELSE Thrown
    /\ UNCHANGED <<compiled, model>>

Return ==
    /\ call # NoCall
    /\ call' = NoCall /\ result' = None
    /\ UNCHANGED <<compiled, model>>

Next ==
    \/ \E file \in Files : load_model(file)
    \/ \E input \in Values : forward(input)
    \/ \E given \in SUBSET Names : \E inputs \in [given -> Values] :
          \E names \in SUBSET Outputs : forward_io(inputs, names)
    \/ Return

Spec == Init /\ [][Next]_vars
-----------------------------------------------------------------------------
\* The variables have values of their types.
TypeOK ==
    /\ compiled \subseteq {"TORCH", "ONNX"}
    /\ model = NoModel \/ model \in [type : {"TORCH", "ONNX"}, session : Files,
                                     loaded_ : BOOLEAN]
    /\ call.of \in {"none", "load_model", "forward", "forward_io"}
    /\ result.status \in {"none", "thrown", "answered"}

\* InitRL takes a model that is not null for one that can be called: an
\* observation of the width that its only input declares is answered, the whole
\* of it, unless the input is not of floats or the file leaves the number of rows
\* open, which ONNX cannot create.
LoadedOrNone ==
    (/\ call.of = "forward" /\ Len(model.session.inputs) = 1
     /\ Len(call.input) = model.session.inputs[1].shape[2])
        => LET first == model.session.inputs[1]
               output == model.session.outputs[1]
           IN  IF \/ first.etype # "FLOAT"
                  \/ model.type = "ONNX" /\ first.shape[1] = -1
               THEN result = Thrown
               ELSE /\ result.status = "answered"
                    /\ result.answers[output].of[first.name].data = call.input

WholeNumber(v) == v % 4 = 0

\* Whether numbers are those given, or for integers the nearest to them.
Near(etype, got, vals) ==
    \A i \in DOMAIN got : \/ got[i] = vals[i]
                          \/ /\ etype # "FLOAT" /\ WholeNumber(got[i])
                             /\ got[i] - vals[i] \in -2 .. 2

\* Each output that is asked for by its name is answered under it, from what was
\* given to each input under its name, in whatever order and types the file
\* declares them; and a call that gives and asks what the file has is answered.
AnswersByName ==
    call.of = "forward_io" =>
        LET inputs == Elem(model.session.inputs)
        IN  /\ result.status = "answered" =>
                  /\ DOMAIN result.answers = call.names
                  /\ \A o \in call.names : \A n \in inputs :
                        /\ result.answers[o].output = o
                        /\ Near(n.etype, result.answers[o].of[n.name].data,
                                call.inputs[n.name])
            /\ (/\ model.type = "ONNX"
                /\ DOMAIN call.inputs = {n.name : n \in inputs}
                /\ \A n \in inputs :
                      n.shape[2] \in {-1, Len(call.inputs[n.name])}
                /\ call.names \subseteq Elem(model.session.outputs))
                  => result.status = "answered"

\* A model that is handed out answers, and with what was asked for.
InferenceSafe == TypeOK /\ LoadedOrNone /\ AnswersByName
=============================================================================
