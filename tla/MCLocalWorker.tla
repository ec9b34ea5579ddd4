---------------------------- MODULE MCLocalWorker ----------------------------
(* Small instances of LocalWorker for TLC. *)
EXTENDS LocalWorker, TLC

CONSTANTS encoder, encoderQ, ner, decoder, llm

MCFiles == {encoder, encoderQ, ner, decoder}

(* A BERT encoder with its quantized variant, a token classifier, and a    *)
(* decoder, which asks for other inputs.                                   *)
MCShape == (encoder :> "hidden") @@ (encoderQ :> "hidden") @@ (ner :> "labels")
            @@ (decoder :> "vocab")
MCInputs == [f \in MCFiles |-> IF f = decoder THEN {"input_ids"}
                               ELSE {"input_ids", "attention_mask"}]
MCQuantized == [f \in MCFiles |-> IF f = encoder THEN encoderQ ELSE None]
MCLlmFormat == [l \in {llm} |-> "gguf"]
MCLlmSize == [l \in {llm} |-> 20]

MCTask(kind, text, complexity, preferred) ==
    [kind |-> kind, text |-> text, complexity |-> complexity,
     preferred |-> preferred, size |-> "other"]

MCTasks == {MCTask("pii", TRUE, "low", None), MCTask("pii", FALSE, "low", None),
            MCTask("other", TRUE, "high", "auto"),
            MCTask("other", FALSE, "medium", "local"),
            MCTask("pii", TRUE, "medium", "cloud")}

MCReading(temp, ram, cpu, battery, plugged, npu) ==
    [temp |-> temp, cpu |-> cpu, battery |-> battery, plugged |-> plugged,
     ram |-> ram, npu |-> npu]

(* A machine at rest, the same on its battery, warm, hot, at the limit, and*)
(* three with little memory.                                               *)
MCReadings ==
    {MCReading(None, 80, 20, None, TRUE, FALSE),
     MCReading(65, 80, 80, 9, FALSE, FALSE),
     MCReading(65, 80, 80, 9, TRUE, FALSE),
     MCReading(75, 80, 99, None, TRUE, FALSE),
     MCReading(70, 80, 80, 10, FALSE, FALSE),
     MCReading(65, 8, 20, None, TRUE, TRUE),
     MCReading(40, 19, 80, None, TRUE, TRUE),
     MCReading(40, 19, 80, 10, FALSE, FALSE)}

-----------------------------------------------------------------------------
(* Texts of four tokens of one character each, every one with a label, and *)
(* with a space before it, without one, or without a place.                *)

Labels == {Outside, <<"B", "PER">>, <<"I", "PER">>, <<"B", "LOC">>}
Joints == {"space", "glued", "blank"}

Width(joint) == CASE joint = "space" -> 2 [] joint = "glued" -> 1 [] OTHER -> 0

PlaceEnds(joints) ==
    [i \in 1..4 |-> SumFunctionOnSet([j \in 1..4 |-> Width(joints[j])], 1..i)]

TextOf(labels, joints) ==
    [i \in 1..4 |->
        LET end == PlaceEnds(joints)[i]
        IN  [label |-> labels[i],
             place |-> IF joints[i] = "blank" THEN <<0, 0>> ELSE <<end - 1, end>>]]

MCTexts == {[tokens |-> TextOf(labels, joints), length |-> 9] :
                labels \in [1..4 -> Labels], joints \in [1..4 -> Joints]}

=============================================================================
