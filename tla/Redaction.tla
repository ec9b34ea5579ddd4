------------------------------ MODULE Redaction ------------------------------
(***************************************************************************)
(* _redact_ner_spans of core/local_worker.py: what of a text is masked,    *)
(* given the label the model predicts for each token.                      *)
(*                                                                         *)
(* A token is its label and its place in the text, from its first          *)
(* character up to, not including, its last + 1, as the tokenizer's        *)
(* offsets are; special tokens and padding have the place <<0, 0>>.  A     *)
(* label is "O" or a prefix and an entity.  A text is its length, and what *)
(* is masked of it the set of the positions that are kept: that one marker *)
(* replaces each span is wording.                                          *)
(***************************************************************************)
EXTENDS Integers, Sequences, FiniteSetsExt

Outside == <<"O", "O">>

Tokens == [label : {"B", "I", "O"} \X STRING, place : Nat \X Nat]

Blank(token) == token.place = <<0, 0>>
IsEntity(token) == token.label[1] \in {"B", "I"}
Entity(token) == token.label[2]

(* What the tokenizer gives for a text: places that rise, in the text.     *)
WellPlaced(tokens, length) ==
    /\ tokens \in Seq(Tokens)
    /\ length \in Nat
    /\ \A i \in DOMAIN tokens : ~Blank(tokens[i]) =>
            /\ tokens[i].place[1] <= tokens[i].place[2]
            /\ tokens[i].place[2] <= length
            /\ \A j \in DOMAIN tokens : i < j /\ ~Blank(tokens[j]) =>
                    tokens[i].place[2] <= tokens[j].place[1]

(* Faulty: stops at a token without a place. *)
SpanStopAtBlank(tokens, i) ==
    LET stops == {j \in (i + 1)..Len(tokens) :
                    ~IsEntity(tokens[j]) \/ Entity(tokens[j]) # Entity(tokens[i])}
    IN  IF stops = {} THEN Len(tokens) + 1 ELSE Min(stops)

(* The inner loop: the token a span that starts at token i stops before.   *)
(* A new beginning of the same kind of entity does not stop it.            *)
SpanStop(tokens, i) ==
    LET stops == {j \in (i + 1)..Len(tokens) :
                    /\ ~Blank(tokens[j])
                    /\ ~IsEntity(tokens[j]) \/ Entity(tokens[j]) # Entity(tokens[i])}
    IN  IF stops = {} THEN Len(tokens) + 1 ELSE Min(stops)

SpanEnd(tokens, i) ==
    LET last == Max({j \in i..(SpanStop(tokens, i) - 1) : ~Blank(tokens[j])})
    IN  tokens[last].place[2]

(* The outer loop, from token i on. *)
Spans(tokens) ==
    LET n == Len(tokens)
        from[i \in 1..(n + 1)] ==
            IF i > n THEN <<>>
            ELSE IF Blank(tokens[i]) \/ ~IsEntity(tokens[i]) THEN from[i + 1]
            ELSE <<[start |-> tokens[i].place[1], end |-> SpanEnd(tokens, i)]>>
                    \o from[SpanStop(tokens, i)]
    IN  from[1]

(* What is put together again: the text between the spans, which are in    *)
(* the order the code sorts them in, since the places are.                 *)
Kept(tokens, length) ==
    LET spans == Spans(tokens)
        n == Len(spans)
        pos(k) == IF k = 0 THEN 0 ELSE spans[k].end
    IN  UNION {pos(k)..((IF k = n THEN length ELSE spans[k + 1].start) - 1) :
                    k \in 0..n}

-----------------------------------------------------------------------------
(* What is to be masked: the tokens of an entity, and what is between two  *)
(* of the same kind that follow each other.                                *)

Covers(token, p) == ~Blank(token) /\ p >= token.place[1] /\ p < token.place[2]

Between(tokens, i, j, p) ==
    /\ ~Blank(tokens[i]) /\ ~Blank(tokens[j])
    /\ IsEntity(tokens[i]) /\ IsEntity(tokens[j])
    /\ Entity(tokens[i]) = Entity(tokens[j])
    /\ \A k \in (i + 1)..(j - 1) : Blank(tokens[k])
    /\ p >= tokens[i].place[2] /\ p < tokens[j].place[1]

Sensitive(tokens, p) ==
    \/ \E i \in DOMAIN tokens : IsEntity(tokens[i]) /\ Covers(tokens[i], p)
    \/ \E i, j \in DOMAIN tokens : i < j /\ Between(tokens, i, j, p)

(* The text keeps exactly the rest.                                        *)
MasksEntities(tokens, length) ==
    Kept(tokens, length) = {p \in 0..(length - 1) : ~Sensitive(tokens, p)}

=============================================================================
