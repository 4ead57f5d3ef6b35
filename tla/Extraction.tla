----------------------------- MODULE Extraction -----------------------------
(***************************************************************************)
(* What the answer of the model is made into when a receipt is parsed: the  *)
(* body is taken from the parts of the message, the model reads one text of *)
(* it, and the amounts it returns must be found in the body.                *)
(*                                                                          *)
(* Amounts are cents.  A figure is an amount as a message prints it: with   *)
(* or without a dollar sign, commas between thousands, cents.  The tree of  *)
(* a message is the sequence of its parts as the walk visits them.          *)
(***************************************************************************)
EXTENDS Integers, Sequences, SequencesExt, FiniteSets

CONSTANT NoValue  \* null

-----------------------------------------------------------------------------
(* mime-walk.ts: the first part of a type that has data; a part that is       *)
(* decoded to nothing leaves the place to the next.                           *)

FirstOf(type, parts) ==
    LET first == SelectInSeq(parts, LAMBDA p : p.type = type /\ ~p.empty)
    IN IF first = 0 THEN NoValue ELSE parts[first]

Bodies(parts) == [plain |-> FirstOf("text/plain", parts), html |-> FirstOf("text/html", parts)]

FiguresOf(part) == IF part = NoValue THEN {} ELSE part.figures

\* receiptBodyText: the figures that the model can see.
Shown(bodies) ==
    IF bodies.plain # NoValue /\ ~bodies.plain.blank THEN bodies.plain.figures
    ELSE FiguresOf(bodies.html)

-----------------------------------------------------------------------------
(* receipt-amount-validate.ts *)

Corpus_Plain(bodies) == FiguresOf(bodies.plain)

Corpus(bodies) == FiguresOf(bodies.plain) \cup FiguresOf(bodies.html)

\* Ten to the number of digits that "0.00" and longer amounts are written with.
Scale(cents) ==
    LET powers == <<1000, 10000, 100000, 1000000, 10000000>>
    IN powers[SelectInSeq(powers, LAMBDA p : cents < p)]

\* The text of the amount, "1204.55" or "$1,204.55", is part of the figure's: the
\* digits may be the last of a longer figure, but for a comma in between.
FoundIn(figure, cents) ==
    /\ figure.cents
    /\ \/ figure.amount % Scale(cents) = cents /\ (figure.commas => cents < 100000)
       \/ figure.dollar /\ figure.commas /\ figure.amount = cents

Unsigned(amount) == IF amount < 0 THEN -amount ELSE amount

AmountsPresent(bodies, amounts) ==
    \A amount \in amounts \ {NoValue} :
        \E figure \in Corpus(bodies) : FoundIn(figure, Unsigned(amount))

-----------------------------------------------------------------------------
(* claude-receipt-extractor.ts *)

\* A decimal string of the model, [whole, cents] or without cents; fromDecimalString.
FromDecimal(decimal) ==
    IF decimal = NoValue THEN NoValue
    ELSE LET minor == 100 * decimal.whole + (IF decimal.cents = NoValue THEN 0 ELSE decimal.cents)
         IN IF decimal.minus THEN -minor ELSE minor

Refused == [total |-> NoValue, items |-> {}, occurredAt |-> "refused"]

\* A ValidationError when a date is no date or an amount is not in the body.
MapReceiptResponse(response, bodies) ==
    LET total == FromDecimal(response.total)
        items == {FromDecimal(d) : d \in response.items}
    IN IF AmountsPresent(bodies, items \cup {total}) /\ response.occurredAt # "not a date"
       THEN [total |-> total, items |-> items, occurredAt |-> response.occurredAt]
       ELSE Refused

=============================================================================
