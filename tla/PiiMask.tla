-------------------------------- MODULE PiiMask --------------------------------
(***************************************************************************)
(* app/compliance/pii.py: mask_messages, which replaces what the detectors *)
(* find in the messages of a request by numbered placeholders before they  *)
(* go to the provider.  A step is one turn of one of its loops.            *)
(*                                                                         *)
(* A text is a sequence of symbols <<"text", n>>; a placeholder is the     *)
(* symbol <<type, index>>.  A detector is a regular expression with a      *)
(* check; what it finds in a text is any set of disjoint spans, as         *)
(* finditer yields them.  Different detectors' spans may overlap.          *)
(***************************************************************************)
EXTENDS Integers, Sequences

CONSTANTS
    Priority,  \* DETECTOR_PRIORITY, a sequence of types
    Enabled,   \* settings.pii_types
    Letters,   \* numbers of the symbols texts are made of
    Lengths    \* bound: Lengths[i] symbols at most in the i-th message

Types == {Priority[i] : i \in 1..Len(Priority)}

ASSUME PriorityAssumption ==
    /\ Priority \in Seq(Types)
    /\ \A i, j \in 1..Len(Priority) : Priority[i] = Priority[j] => i = j
ASSUME EnabledAssumption == Enabled \subseteq Types
ASSUME LengthsAssumption == Lengths \in Seq(Nat)

VARIABLES
    messages,      \* masked_messages, each with its text and its spans
    counts,        \* counts[type]
    nextIndexes,   \* next_indexes[type]
    placeholders,  \* records of type, raw value and index
    phase,         \* the loop that runs: "next" is that of mask_messages
    text,          \* message.content
    found,         \* what the detectors find in it
    rank,          \* place in DETECTOR_PRIORITY
    accepted,      \* candidates
    todo,          \* the candidates _apply_mask has yet to come to
    masked         \* the text as far as it is replaced

tables == <<counts, nextIndexes, placeholders>>
vars == <<messages, tables, phase, text, found, rank, accepted, todo, masked>>

\* text[from : to] in Python: from is before the first symbol.
Candidates(n) == {c \in [from : 0..n, to : 0..n, type : Types] : c.from < c.to}
Raw(s, c) == SubSeq(s, c.from + 1, c.to)

Meet(c, d) == c.from < d.to /\ d.from < c.to

\* What the detectors may find in a text of n symbols.
Disjoint(D) == \A c, d \in D : c.type = d.type /\ c # d => ~Meet(c, d)
Detections(n) == {D \in SUBSET Candidates(n) : Disjoint(D)}

Texts(n) == UNION {[1..m -> {<<"text", a>> : a \in Letters}] : m \in 0..n}

Init ==
    /\ messages = <<>>
    /\ counts = [t \in Types |-> 0]
    /\ nextIndexes = [t \in Types |-> 0]
    /\ placeholders = {}
    /\ phase = "next"
    /\ text = <<>>
    /\ found = {}
    /\ rank = 1
    /\ accepted = {}
    /\ todo = {}
    /\ masked = <<>>

TakeWithNewIndexes(s, D) ==
    /\ phase = "next"
    /\ phase' = "collect"
    /\ text' = s
    /\ found' = D
    /\ rank' = 1
    /\ accepted' = {}
    /\ nextIndexes' = [t \in Types |-> 0]
    /\ UNCHANGED <<messages, counts, placeholders, todo, masked>>
\* The next message; the tables are those of the whole request.
Take(s, D) ==
    /\ phase = "next"
    /\ phase' = "collect"
    /\ text' = s
    /\ found' = D
    /\ rank' = 1
    /\ accepted' = {}
    /\ UNCHANGED <<messages, tables, todo, masked>>

OverlapsTouching(c, A) == \E d \in A : c.from <= d.to /\ d.from <= c.to
\* _overlaps
Overlaps(c, A) == \E d \in A : c.from < d.to /\ d.from < c.to

\* _collect_candidates, one type: its spans do not overlap each other, so
\* each is compared with those of the types before it.
Collect ==
    /\ phase = "collect"
    /\ rank <= Len(Priority)
    /\ accepted' =
          IF Priority[rank] \notin Enabled THEN accepted
          ELSE accepted \union {c \in found : c.type = Priority[rank] /\ ~Overlaps(c, accepted)}
    /\ rank' = rank + 1
    /\ UNCHANGED <<messages, tables, phase, text, found, todo, masked>>

\* _apply_mask begins; with no candidates neither loop takes a turn.
ApplyMask ==
    /\ phase = "collect"
    /\ rank > Len(Priority)
    /\ phase' = "number"
    /\ todo' = accepted
    /\ UNCHANGED <<messages, tables, text, found, rank, accepted, masked>>

Leftmost(c) == c \in todo /\ \A d \in todo : c.from <= d.from
Rightmost(c) == c \in todo /\ \A d \in todo : d.from <= c.from

\* The key (pii_type, raw_value) of a candidate.
IsKeyOf(q, c) == q.type = c.type /\ q.raw = Raw(text, c)

\* _apply_mask, first loop: count, and give a new value the next index of
\* its type.
Number(c) ==
    /\ phase = "number"
    /\ Leftmost(c)
    /\ todo' = todo \ {c}
    /\ counts' = [counts EXCEPT ![c.type] = @ + 1]
    /\ IF \E q \in placeholders : IsKeyOf(q, c)
       THEN UNCHANGED <<nextIndexes, placeholders>>
       ELSE LET index == nextIndexes[c.type] + 1 IN
            /\ nextIndexes' = [nextIndexes EXCEPT ![c.type] = index]
            /\ placeholders' = placeholders \union
                  {[type |-> c.type, raw |-> Raw(text, c), index |-> index]}
    /\ UNCHANGED <<messages, phase, text, found, rank, accepted, masked>>

\* Between the loops: masked = text.
Numbered ==
    /\ phase = "number"
    /\ todo = {}
    /\ phase' = "replace"
    /\ todo' = accepted
    /\ masked' = text
    /\ UNCHANGED <<messages, tables, text, found, rank, accepted>>

\* masked[:start] + placeholder + masked[end:]
Splice(s, c, symbol) == (SubSeq(s, 1, c.from) \o <<symbol>>) \o SubSeq(s, c.to + 1, Len(s))

InTurnFromLeft(c) == Leftmost(c)
\* Sorted in reverse: the spans to the left stay where they are.
InTurn(c) == Rightmost(c)

\* _apply_mask, second loop.
Replace(c) ==
    /\ phase = "replace"
    /\ InTurn(c)
    /\ todo' = todo \ {c}
    /\ \E q \in placeholders :
          IsKeyOf(q, c) /\ masked' = Splice(masked, c, <<c.type, q.index>>)
    /\ UNCHANGED <<messages, tables, phase, text, found, rank, accepted>>

\* The masked message is appended.
Masked ==
    /\ phase = "replace"
    /\ todo = {}
    /\ phase' = "next"
    /\ messages' = Append(messages,
           [text |-> text, found |-> found, accepted |-> accepted, masked |-> masked])
    /\ UNCHANGED <<tables, text, found, rank, accepted, todo, masked>>

\* for message in messages: some text, and something found in it.
TakeNext ==
    /\ phase = "next"
    /\ Len(messages) < Len(Lengths)
    /\ \E s \in Texts(Lengths[Len(messages) + 1]) : \E D \in Detections(Len(s)) : Take(s, D)

Next ==
    \/ TakeNext
    \/ Collect
    \/ ApplyMask
    \/ \E c \in todo : Number(c) \/ Replace(c)
    \/ Numbered
    \/ Masked

Spec == Init /\ [][Next]_vars

-----------------------------------------------------------------------------
\* Indexes of a type run from 1 without gaps, and spans lie in their text.
TypeOK ==
    /\ counts \in [Types -> Nat]
    /\ nextIndexes \in [Types -> Nat]
    /\ \A t \in Types :
          {q.index : q \in {q \in placeholders : q.type = t}} = 1..nextIndexes[t]
    /\ phase \in {"next", "collect", "number", "replace"}
    /\ rank \in 1..Len(Priority) + 1
    /\ found \subseteq Candidates(Len(text)) /\ Disjoint(found)
    /\ todo \subseteq accepted /\ accepted \subseteq found

(***************************************************************************)
(* How the masked text is to be read: its symbols stand for consecutive    *)
(* pieces of the text, symbol p for the piece that ends at ends[p].        *)
(***************************************************************************)
Start(ends, p) == IF p = 1 THEN 0 ELSE ends[p - 1]
StandsFor(ends, p, c) == Start(ends, p) = c.from /\ ends[p] = c.to

\* A symbol is the text's own, outside every accepted span, or a placeholder
\* for one.
Reads(m, ends) ==
    /\ Start(ends, Len(m.masked) + 1) = Len(m.text)
    /\ \A p \in 1..Len(m.masked) :
          \/ /\ ends[p] = Start(ends, p) + 1
             /\ \A c \in m.accepted : ends[p] \notin c.from + 1..c.to
             /\ m.masked[p] = m.text[ends[p]]
          \/ \E c \in m.accepted :
                /\ StandsFor(ends, p, c)
                /\ \E i \in 1..nextIndexes[c.type] : m.masked[p] = <<c.type, i>>

Readings(m) == {ends \in [1..Len(m.masked) -> 1..Len(m.text)] : Reads(m, ends)}

\* A message goes out as it came in except that each accepted span is one
\* placeholder of its type (_apply_mask): no replacement shifts the next one.
MaskedExactly ==
    \A i \in 1..Len(messages) : Readings(messages[i]) # {}

\* In all messages of a request two placeholders are the same exactly when
\* they stand for the same text of the same type (_apply_mask's tables are
\* shared): the provider can follow who is who and cannot mix up two.
Coreference ==
    \A i, j \in 1..Len(messages) :
       LET m == messages[i]
           n == messages[j] IN
       \E endsM \in Readings(m), endsN \in Readings(n) :
          \A p \in 1..Len(m.masked), q \in 1..Len(n.masked) :
             \A c \in m.accepted, d \in n.accepted :
                StandsFor(endsM, p, c) /\ StandsFor(endsN, q, d) =>
                   (m.masked[p] = n.masked[q] <=>
                       c.type = d.type /\ Raw(m.text, c) = Raw(n.text, d))

Rank(t) == CHOOSE i \in 1..Len(Priority) : Priority[i] = t

\* A span an enabled detector found is skipped (_collect_candidates) only for
\* one of a detector before it that takes some of its symbols.
EveryCandidateTouched ==
    \A i \in 1..Len(messages) :
       LET m == messages[i] IN
       \A c \in {c \in m.found : c.type \in Enabled} \ m.accepted :
          \E d \in m.accepted : Meet(c, d) /\ Rank(d.type) < Rank(c.type)

\* README.md: "redacts personal data (Korean resident registration numbers,
\* Luhn-valid card numbers, phone numbers, emails) from request messages
\* before they reach the upstream provider".  Nothing of what an enabled
\* detector found is left in the message that goes out.
NothingDetectedLeft ==
    \A i \in 1..Len(messages) :
       LET m == messages[i] IN
       \A c \in {c \in m.found : c.type \in Enabled} :
          c.from + 1..c.to \subseteq UNION {d.from + 1..d.to : d \in m.accepted}
=============================================================================
