--------------------------- MODULE MCAcquisition ---------------------------
EXTENDS Acquisition, SequencesExt

CONSTANTS s, a, b, c, d, e, away, broken, refused

MCUrls == {s, a, b, c, d, e, away, broken, refused}

InOrder(S) ==
    SelectSeq(<<a, b, c, d, e, s, away, broken, refused>>, LAMBDA u : u \in S)
Image == [html |-> FALSE, links |-> <<>>]
Doc(S) == [html |-> TRUE, links |-> InOrder(S)]

Self == [u \in MCUrls |-> u]

\* A link that redirects to a sibling; two of them, and one that leaves the
\* site.
Redirects ==
    {Self, [Self EXCEPT ![a] = b], [Self EXCEPT ![b] = away, ![c] = a, ![d] = a]}

\* Pages that link onwards, back and sideways, and back from another site.
Graphs ==
    {[Self EXCEPT ![s] = Doc(S), ![a] = Doc(A), ![b] = Doc(B), ![c] = Doc(C),
                  ![d] = Image, ![e] = Image, ![away] = Doc({c}),
                  ![broken] = Image, ![refused] = Image] :
        S \in {{a, b}, {a, d}, {a, b, c, d, e}}, A \in {{}, {b}, {b, d}},
        B \in SUBSET {a, c}, C \in {{d}, {s, d}, {away}}}

\* A link that cannot be parsed, and one that cannot be requested.
Traps ==
    {[Self EXCEPT ![s] = Doc({a, link}), ![a] = Doc({b}), ![b] = Image,
                  ![c] = Image, ![d] = Image, ![e] = Image, ![away] = Image,
                  ![broken] = Image, ![refused] = Image] :
        link \in {broken, refused}}

MCWebs ==
    [redirect : Redirects, body : Graphs]
    \union [redirect : {Self}, body : Traps]
=============================================================================
