----------------------------- MODULE MCAlgorithms -----------------------------
(* Small instances of Algorithms.                                           *)
EXTENDS Algorithms

\* letters, with a zero among them, lengths around one and two blocks, pads;
\* behind the buffers a zero, a '0', a blank or none of them
Letters(n) == [i \in 1..n |-> 97 + (i % 26)]
Contents == {Letters(n) : n \in {0, 1, 7, 8, 9, 16}}
              \cup {<<97, 0, 98>>, <<Pad>>, [i \in 1..4 |-> Pad], <<97, Pad, Pad>>}
Garbage == {0, 32, 48, 255}

Lengths == {0, 1, 5, 29}
\* zero, the lowest bit, a letter, and the bits of '+' and '/'
FourBytes == {0, 1, 77, 251}

\* nothing, a name, a text whose length takes two bytes, and no UTF-8
SomeTexts == {<<>>, <<97, 108>>, Letters(130), <<200, 10>>}
BadTexts == {<<200, 10>>}
SomeInts == {0, 5, 300}

=============================================================================
