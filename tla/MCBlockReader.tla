----------------------------- MODULE MCBlockReader ----------------------------
(* Files of at most two blocks for TLC, with words of 7 bits in groups of 3, *)
(* so that a number has up to three groups and the last holds one bit, as the*)
(* tenth of 64 in groups of 7 does.                                          *)
EXTENDS BlockReader, TLC

Rec(n, text) == [value |-> n, text |-> text]

\* The smallest and the largest word, zero and both sides of it, and where the
\* number of groups changes.
Numbers == {-64, -33, -32, -5, -4, -1, 0, 3, 4, 31, 32, 63}
Texts == {<<>>, <<9>>, <<0, 8, 15>>}

\* As a record the first is incomplete, the second is -3 with an empty string and
\* the third -3 with a string that ends two bytes in front of its beginning.
Marker1 == <<5, 12>>
Marker2 == <<5, 0>>
Marker3 == <<5, 3>>

\* Each number with each text; two blocks; an empty block.
Written ==
    {<< <<Rec(n, t), Rec(1, <<>>)>> >> : n \in Numbers, t \in Texts}
    \cup {<< <<Rec(2, <<7>>)>>, <<Rec(n, <<>>), Rec(3, t)>> >> :
             n \in {-64, 3, 63}, t \in Texts}
    \cup {<<>>, << <<>>, <<Rec(1, <<4>>)>> >>}

\* The metadata, the schema in front of the codec and behind it.
Magic == <<6, 2>>
KeyOfSchema == <<11>>
Metadata1 == <<<<KeyOfSchema, <<14, 9>>>>, <<<<3, 4>>, <<5>>>>>>
Metadata2 == <<<<<<3, 4>>, <<5>>>>, <<KeyOfSchema, <<14, 9>>>>>>

FileOf(metadata, w, overcount, marker) ==
    [metadata |-> metadata, written |-> w, overcount |-> overcount, sync |-> marker,
     bytes |-> <<>>]

Complete(f) == [f EXCEPT !.bytes = FileBytes(f)[Len(f.written)]]

\* Cut at one of the places from a length on, and not at all.
Cuts(f, from) ==
    LET whole == Complete(f).bytes
    IN  {[f EXCEPT !.bytes = SubSeq(whole, 1, n)] : n \in from..Len(whole)}

\* Cut anywhere behind the header, for every content, and anywhere in the header.
CutFiles ==
    UNION {LET f == FileOf(Metadata1, w, 0, Marker1)
           IN  Cuts(f, Len(FileBytes(f)[0])) : w \in Written}
    \cup UNION {Cuts(FileOf(m, w, 0, Marker1), 0) :
                  m \in {Metadata1, Metadata2}, w \in {<<>>, << <<Rec(2, <<7>>)>> >>}}

\* More records announced than there are.
OvercountedFiles ==
    {Complete(FileOf(Metadata1, w, c, m)) :
        w \in Written, c \in {1, 2, 3}, m \in {Marker1, Marker2, Marker3}}

AllFiles == CutFiles \cup OvercountedFiles
===============================================================================
