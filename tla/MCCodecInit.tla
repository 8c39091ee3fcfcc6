----------------------------- MODULE MCCodecInit -----------------------------
(* Codecs whose lists name widgets singly, by ranges, in circles, and nodes  *)
(* that are not widgets; codecs with many output pins to group; codecs with  *)
(* several function groups, holes, long lists and the last node ids.         *)
EXTENDS CodecInit

One(n) == [nid |-> n, range |-> FALSE]
UpTo(n) == [nid |-> n, range |-> TRUE]
W(kind, conns) == [kind |-> kind, conns |-> conns, assoc |-> 0, seq |-> 0, long |-> FALSE]
Pin(conns, assoc, seq) == [kind |-> "outPin", conns |-> conns, assoc |-> assoc, seq |-> seq,
                           long |-> FALSE]
Audio(start, ws) == [audio |-> TRUE, start |-> start, widgets |-> ws]
Modem == [audio |-> FALSE, start |-> 2, widgets |-> <<W("selector", <<>>), W("dac", <<>>)>>]

\* Nodes 2 (an input pin), 3 and 4 (outputs), 5 (a mixer), 6 and 7 (converters).
Lists == {<<>>,
          <<One(6)>>,
          <<One(5)>>,
          <<One(6), One(7)>>,
          <<One(5), One(7)>>,
          <<One(2), One(4)>>,
          <<One(8), One(3)>>,
          <<UpTo(6), One(7)>>,
          <<One(5), UpTo(7)>>,
          <<One(4), UpTo(7), One(2)>>}
PinLists == {<<>>, <<One(6)>>, <<One(8), One(3)>>, <<One(5), UpTo(7)>>}
Mazes == {[first |-> 1, groups |-> <<Audio(2, <<W("otherPin", l[1]), Pin(l[2], 1, 0),
              Pin(l[3], 1, 1), W("mixer", l[4]), W("dac", <<>>), W("dac", <<>>)>>)>>] :
             l \in PinLists \X Lists \X Lists \X Lists}

Labels == {<<0, 0>>, <<1, 1>>, <<1, 2>>, <<2, 0>>, <<15, 0>>}
Boards == {[first |-> 1, groups |-> <<Audio(2, <<Pin(<<>>, p[1][1], p[1][2]),
              Pin(<<>>, p[2][1], p[2][2]), W("otherPin", <<>>), Pin(<<>>, p[3][1], p[3][2]),
              Pin(<<>>, p[4][1], p[4][2]), Pin(<<>>, 1, 0)>>)>>] : p \in [1 .. 4 -> Labels]}

Odd == {[first |-> 1, groups |-> <<Modem, Audio(10, <<Pin(<<One(12), UpTo(15), One(11), One(16)>>, 3, 0),
            W("selector", <<One(15), One(14), One(13), One(12), One(10), One(16)>>)>>),
            Audio(12, <<W("dac", <<>>), W("dac", <<>>), W("dac", <<>>), W("mixer", <<One(11)>>)>>)>>],
        [first |-> 1, groups |-> <<Audio(250, <<Pin(<<>>, 4, 0), W("dac", <<>>),
            W("dac", <<>>), W("dac", <<>>), Pin(<<>>, 4, 1)>>)>>],
        [first |-> 253, groups |-> <<Modem, Audio(126, <<Pin(<<One(127)>>, 4, 0),
            W("dac", <<>>), W("dac", <<>>)>>)>>],
        [first |-> 1, groups |-> <<Audio(2, <<[Pin(<<One(3)>>, 1, 0) EXCEPT !.long = TRUE],
            W("dac", <<>>)>>)>>],
        [first |-> 1, groups |-> <<Modem>>]}

MCCodecs == Mazes \cup Boards \cup Odd
=============================================================================
