---------------------------- MODULE MCPathControl ----------------------------
(* Two outputs behind a mixer; lists with ranges, well-formed and not, that  *)
(* lead to one converter; a chain; an output played at every rate, refused   *)
(* parameters among them.                                                    *)
EXTENDS PathControl

One(n) == [nid |-> n, range |-> FALSE]
UpTo(n) == [nid |-> n, range |-> TRUE]
Widgets(kinds, lists) == [w \in 2 .. Len(kinds) + 1 |->
    [nid |-> w, kind |-> kinds[w - 1], conns |-> lists[w - 1], assoc |-> 1, seq |-> 0]]

\* Outputs 2 and 3 that share a mixer but for the direct way of 3.
Shared == Widgets(<<"outPin", "outPin", "mixer", "dac", "dac">>,
                  <<<<One(4)>>, <<One(4), One(6)>>, <<One(5), One(6)>>, <<>>, <<>>>>)

\* An output whose list leads to one converter, d, among dead ends.
Lists == {<<One(3), One(4), One(5), One(6)>>, <<One(3), UpTo(5), One(6)>>,
          <<One(5), One(3), UpTo(4), One(6)>>, <<UpTo(4), UpTo(6), One(3)>>}
Fans == {Widgets(<<"outPin">> \o [i \in 1 .. 4 |-> IF i + 2 = d THEN "dac" ELSE "selector"],
                 <<l, <<>>, <<>>, <<>>, <<>>>>) : l \in Lists, d \in 3 .. 6}
Chain == Widgets(<<"outPin", "otherPin", "selector", "dac">>,
                 <<<<One(3)>>, <<One(2), One(4)>>, <<One(5), One(3)>>, <<>>>>)
Single == Widgets(<<"outPin", "dac">>, <<<<One(3)>>, <<>>>>)

P(rate, channels, fmt) == [rate |-> rate, channels |-> channels, fmt |-> fmt, periodSize |-> 2,
                           periods |-> 2, distance |-> 1, callback |-> TRUE]
Params == {P(RateTable[i][1], 2, "pcm16") : i \in DOMAIN RateTable}
          \cup {P(48000, c, f) : c \in {0, 1, 16, 17}, f \in {"pcm8", "pcm20", "pcm24", "pcm32"}}
          \cup {P(r, 2, "pcm16") : r \in {0, 5512, 8001, 44099, 192001}}
          \cup {[P(48000, 2, "pcm16") EXCEPT !.periodSize = 3],
                [P(48000, 2, "pcm16") EXCEPT !.periods = 257],
                [P(48000, 2, "pcm16") EXCEPT !.distance = 3]}
Stereo == P(44100, 2, "pcm16")
Offer(l, p, v, t) == [layout |-> l, params |-> p, volumes |-> v, timeouts |-> t]
MCOffers == {Offer(Shared, Stereo, {}, 1), Offer(Shared, Stereo, {33}, 0)}
            \cup {Offer(l, Stereo, {-1, 33, 200}, 1) : l \in Fans}
            \cup {Offer(Chain, Stereo, {50}, 2)}
            \cup {Offer(Single, p, {}, 0) : p \in Params}

MCStep == [n \in 0 .. 255 |-> CASE n = 2 -> 9 [] n = 6 -> 127 [] n \in {3, 4, 5} -> 31 [] OTHER -> 0]
=============================================================================
