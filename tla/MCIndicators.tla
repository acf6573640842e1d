---------------------------- MODULE MCIndicators ----------------------------
(* A small instance of Indicators: prices near 100, flat and wide candles.  *)
EXTENDS Indicators

Q(h, l, c) == [high |-> h * Scale, low |-> l * Scale, close |-> c * Scale]

MCQuotes == {Q(100, 100, 100), Q(101, 97, 98), Q(110, 99, 108), Q(90, 90, 90)}
=============================================================================
