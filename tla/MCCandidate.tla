----------------------------- MODULE MCCandidate -----------------------------
(* Candidate on four small markets: two or three CEXs, a CEX and a pool, three *)
(* pools on two networks, and two CEXs with funding rates.                    *)
EXTENDS Candidate

Tolerances == [CEX |-> <<1, 50>>, DEX |-> <<1, 4>>]
Depths     == [CEX |-> Whole(90), DEX |-> Whole(90)]
Chains     == [p1 |-> "A", p2 |-> "A", p3 |-> "B"]
Fee1       == [v \in {"c1", "c2", "c3"} |-> <<1, 100>>]
Draw1      == [v \in {"c1", "c2", "c3"} |-> <<1, 2>>]
Bridge1    == {{"A", "B"}}
W(n)       == Whole(n)
Half       == <<1, 2>>
Eighth     == <<1, 8>>
MinRoi1    == <<1, 100>>
Deep1      == Whole(300)
Score1     == Whole(30)
Far        == <<39, 100>>
Max1       == <<1, 5>>
Floor1     == <<1, 1500>>
Twenty     == Whole(20)
Lot        == Whole(1000)
Week       == <<1, 50>>
Annual1    == <<1, 20>>

(* A CEX around `bid`/`ask`: a coin at the best price and `deep` ones 2 below *)
(* or above it; the ticker may be ahead of the book.                          *)
Ticked(bid, ask, lead, deep) ==
    [bid |-> W(bid + lead), ask |-> W(ask + lead), rate |-> None,
     book |-> [type |-> "CEX", asks |-> <<<<W(ask), One>>, <<W(ask + 2), W(deep)>>>>,
               bids |-> <<<<W(bid), One>>, <<W(bid - 2), W(deep)>>>>]]
Thin(bid, ask) == [Ticked(bid, ask, 0, 1) EXCEPT
    !.book.asks = <<<<W(ask), <<1, 4>>>>, <<W(ask + 2), <<1, 4>>>>>>,
    !.book.bids = <<<<W(bid), <<1, 4>>>>, <<W(bid - 2), <<1, 4>>>>>>]
At(bid, ask) == Ticked(bid, ask, 0, 1)
Rate(n, times) == [Ticked(100, 101, 0, 1) EXCEPT !.rate = <<Frac(n, 10 * times), times>>]
Pool(spot) == [bid |-> None, ask |-> None, rate |-> None,
               book |-> [type |-> "DEX", base |-> W(19), fee |-> <<1, 20>>,
                         quote |-> W(19 * spot)]]
Gas(a, b) == [A |-> a, B |-> b]

(* Evidence: nothing is known yet; all is well; degraded and noisy.           *)
Facts(window, rates, degraded, trouble, known, rows, predicted) ==
    [window |-> [v \in {"c1", "c2", "c3", "p1", "p2", "p3"} |-> window],
     rates |-> [v \in {"c1", "c2", "c3"} |-> rates],
     degraded |-> degraded, trouble |-> trouble, known |-> known, rows |-> rows,
     predicted |-> predicted]
Calm    == [v \in {"c1", "c2", "c3", "p1", "p2", "p3"} |-> 0]
Ended(reason, life) == [reason |-> reason, life |-> life]
Real    == <<Ended("TTL_EXCEEDED", 90), Ended("SPREAD_CLOSED", 10)>>
Mixed   == Append(Append(Real, Ended("SPREAD_CLOSED", 9)), Ended("VENUE_OFFLINE", 60))
Little  == Facts(<<100>>, <<1>>, {}, Calm, FALSE, Mixed, FALSE)
Well    == Facts(<<100, 100, 101>>, <<3, 3, 3>>, {"c1", "p1"}, Calm, TRUE, Real, TRUE)
Poor    == Facts(<<100, 104, 108, 100>>, <<-1, 0, 1>>, {"c2", "p1"},
                 [Calm EXCEPT !["c1"] = 50, !["c2"] = 10], TRUE, Mixed, TRUE)
Shaky   == {Well, Poor}
New     == {Little, Well}
Weights1 == [fresh |-> 20, liquidity |-> 20, stability |-> 15, health |-> 15,
             reliability |-> 15, completeness |-> 15]
Weights2 == [profit |-> 40, liquidity |-> 25, confidence |-> 20, risk |-> 15]
Tiers1   == [top |-> 85, high |-> 70, medium |-> 50]
Fifty    == Whole(50)

Markets == [
  exchanges |->
    [states |-> [c1 |-> {At(99, 100), At(103, 104)},
                 c2 |-> {At(101, 102), At(103, 104), At(110, 111), Ticked(110, 111, -8, 1)},
                 c3 |-> {At(105, 106), Thin(130, 131)}],
     gas |-> {Gas(None, None)}, lead |-> FALSE, silent |-> {"c1"}, failing |-> {},
     evidence |-> Shaky],
  withPool |->
    [states |-> [c1 |-> {At(99, 100), At(110, 111)},
                 p1 |-> {Pool(100), Pool(120)}],
     gas |-> {Gas(None, None), Gas(Half, Half), Gas(W(4), W(4))},
     lead |-> FALSE, silent |-> {"p1"}, failing |-> {"c1"}, evidence |-> Shaky],
  pools |->
    [states |-> [p1 |-> {Pool(100), Pool(130)}, p2 |-> {Pool(135)}, p3 |-> {Pool(140)}],
     gas |-> {Gas(Half, None), Gas(Half, Half)},
     lead |-> FALSE, silent |-> {}, failing |-> {}, evidence |-> New],
  carry |->
    [states |-> [c1 |-> {Rate(1, 1), Rate(2, 1)}, c2 |-> {Rate(4, 1), Rate(30, 2), Rate(3, 10)}],
     gas |-> {Gas(None, None)}, lead |-> TRUE, silent |-> {"c1"}, failing |-> {"c2"},
     evidence |-> Shaky]]
(* TLC evaluates what a constant stands for at every use.                     *)
Four == Markets
==============================================================================
