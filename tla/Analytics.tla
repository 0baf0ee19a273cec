----------------------------- MODULE Analytics -----------------------------
(***************************************************************************)
(* The analytics of the worker threads: what vta::bar_t, rollup_bar_t,     *)
(* close_t and test_t accumulate from the records of an item and which     *)
(* fields they write to the reply.                                         *)
(*                                                                         *)
(* An analytic is a record of request parameters and accumulators; a       *)
(* worker has one of each kind and uses it again for every request.        *)
(* Prices are integers in units of half the precision of a reply, so that  *)
(* rounding has halves to deal with.                                       *)
(***************************************************************************)
EXTENDS Integers, Sequences, SequencesExt, TLC

CONSTANTS Word,       \* number of values of a uint64_t
          RealMax,    \* 0xFFFFFFFFFFFFFF, what a real holds in seven bytes
          Exponent7,  \* the factor of RSSL_RH_EXPONENT7
          Spacing,    \* how far apart doubles are, about a volume
          Never,      \* where not_a_date_time ends up in a __time32_t
          TimeWord,   \* number of values of an unsigned of 32 bits
          ReaderLow,  \* the earliest time FlexRecReader makes of one
          BarGenPreference  \* of TREP-VA, where the database starts its bars

ASSUME AnalyticsAssumption ==
    /\ Word \in Nat \ {0}
    /\ RealMax \in 0..(Word - 1)
    /\ Exponent7 \in Nat \ {0}
    /\ Word <= RealMax * Exponent7
    /\ Never \in Nat

(* Doubles are at most 2048 apart where a uint64_t ends: less than the     *)
(* exponent.                                                               *)
ASSUME SpacingAssumption == Spacing \in [0..(Word - 1) -> 1..(Exponent7 - 1)]

ASSUME ReaderAssumption ==
    /\ TimeWord \in Nat \ {0}
    /\ ReaderLow \in Int
    /\ BarGenPreference \in {0, 1}

-----------------------------------------------------------------------------
(* Accumulators.                                                           *)

NoSample == [value |-> 0, empty |-> TRUE]

FirstValue(a, x) == IF a.empty THEN [value |-> x, empty |-> FALSE] ELSE a

LastValue(a, x) == [value |-> x, empty |-> FALSE]

Highest(a, x) == IF a.empty \/ x > a.value THEN LastValue(a, x) ELSE a

Lowest(a, x) == IF a.empty \/ x < a.value THEN LastValue(a, x) ELSE a

(* uint64_t sums wrap.                                                     *)
Plus(a, x) == (a + x) % Word

-----------------------------------------------------------------------------
(* Request parameters.  A key that is repeated counts once, the last time; *)
(* atol makes zero of text that is not a number.                           *)

Unset == [open_time |-> Never, close_time |-> Never]

ParseParameter(p, kv) ==
    CASE kv.key = "open"  -> [p EXCEPT !.open_time = kv.value]
      [] kv.key = "close" -> [p EXCEPT !.close_time = kv.value]
      [] OTHER            -> p

ParseRequest(p, query) == FoldLeft(ParseParameter, p, query)

InWindow(p, t) == p.open_time <= t.time /\ t.time <= p.close_time

(* The trades of an item FlexRecReader goes over, oldest first.            *)
InPeriod(p, trades) == {i \in 1..Len(trades) : InWindow(p, trades[i])}

-----------------------------------------------------------------------------
(* bar_t                                                                   *)

NullBar == [open |-> NoSample, high |-> NoSample, low |-> NoSample,
            close |-> NoSample, volume |-> 0, number_trades |-> 0]

(* Mutant of BarReset: the accumulator of prices is forgotten.             *)
BarResetKeepsPrices(b) == [b EXCEPT !.volume = 0]

BarReset(b) == NullBar

BarOnRecord(b, t) ==
    [open          |-> FirstValue(b.open, t.price),
     high          |-> Highest(b.high, t.price),
     low           |-> Lowest(b.low, t.price),
     close         |-> LastValue(b.close, t.price),
     volume        |-> Plus(b.volume, t.volume),
     number_trades |-> b.number_trades + 1]

BarCalculate(b, p, trades) ==
    FoldLeft(LAMBDA a, t : IF InWindow(p, t) THEN BarOnRecord(a, t) ELSE a,
             b, trades)

-----------------------------------------------------------------------------
(* close_t: the newest trade only, in a first-value accumulator.           *)

NullClose == [close |-> NoSample, number_trades |-> 0]

CloseReset(c) == NullClose

CloseOnRecord(c, t) ==
    [close |-> FirstValue(c.close, t.price), number_trades |-> c.number_trades + 1]

CloseCalculate(c, p, trades) ==
    LET period == InPeriod(p, trades)
    IN  IF period = {} THEN c ELSE CloseOnRecord(c, trades[Max(period)])

-----------------------------------------------------------------------------
(* rollup_bar_t: a bar of bars, which the database makes of runs of trades.*)

NullRollup == NullBar

RollupReset(r) == NullRollup

(* Where the database may end its bars: after some trades of the period,   *)
(* the last one among them.                                                *)
Cuts(period) == {cuts \in SUBSET period : period = {} \/ Max(period) \in cuts}

(* A sum in 32 bits, as the reader takes it: a __time32_t when ReaderLow   *)
(* is negative.                                                            *)
ReaderTime(x) == ReaderLow + ((x - ReaderLow) % TimeWord)

(* The bars asked for are those named in the period shifted by its own     *)
(* width, which is also the width of a bar.  Width and sums are unsigned.  *)
RollupWidth(p) == (p.close_time - p.open_time + 1) % TimeWord

RollupFrom(p) == ReaderTime(RollupWidth(p) + p.open_time)

RollupTill(p) == ReaderTime(RollupWidth(p) + p.close_time)

(* The database names a bar by the second after its last, or by its last   *)
(* when BarGenPreference is 0, the default, which "matches (2)": the       *)
(* period a second later.  A trade counts when the bar that starts with it *)
(* is named in the bounds, which is what the header says of its examples;  *)
(* how the database aligns its bars to them is not known here.             *)
Shift == 1 - BarGenPreference

InRollup(p, t) ==
    LET name == t.time + RollupWidth(p) - Shift
    IN  RollupFrom(p) <= name /\ name <= RollupTill(p)

RollupPeriod(p, trades) == {i \in 1..Len(trades) : InRollup(p, trades[i])}

(* The sums stay inside the word.                                          *)
RollupFits(p) ==
    /\ p.close_time - p.open_time + 1 < TimeWord
    /\ RollupFrom(p) = p.close_time + 1
    /\ RollupTill(p) = 2 * p.close_time - p.open_time + 1

RollupOnRecord(r, bar) ==
    [open          |-> FirstValue(r.open, bar.open.value),
     high          |-> Highest(r.high, bar.high.value),
     low           |-> Lowest(r.low, bar.low.value),
     close         |-> LastValue(r.close, bar.close.value),
     volume        |-> Plus(r.volume, bar.volume),
     number_trades |-> Plus(r.number_trades, bar.number_trades)]

(* A trade goes into the bar the database is at, and the bar to the        *)
(* rollup when it ends.                                                    *)
RollupOnTrade(a, t, ends) ==
    LET bar == BarOnRecord(a.bar, t)
    IN  IF ends
          THEN [bar |-> NullBar, rollup |-> RollupOnRecord(a.rollup, bar)]
          ELSE [bar |-> bar, rollup |-> a.rollup]

RollupCalculate(r, p, trades, cuts) ==
    FoldLeft(LAMBDA a, i : IF InRollup(p, trades[i])
                             THEN RollupOnTrade(a, trades[i], i \in cuts)
                             ELSE a,
             [bar |-> NullBar, rollup |-> r],
             [i \in 1..Len(trades) |-> i]).rollup

-----------------------------------------------------------------------------
(* The fields of a reply: a real is blank, or a value and an exponent.     *)

Blank == [blank |-> TRUE, value |-> 0, hint |-> 0]

(* floor(x + 0.5): halves go up, below zero too.                           *)
RoundHalfUp(x) == (x + 1) \div 2

Real(a) == [blank |-> FALSE, value |-> RoundHalfUp(a.value), hint |-> -4]

(* A price is blank when there was no trade.                               *)
PriceReal(number_trades, a) == IF number_trades = 0 THEN Blank ELSE Real(a)

(* Mutant of VolumeReal: the volume is written as it is.                   *)
VolumeRealPlain(v) == [blank |-> FALSE, value |-> v, hint |-> 0]

(* The double a volume is converted to: the nearest, a tie to the even.    *)
NearestDouble(v) ==
    LET below == v - (v % Spacing[v])
        above == below + Spacing[v]
    IN  IF \/ 2 * v < below + above
           \/ 2 * v = below + above /\ (below \div Spacing[v]) % 2 = 0
          THEN below ELSE above

(* rsslDoubleToReal rounds once more, to the exponent.                     *)
VolumeReal(v) ==
    IF v <= RealMax
      THEN [blank |-> FALSE, value |-> v, hint |-> 0]
      ELSE [blank |-> FALSE, hint |-> 7,
            value |-> (NearestDouble(v) + Exponent7 \div 2) \div Exponent7]

CountReal(n) == [blank |-> FALSE, value |-> n, hint |-> 0]

BarFields(b) ==
    [HIGH_1    |-> PriceReal(b.number_trades, b.high),
     LOW_1     |-> PriceReal(b.number_trades, b.low),
     OPEN_PRC  |-> PriceReal(b.number_trades, b.open),
     HST_CLOSE |-> PriceReal(b.number_trades, b.close),
     ACVOL_1   |-> VolumeReal(b.volume),
     NUM_MOVES |-> CountReal(b.number_trades)]

RollupFields(r) ==
    [HIGH_1    |-> PriceReal(r.number_trades, r.high),
     LOW_1     |-> PriceReal(r.number_trades, r.low),
     OPEN_PRC  |-> PriceReal(r.number_trades, r.open),
     HST_CLOSE |-> PriceReal(r.number_trades, r.close),
     ACVOL_1   |-> VolumeReal(r.volume),
     NUM_MOVES |-> CountReal(r.number_trades)]

CloseFields(c) == [HST_CLOSE |-> PriceReal(c.number_trades, c.close)]

(* The quote test_t always answers: constants for every item.              *)
TestFields == [PROD_PERM |-> 213, PREF_DISP |-> 6205, BKGD_REF |-> "text",
               GV1_TEXT |-> "text", GV2_TEXT |-> "text", PRIMACT_1 |-> 822000]

TestContributor == [SEC_ACT_1 |-> 822200, CTBTR_1 |-> "text",
                    CTB_LOC1 |-> "text", CTB_PAGE1 |-> "text",
                    DLG_CODE1 |-> "text"]

-----------------------------------------------------------------------------
(* WriteRaw of each analytic.  The lock goes into the message unless it is *)
(* empty; test_t has no use for it.                                        *)

Refresh(lock, fields) == [kind |-> "refresh", lock |-> lock, fields |-> fields]

BarWriteRaw(b, lock) == Refresh(lock, BarFields(b))

RollupWriteRaw(r, lock) == Refresh(lock, RollupFields(r))

CloseWriteRaw(c, lock) == Refresh(lock, CloseFields(c))

TestWriteRaw == Refresh("", TestFields @@ TestContributor)
=============================================================================
