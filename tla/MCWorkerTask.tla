---------------------------- MODULE MCWorkerTask ----------------------------
(* WorkerTask for TLC.                                                     *)
EXTENDS WorkerTask

T(time, price, volume) == [time |-> time, price |-> price, volume |-> volume]

(* Prices with halves and a negative one; volumes that pass RealMax.       *)
MCHistories == {<<T(1, 3, 2), T(2, -1, 5), T(2, 6, 3), T(4, 2, 4)>>,
                <<T(2, 5, 1), T(3, 5, 13)>>}

(* Doubles are exact up to half the word, and every other volume above.    *)
MCSpacing == [v \in 0..15 |-> IF v < 8 THEN 1 ELSE 2]

(* The reader takes a signed time.                                         *)
MCReaderLow == -128

Q(key, value) == [key |-> key, value |-> value]

R(file, ref, query) ==
    [file |-> file, ref |-> ref, query |-> query, length |-> 20,
     attrib |-> FALSE, handle |-> 1, token |-> 1]

Period == <<Q("open", 1), Q("close", 2)>>

MCRequests ==
    {R("A", "", Period), R("A", "rollup", Period), R("A", "close", Period),
     R("B", "bar", <<Q("close", 4), Q("open", 3), Q("open", 2)>>),
     R("B", "rollup", <<Q("open", 1), Q("close", 3)>>),
     R("B", "rollup", <<Q("open", 2)>>),
     R("A", "", NoQuery), R("B", "close", <<Q("open", 3)>>),
     R("C", "", Period), R("B", "test", Period), R(NoFile, "", Period),
     [R("A", "rollup", <<Q("open", 2), Q("close", 1)>>) EXCEPT
        !.length = 220, !.attrib = TRUE, !.handle = 2]}
=============================================================================
