---------------------------- MODULE MCStoreRows ----------------------------
(* Small instance of StoreRows: two proxies that share two sessions, and a *)
(* number and a string that are one text in the tables.                    *)
EXTENDS StoreQueries

CONSTANTS p1, p2, s1, s2, number1, string1, number2, text1, text2, h1, h2, tool

MCText == [i \in {number1, string1, number2} |-> IF i = number2 THEN text2 ELSE text1]
MCToolOf == [t \in {text1, text2} |-> IF t = text2 THEN tool ELSE None]
MCBatches == {<<number1, number2>>}

(* The proxies may change places, and so may the sessions and the hashes. *)
MCSymmetry == {f @@ g @@ h : f \in Permutations({p1, p2}), g \in Permutations({s1, s2}),
                             h \in Permutations({h1, h2})}
=============================================================================
