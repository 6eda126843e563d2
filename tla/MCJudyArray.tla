---------------------------- MODULE MCJudyArray ----------------------------
(* Instances of JudyArray small enough for TLC: indexes of four octal       *)
(* digits, written below as they read.                                      *)
EXTENDS JudyArray

Oct(n) == (n \div 1000) * 512 + ((n \div 100) % 10) * 64 + ((n \div 10) % 10) * 8 + (n % 10)
Octs(S) == {Oct(n) : n \in S}

MCLeafMax == (TRUE :> <<5, 5, 4>>) @@ (FALSE :> <<4, 6, 4>>)
MCImmedMax == (TRUE :> <<3, 2, 2>>) @@ (FALSE :> <<2, 2, 1>>)

\* The root turns from a leaf to linear, bitmap and uncompressed branches.
Spread == [filled |-> TRUE, fixed |-> {}, keys |-> Octs({0, 1000, 2000, 3000, 6001, 6170, 7777})]

\* A narrow leaf of one expanse, and indexes that do not belong under it.
Narrow == [filled |-> TRUE, fixed |-> {}, keys |-> Octs({1230, 1231, 1233, 1235, 1270, 1300, 3230})]

\* Branches below the root.
Inner == [filled |-> FALSE, fixed |-> Octs({1000, 1100, 1200, 1210, 1211}),
          keys |-> Octs({1000, 1100, 1210, 1220, 1221, 1300})]

\* A bitmap leaf that fills up, and its neighbours under a branch of two digits.
Filling == [filled |-> FALSE, fixed |-> Octs({1230, 1231, 1232, 1240}),
            keys |-> Octs({1233, 1234, 1235, 1236, 1237, 1250})]

\* An expanse of two digits of which a few indexes are missing.
Dense == [filled |-> FALSE, fixed |-> {Oct(1200) + i : i \in 0..63} \ Octs({1200, 1234}),
          keys |-> Octs({1200, 1234, 1277, 1300})]

\* A full bitmap two levels below its branch.
Whole == [filled |-> FALSE, fixed |-> Octs({1230, 1231, 1232, 1233, 1235, 1236}),
          keys |-> Octs({1234, 1237, 1300, 1310})]

TreePools == {Spread, Narrow, Inner, Filling, Dense, Whole}
TreeBudgets == {0, 1, 2, 9}
=============================================================================
