------------------------------- MODULE MCStores -------------------------------
EXTENDS Stores

CONSTANTS apiKey, basicAuth, s1, s2, b1, r1, r2, r3, sys, ann, o1, o2

MCFormatOf == [v \in Values |-> IF v = b1 THEN basicAuth ELSE apiKey]
MCHomeOf == [u \in People |-> IF u = sys THEN o1 ELSE o2]
===============================================================================
