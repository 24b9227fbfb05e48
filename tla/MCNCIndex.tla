----------------------------- MODULE MCNCIndex -----------------------------
(* Four names that share slots: lon and lat in tables of 3 and of 7 slots, *)
(* lev and time in tables of 7.  The table of primes has room for two      *)
(* doublings of the smallest table; ShortPrimes ends after the first.      *)
EXTENDS NCIndex

CONSTANTS lon, lat, lev, time

Hashes == [n \in Names |->
            CASE n = lon -> 0 [] n = lat -> 21 [] n = lev -> 2 [] n = time -> 9]

AsTable(s)  == [i \in 0 .. Len(s) - 1 |-> s[i + 1]]
SomePrimes  == AsTable(<<0, 2, 3, 5, 7, 11, 13, 17, 19, 23, 29, 31, 999>>)
ShortPrimes == AsTable(<<0, 2, 3, 5, 7, 999>>)
=============================================================================
