------------------------------ MODULE MCDataRoot ------------------------------
(* Small instances of DataRoot. *)
EXTENDS DataRoot, TLC

CONSTANTS b1, b2, j1, j2, o1, o2, c1

TwoBoards == [j \in Jobs |-> IF j = j1 THEN b1 ELSE b2]

\* Nothing, or one operation on the first vacancy; the second operation is new.
OneLeft ==
    {[o \in Ops |-> NoEntry]} \cup
    {[o \in Ops |-> IF o = o1 THEN r ELSE NoEntry] : r \in {r \in OldRows : r.job = j1}}

\* Nothing has been collected since the earlier version fetched the first vacancy.
Untouched ==
    /\ Fetched(j1) /\ posting[j1].raw.content = c1
    /\ posting[j2] = Absent /\ cache[j2] = NoRaw
    /\ polled = {} /\ kills = 0
    /\ \A c \in Collectors : at[c] = "idle"

\* The collector is the only process on a data root without operations.
Alone ==
    /\ kind = "v2" /\ Left = {} /\ deaths = 0
    /\ \A p \in Openers \ Collectors : step[p] = "closed"
    /\ \A o \in Ops : entry[o] = NoEntry

\* The cases of the instance: migrations with two openers, or one that collects.
MigrateOrCollect == Untouched \/ Alone
===============================================================================
