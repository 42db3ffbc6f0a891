----------------------------- MODULE MCHashMaps ------------------------------
(***************************************************************************)
(* The two maps of the base library, in one run: StableHashMap and, behind  *)
(* Robin, HashMap.  They share no variable, so each moves while the other   *)
(* is as it was at first.                                                   *)
(*                                                                         *)
(* Two keys of the stable map share every bucket and the third meets them   *)
(* in a small table.  In one array of HashMap three keys share a home at    *)
(* its end; in the other every key has its own.                             *)
(***************************************************************************)
EXTENDS StableHashMap, TLC

CONSTANTS k1, k2, k3,
          r1, r2, r3, r4,
          MinLog2, MaxLog2

MCHash == k1 :> 3 @@ k2 :> 3 @@ k3 :> 6

MCHashes == {r1 :> 7 @@ r2 :> 3 @@ r3 :> 4 @@ r4 :> 0,
             r1 :> 6 @@ r2 :> 6 @@ r3 :> 6 @@ r4 :> 7}

VARIABLES data, length, handed

Robin == INSTANCE HashMap
           WITH Keys <- {r1, r2, r3, r4}, Hashes <- MCHashes, len <- length

robin == <<data, length, handed>>

StableRests == Init /\ UNCHANGED vars
RobinRests == Robin!Init /\ UNCHANGED robin

MapsInit == Init /\ Robin!Init

MapsNext ==
  \/ \E k \in Keys, v \in Values : Set(k, v) /\ RobinRests
  \/ \E k \in Keys, v \in Values : GetOrInsert(k, v) /\ RobinRests
  \/ \E k \in Keys : Erase(k) /\ RobinRests
  \/ Clear /\ RobinRests
  \/ \E c \in Capacities : Reserve(c) /\ RobinRests
  \/ RehashEntry /\ RobinRests
  \/ RehashEnds /\ RobinRests
  \/ \E k \in {r1, r2, r3, r4}, v \in Values : Robin!Set(k, v) /\ StableRests
  \/ \E k \in {r1, r2, r3, r4}, v \in Values : Robin!GetOrInsert(k, v) /\ StableRests
  \/ \E k \in {r1, r2, r3, r4} : Robin!Erase(k) /\ StableRests
  \/ Robin!Clear /\ StableRests
  \/ \E e \in MinLog2 .. MaxLog2 : Robin!Reserve(2 ^ e) /\ StableRests

MapsSpec == MapsInit /\ [][MapsNext]_<<vars, robin>>

\* HashMap does for its callers what AssocMap says.
RobinIsAMap == Robin!ImplementsMap

\* HashMap hands out the cell of the key it was called with, unless no cell is empty.
HandedOutIsItsKey == Robin!HandedOutIsItsKey
=============================================================================
