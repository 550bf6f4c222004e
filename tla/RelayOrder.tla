------------------------------ MODULE RelayOrder ------------------------------
(* The order a call tries its relays in (sortRelaysByRtt): a relay is any      *)
(* record with its round trip to us.                                          *)
EXTENDS Integers, Sequences, FiniteSets

\* An attribute of numbers that is not there.
None == -1

\* Mutant: a relay of unknown round trip goes before the others.
CloserMutant(a, b) ==
  \/ a.rtt = None /\ b.rtt # None
  \/ a.rtt # None /\ b.rtt # None /\ a.rtt < b.rtt

\* A relay of unknown round trip is never before another.
Closer(a, b) == a.rtt # None /\ (b.rtt = None \/ a.rtt < b.rtt)

\* A stable sort: what is closer first, and equals as they were.
Ahead(relays, j, i) ==
  Closer(relays[j], relays[i]) \/ (j < i /\ ~Closer(relays[i], relays[j]))

AheadOf(relays, i) == {j \in DOMAIN relays : Ahead(relays, j, i)}

\* The relay that comes k-th.
Place(relays, k) == CHOOSE i \in DOMAIN relays : Cardinality(AheadOf(relays, i)) = k - 1

SortRelaysByRtt(relays) == [k \in DOMAIN relays |-> relays[Place(relays, k)]]
=============================================================================
