---------------------------- MODULE MCHostThreads -----------------------------
(***************************************************************************)
(* HostThreads with at most two acquirers and two configurers, two rates   *)
(* and two lengths, one of each the default of the board.  All of it at    *)
(* once is too much for TLC: a behaviour keeps to one of the bounds of     *)
(* MCBounds, which it chooses at the start.                                *)
(***************************************************************************)
EXTENDS HostThreads

CONSTANTS a1, a2, c1, c2

VARIABLE bound

MCRates   == {"0", "5"}
MCLengths == {"0", "1"}

Bound(acquirers, configurers, rates, lengths, n) ==
  [acquirers |-> acquirers, configurers |-> configurers,
   rates |-> rates, lengths |-> lengths, failures |-> n]

\* Acquirers that meet; configurers that meet, of which one fails; configurers
\* that meet with different selections.
MCBounds ==
  { Bound({a1, a2}, {c1}, MCRates, MCLengths, 2),
    Bound({a1}, {c1, c2}, {"0"}, {"1"}, 1),
    Bound({a1}, {c1, c2}, MCRates, {"1"}, 0) }

\* The threads begin, and operations fail, within the bound.
Within ==
  /\ \A a \in Acquirers \ bound.acquirers : acq_pc[a] = "idle"
  /\ \A c \in Configurers \ bound.configurers : config_pc[c] = "idle"
  /\ \A c \in Configurers :
       /\ new_rate[c] \in bound.rates \cup {"unset"}
       /\ new_length[c] \in bound.lengths \cup {"unset"}
  /\ failures <= bound.failures

MCInit == Init /\ bound \in MCBounds

MCNext == Next /\ UNCHANGED bound /\ Within'

MCSpec == MCInit /\ [][MCNext]_<<threadVars, bound>> /\ Fairness
=============================================================================
