------------------------- MODULE MCAdaptiveQuality -------------------------
EXTENDS AdaptiveQuality, TLC

Report(kbps, net, cpu) == [kbps |-> kbps, net |-> net, cpu |-> cpu]
Reports ==
  {Report(3000, "good", FALSE), Report(600, "good", FALSE),
   Report(3000, "severe", FALSE), Report(3000, "good", TRUE)}

\* For the senders a tier may fall and rise again; why it does is another matter.
FallAndRise == {Report(3000, "good", FALSE), Report(3000, "severe", FALSE)}
OneDevice == device = 1
Symmetry == Permutations(Peer)
=============================================================================
