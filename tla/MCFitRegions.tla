---------------------------- MODULE MCFitRegions ----------------------------
EXTENDS FitRegions

\* two peaks, each in a region of its own; the user draws edges inside,
\* outside and between the regions
MCVisible == {<<0, 4>>, <<5, 8>>}
MCCentres == {2, 6}
MCRanges  == {<<0, 1>>, <<3, 6>>}

\* the centre of a sum moves with its bins and with the edges
MCCentroid(sum) ==
  IF (sum.lb[2] + sum.rb[1]) % 2 = 0 THEN sum.over[1] ELSE sum.over[2]
=============================================================================
