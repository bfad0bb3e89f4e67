----------------------------- MODULE MCDistributor -----------------------------
EXTENDS DistributorChannels, TLC

CONSTANTS c1, c2, s1, s2, s3

\* Two outputs; the first has a second sender, which is a clone.
MCChannelOf == s1 :> c1 @@ s2 :> c2 @@ s3 :> c1
================================================================================
