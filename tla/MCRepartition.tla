----------------------------- MODULE MCRepartition -----------------------------
EXTENDS Repartition

MCPools == Inputs \X Outputs
\* A piece of the second input fills a file at once, one of the first does not.
MCSize == [i \in Inputs |-> i + 1]
\* Two inputs meet in one output; one input feeds two outputs; one sends twice to one.
MCInputChoices ==
  {[i \in Inputs |-> <<{0}>>],
   [i \in Inputs |-> IF i = 0 THEN <<{0, 1}>> ELSE <<>>],
   [i \in Inputs |-> IF i = 0 THEN <<{0}, {0}>> ELSE <<>>]}
================================================================================
