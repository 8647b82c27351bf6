-------------------------- MODULE MCViewPublication --------------------------
EXTENDS ViewPublication
CONSTANTS a, b, o
==============================================================================
