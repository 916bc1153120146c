---- MODULE MCCodingRun ----
EXTENDS CodingRun
====
