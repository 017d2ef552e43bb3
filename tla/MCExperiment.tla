----------------------------- MODULE MCExperiment -----------------------------
(***************************************************************************)
(* A small instance of Experiment: two requests, two scenarios, and a      *)
(* table in the place of the hash.                                         *)
(***************************************************************************)
EXTENDS Experiment

CONSTANTS Contact, Wait

MCBaseline(seed, i) == IF (seed + i) % 2 = 0 THEN Contact ELSE Wait
MCRecovers(seed, k, action) ==
    ((k + seed) \div 2 + (IF action = Contact THEN k ELSE 0)) % 2 = 1
=============================================================================
