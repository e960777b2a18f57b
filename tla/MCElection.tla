------------------------------ MODULE MCElection ------------------------------
(***************************************************************************)
(* Instances of Election for TLC.  What counts is which nodes' shares a    *)
(* drawn number can fall between, so small stakes stand for 100..999.      *)
(***************************************************************************)
EXTENDS Election

MCStakes == 1..3
=============================================================================
