------------------------------- MODULE MCServer -------------------------------
(* Bounds for TLC: see README, "Runs". *)
EXTENDS Server

(* A vector that has less room to begin with, so that accepts reallocate it. *)
Small == INSTANCE Server WITH Reserved <- 1

SpecEitherRoom == (Init \/ Small!Init) /\ [][Next]_vars
===============================================================================
