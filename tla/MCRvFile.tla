------------------------------ MODULE MCRvFile ------------------------------
(***************************************************************************)
(* Instances of RvFile for TLC: what else happens, in each behaviour.      *)
(***************************************************************************)
EXTENDS RvFile, TLC
CONSTANTS f1, f2
\* Calls that succeed, and on paths put anywhere; reads and writes that fail,
\* and power cuts between calls; an entry without its descriptor; and a power
\* cut while a volume is formatted.
Whole == {{"truncate"}, {"truncate", "seek"}, {"fail", "cut"}, {"tear"}}
HalfFormat == {{"half"}}

\* What is torn is of one name: no property follows it further.
OneNameIsTorn == "tear" \in happens => entry'[f2] = 0
=============================================================================
