------------------------------ MODULE MCListing ------------------------------
(* Values of Listing's constants for its small instance.                     *)
EXTENDS Listing, TLC

CONSTANTS w1, w2, i1, i2, i3, a, b

MCWorkers  == {w1, w2}
MCIds      == {i1, i2, i3}
Symmetry   == Permutations(MCWorkers) \cup Permutations(MCIds)

MCDetails == {[source |-> a, destination |-> b, originId |-> 1],
              [source |-> b, destination |-> a, originId |-> Null]}

Only(field, value) == [NoFilter EXCEPT ![field] = value]

\* Each filter by itself, and one with all.
MCFilters == {NoFilter, [Only("originId", 1) EXCEPT !.toDate = 1],
              Only("sourceAccNumber", a),
              [sourceAccNumber |-> a, destAccNumber |-> b, originId |-> 1,
               fromDate |-> 1, toDate |-> 2]}

================================================================================
