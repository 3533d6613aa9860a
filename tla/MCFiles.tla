------------------------------ MODULE MCFiles ------------------------------
(* Descriptor tables of two words of two descriptors each; see the .cfg's. *)
EXTENDS Files, TLC

\* Bounds: the descriptors of a table, and of all tables, that hold a file.  More
\* may be taken by open()s in progress, and the step that exceeds a bound is
\* checked as well.
MaxHeld == 2
MaxHeldInAll == 3

Symmetry == Permutations(Files) \cup Permutations(Structs)

\* What the embedded array of table s holds is read only by an exec that keeps a
\* pointer to it: else it does not tell two states apart.
Kept(s) == \E t \in Tasks : tfiles[t] = s /\ Stale(t)

MCView ==
  <<workVars, tab, tfiles, pc, loc, short, torn,
    [s \in Structs |-> IF Kept(s) THEN fd_array[s] ELSE <<>>]>>

\* A behaviour is followed until fdput() drops a reference that was not taken or
\* an exec closes a descriptor of a replaced fdtable, that step included: from
\* there on the properties are about the other files, or about none.
Bounded ==
  /\ short = {} /\ ~torn
  /\ \A s \in Structs : Cardinality({i \in Fds : tab[s].fd[i] # NULL}) <= MaxHeld
  /\ Cardinality({p \in Structs \X Fds : tab[p[1]].fd[p[2]] # NULL}) <= MaxHeldInAll

=============================================================================
