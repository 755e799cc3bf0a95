---------------------------- MODULE MCLifecycle -----------------------------
(***************************************************************************)
(* Small instances of Lifecycle for TLC.                                   *)
(***************************************************************************)
EXTENDS Lifecycle, TLC

CONSTANTS k1, k2, o1, t1, r1, r2

TwoKeys == {k1, k2}

\* Two sessions of one caller.
OneOwner == {o1}
SameOwner == (k1 :> o1 @@ k2 :> o1)
OneCell == {t1}
OwnCell == (o1 :> t1)

\* One session.
OneKey == {k1}
ItsOwner == (k1 :> o1)

\* The request handlers are interchangeable, and so are two keys of one caller.
Symmetry == Permutations({r1, r2}) \cup Permutations({k1, k2})
=============================================================================
