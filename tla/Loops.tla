-------------------------------- MODULE Loops --------------------------------
(***************************************************************************)
(* The loops of the code that are not steps of their own: a number of      *)
(* turns, each from what the one before it left.                           *)
(***************************************************************************)
EXTENDS Integers, Sequences

\* n turns from z; a turn also gets its number, from 1.  A loop that may end
\* before has turns that change nothing then.  (The comparison makes TLC
\* compute what a turn left before it goes on.)
Iterate(Step(_, _), z, n) ==
    LET after[i \in 0..n] ==
            IF i = 0 THEN z
            ELSE LET s == after[i - 1]
                 IN  IF s = z THEN Step(z, i) ELSE Step(s, i)
    IN  after[n]

\* The same sequence, element by element: TLC then keeps what it computed.
Now(s) == s \o <<>>

\* The first n of some sequences, one behind the other.
Joined(parts, n) == Iterate(LAMBDA s, i : s \o parts[i], <<>>, n)

=============================================================================
