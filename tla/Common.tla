------------------------------- MODULE Common -------------------------------
(***************************************************************************)
(* What the modules of the server's smaller parts and of its screens share:*)
(* a mark for "no value", and the budget of rare events (failing calls,    *)
(* restarts, people who change their mind).  Every event of a kind takes   *)
(* one unit of the budget of that kind, and a behaviour has events of at   *)
(* most MaxKinds kinds.  The budget is not in the program: it keeps the    *)
(* instances that TLC explores finite.  Filtered says what SelectSeq says, *)
(* in a form that can be reasoned about.                                   *)
(***************************************************************************)
EXTENDS Integers, FiniteSets, Bags, Sequences

CONSTANTS
    None,     \* undefined, null or an empty string: different from every value
    Budget,   \* how often an event of each kind may happen
    MaxKinds  \* of how many kinds events may happen in one behaviour

ASSUME CommonAssumption ==
    /\ \A k \in DOMAIN Budget : Budget[k] \in Nat
    /\ MaxKinds \in Nat

VARIABLE spent  \* the bag of events so far

Elements(s) == {s[i] : i \in DOMAIN s}

Least(S) == CHOOSE i \in S : \A k \in S : i <= k

\* The elements of s that are in keep, in their order.
Filtered(s, keep) ==
    LET first[n \in 0 .. Len(s)] ==
          IF n = 0 THEN << >>
          ELSE IF s[n] \in keep THEN Append(first[n - 1], s[n]) ELSE first[n - 1]
    IN  first[Len(s)]

SpentOK == IsABag(spent) /\ DOMAIN spent \subseteq DOMAIN Budget

NothingSpent == spent = EmptyBag

Happened(k) == IF BagIn(k, spent) THEN spent[k] ELSE 0

Spend(k) ==
    /\ Happened(k) < Budget[k]
    /\ Cardinality(DOMAIN spent \cup {k}) <= MaxKinds
    /\ spent' = spent (+) SetToBag({k})
=============================================================================
